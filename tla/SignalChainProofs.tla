-------------------------- MODULE SignalChainProofs --------------------------
(***************************************************************************)
(* Theorems of SignalChain, for any threads, signals, prior dispositions,  *)
(* pipe size and number of deliveries.                                     *)
(***************************************************************************)
EXTENDS SignalChainProperties, FiniteSetTheorems, TLAPS

-----------------------------------------------------------------------------
(* Types                                                                     *)

\* The innermost frame of a busy thread, and the stack below it.
LEMMA FrameTypes ==
  ASSUME TypeOK, NEW t \in Threads, stack[t] # <<>>
  PROVE  /\ Top(t) \in Frames /\ Top(t).sig \in Signals /\ Top(t).next \in Signals
         /\ Top(t).info \in Nat /\ Top(t).todo \subseteq Signals
         /\ Tail(stack[t]) \in Seq(Frames)
<1>1. stack[t] \in Seq(Frames)
  BY DEF TypeOK
<1>2. stack[t][1] \in Frames /\ Tail(stack[t]) \in Seq(Frames)
  BY <1>1
<1> QED
  BY <1>2 DEF Top, Frames

\* What the operations on stacks do to their type.
LEMMA GotoType ==
  ASSUME TypeOK, NEW t \in Threads, stack[t] # <<>>, NEW label \in Labels, Goto(t, label),
         label = "mark" => Top(t).sig \in Stops
  PROVE  stack' \in [Threads -> Seq(Frames)]
<1>1. [stack[t] EXCEPT ![1].at = label] \in Seq(Frames)
  <2>1. stack[t] \in Seq(Frames) /\ stack[t][1] \in Frames /\ 1 \in DOMAIN stack[t]
    BY DEF TypeOK
  <2>2. [stack[t][1] EXCEPT !.at = label] \in Frames
    BY <2>1 DEF Frames, Top
  <2> QED
    BY <2>1, <2>2
<1> QED
  BY <1>1 DEF Goto, TypeOK

LEMMA PopType ==
  ASSUME TypeOK, NEW t \in Threads, stack[t] # <<>>, Pop(t)
  PROVE  stack' \in [Threads -> Seq(Frames)]
  BY FrameTypes DEF Pop, TypeOK

LEMMA PushType ==
  ASSUME TypeOK, NEW t \in Threads, NEW f \in Frames, Push(t, f)
  PROVE  stack' \in [Threads -> Seq(Frames)]
<1>1. <<f>> \o stack[t] \in Seq(Frames)
  BY DEF TypeOK
<1> QED
  BY <1>1 DEF Push, TypeOK

LEMMA ReplaceType ==
  ASSUME TypeOK, NEW t \in Threads, stack[t] # <<>>, NEW f \in Frames,
         stack' = [stack EXCEPT ![t][1] = f]
  PROVE  stack' \in [Threads -> Seq(Frames)]
<1>1. stack[t] \in Seq(Frames) /\ 1 \in DOMAIN stack[t]
  BY DEF TypeOK
<1>2. [stack[t] EXCEPT ![1] = f] \in Seq(Frames)
  BY <1>1
<1> QED
  BY <1>2 DEF TypeOK

LEMMA InvocationType ==
  ASSUME TypeOK, NEW t \in Threads, NEW s \in Signals, NEW i \in Nat
  PROVE  Invocation(t, s, i) \in Frames /\ (Takeover(t, s) => replaying' \in Record)
<1>1. Cont \in Signals /\ NoRecord \in Record
  BY DEF Signals, NoRecord, Record
<1> QED
  BY <1>1 DEF TypeOK, Invocation, Takeover, TakeRecord, Frame, Frames, Labels, Label, Record

\* A delivery by the system keeps the types of what it changes.
LEMMA NativeType ==
  ASSUME TypeOK, NEW s \in Signals, Native(s)
  PROVE  /\ disposition' \in [Signals -> Kinds] /\ ran' \in [Signals -> Nat]
         /\ process' \in {"running", "stopped", "dead"} /\ continued' \in BOOLEAN
         /\ settled' \in Nat
<1>1. /\ disposition' \in [Signals -> Kinds] /\ ran' \in [Signals -> Nat]
      /\ settled' \in Nat
  BY DEF TypeOK, Native, Settled, Kinds
<1>2. process' \in {"running", "stopped", "dead"}
  BY DEF TypeOK, Native
<1>3. continued' \in BOOLEAN
  BY DEF TypeOK, Native
<1> QED
  BY <1>1, <1>2, <1>3

LEMMA CountType ==
  ASSUME NEW D, NEW f \in [D -> Nat], NEW x PROVE [f EXCEPT ![x] = @ + 1] \in [D -> Nat]
<1>1. CASE x \in D
  BY <1>1
<1>2. CASE x \notin D
  BY <1>2
<1> QED
  BY <1>1, <1>2

\* Performing a disposition keeps the types of what it changes.
LEMMA PerformType ==
  ASSUME TypeOK, NEW t \in Threads, stack[t] # <<>>, NEW kind, Perform(t, kind)
  PROVE  /\ stack' \in [Threads -> Seq(Frames)] /\ settled' \in Nat
         /\ heard' \in [0..(2 * MaxSignals) -> Nat] /\ replaying' \in Record
<1>1. Top(t).sig \in Signals /\ Top(t).info \in Nat
  BY FrameTypes
<1>2. CASE kind = "wrapper"
  <2>1. /\ stack' = [stack EXCEPT ![t][1] = Invocation(t, Top(t).sig, Top(t).info)]
        /\ Takeover(t, Top(t).sig) /\ UNCHANGED <<settled, heard>>
    BY <1>2 DEF Perform
  <2>2. Invocation(t, Top(t).sig, Top(t).info) \in Frames /\ replaying' \in Record
    BY <2>1, <1>1, InvocationType
  <2> QED
    BY <2>1, <2>2, ReplaceType DEF TypeOK
<1>3. CASE kind # "wrapper" /\ IsHandler(kind)
  <2>1. /\ Pop(t) /\ Settled /\ heard' = [heard EXCEPT ![Top(t).info] = @ + 1]
        /\ UNCHANGED replaying
    BY <1>3 DEF Perform, IsHandler
  <2>2. heard' \in [0..(2 * MaxSignals) -> Nat]
    BY <2>1, CountType DEF TypeOK
  <2>3. stack' \in [Threads -> Seq(Frames)]
    BY <2>1, PopType
  <2> QED
    BY <2>1, <2>2, <2>3 DEF TypeOK, Settled
<1>4. CASE kind = "ignore" \/ (kind = "default" /\ Top(t).sig = Cont)
  <2>1. Pop(t) /\ Settled /\ UNCHANGED <<heard, replaying>>
    BY <1>4 DEF Perform, IsHandler
  <2> QED
    BY <2>1, PopType DEF TypeOK, Settled
<1>5. CASE kind = "default" /\ Top(t).sig # Cont
  <2>1. Goto(t, "default") /\ UNCHANGED <<settled, heard, replaying>>
    BY <1>5 DEF Perform, IsHandler
  <2> QED
    BY <2>1, GotoType DEF Labels, TypeOK
<1> QED
  BY <1>2, <1>3, <1>4, <1>5 DEF IsHandler

LEMMA TypesInit == Init => TypeOK
<1> SUFFICES ASSUME Init PROVE TypeOK
  OBVIOUS
<1>1. Cont \in Signals /\ NoRecord \in Record
  BY DEF Signals, NoRecord, Record
<1>2. prior \in [Signals -> Kinds]
  BY OptionsAssumption DEF Init, Kinds
<1>3. lifecycle \in Lifecycles
  BY <1>1 DEF Init, Idle, Kinds, Lifecycles
<1>4. disposition \in [Signals -> Kinds]
  BY <1>2 DEF Init, Kinds
<1>5. stack \in [Threads -> Seq(Frames)] /\ pipe \in Seq(Record)
  BY DEF Init
<1>6. /\ handlers_installed \in BOOLEAN /\ consumed \subseteq Signals /\ stopped \subseteq Stops
      /\ descriptor \in {"none", "pipe", "closed", "file"}
      /\ process \in {"running", "stopped", "dead"} /\ continued \in BOOLEAN
      /\ arrived \in Nat /\ settled \in Nat
  BY OptionsAssumption DEF Init
<1>7. /\ dispatcher \in [at : {"none", "read", "taken", "replay", "replayed", "done"}, rec : Record]
      /\ replaying \in Record
  BY <1>1 DEF Init
<1>8. heard \in [0..(2 * MaxSignals) -> Nat] /\ ran \in [Signals -> Nat]
  BY DEF Init
<1> QED
  BY <1>2, <1>3, <1>4, <1>5, <1>6, <1>7, <1>8 DEF TypeOK

\* The steps of a handler.
LEMMA WrapperTypes ==
  ASSUME TypeOK, NEW t \in Threads, WrapperStep(t) PROVE TypeOK'
<1> USE DEF registry, records, world, history
<1>1. CASE Write(t)
  <2>1. stack' \in [Threads -> Seq(Frames)]
    BY <1>1, PopType, GotoType DEF Labels, Write, At
  <2>2. pipe' \in Seq(Record)
    <3>1. [sig |-> Top(t).sig, info |-> Top(t).info] \in Record
      BY <1>1, FrameTypes DEF Write, At, Record
    <3>2. pipe' = Append(pipe, [sig |-> Top(t).sig, info |-> Top(t).info]) \/ pipe' = pipe
      BY <1>1 DEF Write
    <3>3. pipe \in Seq(Record)
      BY DEF TypeOK
    <3> QED
      BY <3>1, <3>2, <3>3
  <2> QED
    BY <1>1, <2>1, <2>2 DEF Write, TypeOK
<1>2. CASE Exchange(t)
  <2>1. [Top(t) EXCEPT !.at = "installed", !.todo = stopped] \in Frames
    BY <1>2, FrameTypes DEF Exchange, At, TypeOK, Frames, Labels, Signals
  <2>2. stack' = [stack EXCEPT ![t][1] = [Top(t) EXCEPT !.at = "installed", !.todo = stopped]]
    BY <1>2 DEF Exchange, Top, TypeOK
  <2>3. stack' \in [Threads -> Seq(Frames)]
    BY <1>2, <2>1, <2>2, ReplaceType DEF Exchange, At
  <2> QED
    BY <1>2, <2>3 DEF Exchange, TypeOK
<1>3. CASE RearmInstalled(t)
  <2>1. stack' \in [Threads -> Seq(Frames)]
    BY <1>3, GotoType DEF Labels, RearmInstalled, At
  <2> QED
    BY <1>3, <2>1 DEF RearmInstalled, TypeOK
<1>4. CASE RearmCheck(t)
  <2>1. CASE Top(t).todo = {}
    <3>1. stack' \in [Threads -> Seq(Frames)]
      BY <1>4, <2>1, GotoType DEF Labels, RearmCheck, At
    <3> QED
      BY <1>4, <3>1 DEF RearmCheck, TypeOK
  <2>2. CASE Top(t).todo # {}
    <3>1. PICK s \in Top(t).todo : stack' = [stack EXCEPT ![t][1] = Checked(Top(t), s)]
      BY <1>4, <2>2 DEF RearmCheck
    <3>2. Checked(Top(t), s) \in Frames
      BY <1>4, <3>1, FrameTypes DEF Checked, RearmCheck, At, Frames, Labels
    <3>3. stack' \in [Threads -> Seq(Frames)]
      BY <1>4, <3>1, <3>2, ReplaceType DEF RearmCheck, At
    <3> QED
      BY <1>4, <3>3 DEF RearmCheck, TypeOK
  <2> QED
    BY <2>1, <2>2
<1>5. CASE RearmPut(t)
  <2>1. stack' \in [Threads -> Seq(Frames)]
    BY <1>5, GotoType DEF Labels, RearmPut, At
  <2>2. disposition' \in [Signals -> Kinds]
    BY <1>5 DEF RearmPut, TypeOK, Kinds
  <2> QED
    BY <1>5, <2>1, <2>2 DEF RearmPut, TypeOK
<1>6. CASE Forward(t)
  <2>1. CASE Effective(Top(t).sig) = "once"
    <3>1. stack' \in [Threads -> Seq(Frames)]
      BY <1>6, <2>1, GotoType DEF Labels, Forward, At
    <3> QED
      BY <1>6, <2>1, <3>1 DEF Forward, TypeOK
  <2>2. CASE Effective(Top(t).sig) # "once"
    <3>1. /\ stack' \in [Threads -> Seq(Frames)] /\ settled' \in Nat
          /\ heard' \in [0..(2 * MaxSignals) -> Nat] /\ replaying' \in Record
      BY <1>6, <2>2, PerformType DEF Forward, At
    <3> QED
      BY <1>6, <3>1 DEF Forward, TypeOK
  <2> QED
    BY <2>1, <2>2
<1>7. CASE Claim(t)
  <2>1. /\ stack' \in [Threads -> Seq(Frames)] /\ settled' \in Nat
        /\ heard' \in [0..(2 * MaxSignals) -> Nat] /\ replaying' \in Record
    <3>1. stack[t] # <<>> /\ (Perform(t, "default") \/ Perform(t, "once"))
      BY <1>7 DEF Claim, At
    <3> QED
      BY <3>1, PerformType
  <2>2. consumed' \subseteq Signals
    BY <1>7, FrameTypes DEF Claim, At, TypeOK
  <2>3. ran' \in [Signals -> Nat]
    BY <1>7 DEF Claim, TypeOK
  <2> QED
    BY <1>7, <2>1, <2>2, <2>3 DEF Claim, TypeOK
<1>8. CASE SetDefault(t)
  <2>1. stack' \in [Threads -> Seq(Frames)]
    BY <1>8, GotoType DEF Labels, SetDefault, At
  <2>2. disposition' \in [Signals -> Kinds]
    BY <1>8 DEF SetDefault, TypeOK, Kinds
  <2> QED
    BY <1>8, <2>1, <2>2 DEF SetDefault, TypeOK
<1>9. CASE MarkStopped(t)
  <2>1. stack' \in [Threads -> Seq(Frames)]
    BY <1>9, GotoType DEF Labels, MarkStopped, At
  <2>2. stopped' \subseteq Stops
    BY <1>9, FrameTypes DEF Frames, At, Top, MarkStopped, Remember, TypeOK
  <2> QED
    BY <1>9, <2>1, <2>2 DEF MarkStopped, TypeOK
<1>10. CASE Raise(t)
  <2>1. Top(t).sig \in Signals /\ stack[t] # <<>>
    BY <1>10, FrameTypes DEF Raise, At
  <2>2. CASE disposition[Top(t).sig] = "wrapper"
    <3>1. Invocation(t, Top(t).sig, 0) \in Frames /\ replaying' \in Record
      BY <1>10, <2>1, <2>2, InvocationType DEF Raise
    <3>2. stack' \in [Threads -> Seq(Frames)]
      BY <1>10, <2>1, <2>2, <3>1, ReplaceType DEF Raise
    <3> QED
      BY <1>10, <2>2, <3>1, <3>2 DEF Raise, TypeOK
  <2>3. CASE disposition[Top(t).sig] # "wrapper"
    <3>1. Native(Top(t).sig) /\ Pop(t) /\ UNCHANGED replaying
      BY <1>10, <2>3 DEF Raise
    <3>2. stack' \in [Threads -> Seq(Frames)]
      BY <2>1, <3>1, PopType
    <3> QED
      BY <1>10, <2>1, <3>1, <3>2, NativeType DEF Raise, TypeOK
  <2> QED
    BY <2>2, <2>3
<1> QED
  BY <1>1, <1>2, <1>3, <1>4, <1>5, <1>6, <1>7, <1>8, <1>9, <1>10 DEF WrapperStep

\* The steps of the dispatcher.
LEMMA DispatcherTypes == ASSUME TypeOK, DispatcherStep PROVE TypeOK'
<1> USE DEF registry, records, world, history
<1>0. /\ Dispatcher \in Threads /\ NoRecord \in Record
      /\ dispatcher.rec \in Record /\ dispatcher.rec.sig \in Signals /\ dispatcher.rec.info \in Nat
  BY DEF TypeOK, Threads, NoRecord, Record, Signals
<1> DEFINE Places == {"none", "read", "taken", "replay", "replayed", "done"}
<1>1. CASE Read
  <2>1. Head(pipe) \in Record /\ Tail(pipe) \in Seq(Record)
    BY <1>1 DEF Read, TypeOK
  <2>2. dispatcher' \in [at : Places, rec : Record]
    BY <1>1, <2>1 DEF Read
  <2> QED
    BY <1>1, <2>1, <2>2 DEF Read, TypeOK
<1>2. CASE Exit
  BY <1>2 DEF Exit, Dispatch, TypeOK
<1>3. CASE Replaying
  <2>1. CASE IsHandler(Effective(dispatcher.rec.sig))
    BY <1>0, <1>3, <2>1 DEF Replaying, Dispatch, TypeOK
  <2>2. CASE ~IsHandler(Effective(dispatcher.rec.sig))
    <3>1. Frame(dispatcher.rec.sig, dispatcher.rec.info, "forward") \in Frames
      BY <1>0 DEF Frame, Frames, Labels
    <3>2. stack' \in [Threads -> Seq(Frames)]
      BY <1>0, <1>3, <2>2, <3>1, PushType DEF Replaying
    <3> QED
      BY <1>3, <2>2, <3>2 DEF Replaying, Dispatch, TypeOK
  <2> QED
    BY <2>1, <2>2
<1>4. CASE ReplayRaise
  <2>1. dispatcher' \in [at : Places, rec : Record]
    BY <1>4 DEF ReplayRaise, Dispatch, TypeOK
  <2>2. CASE disposition[dispatcher.rec.sig] = "wrapper"
    <3>1. /\ Invocation(Dispatcher, dispatcher.rec.sig, 0) \in Frames
          /\ replaying' \in Record
      BY <1>0, <1>4, <2>2, InvocationType DEF ReplayRaise
    <3>2. stack' \in [Threads -> Seq(Frames)]
      BY <1>0, <1>4, <2>2, <3>1, PushType DEF ReplayRaise
    <3> QED
      BY <1>4, <2>1, <2>2, <3>1, <3>2 DEF ReplayRaise, TypeOK
  <2>3. CASE disposition[dispatcher.rec.sig] # "wrapper"
    <3>1. Native(dispatcher.rec.sig) /\ UNCHANGED <<stack, replaying>>
      BY <1>4, <2>3 DEF ReplayRaise
    <3> QED
      BY <1>0, <1>4, <2>1, <3>1, NativeType DEF ReplayRaise, TypeOK
  <2> QED
    BY <2>2, <2>3
<1>5. CASE Replayed
  BY <1>0, <1>5 DEF Replayed, Dispatch, TypeOK
<1> QED
  BY <1>1, <1>2, <1>3, <1>4, <1>5 DEF DispatcherStep

\* The steps of the owner, and what happens in the process.
LEMMA OtherTypes ==
  ASSUME TypeOK,
         \/ OwnerStep \/ Install \/ InstallFailed \/ Uninstall \/ Continue \/ Open
         \/ \E s \in Signals : Register(s)
         \/ \E t \in Threads, s \in Signals : Deliver(t, s)
  PROVE  TypeOK'
<1> USE DEF registry, records, world, history
<1>0. NoRecord \in Record /\ Cont \in Signals /\ "default" \in Kinds
  BY DEF NoRecord, Record, Signals, Kinds
<1>1. CASE Create
  BY <1>0, <1>1 DEF Create, TypeOK, Lifecycles
<1>2. CASE Wrap
  <2>1. disposition' \in [Signals -> Kinds]
    BY <1>2 DEF Wrap, TypeOK, Kinds
  <2>2. lifecycle' \in Lifecycles
    <3>1. lifecycle \in Lifecycles /\ Idle \in Lifecycles
      BY <1>0 DEF TypeOK, Idle, Lifecycles
    <3>2. CASE lifecycle' = Idle \/ lifecycle' = [Idle EXCEPT !.at = "uninstall"]
      BY <3>1, <3>2 DEF Lifecycles
    <3>3. CASE \E s \in lifecycle.todo : lifecycle' = [lifecycle EXCEPT !.todo = @ \ {s}]
      BY <3>1, <3>3 DEF Lifecycles
    <3> QED
      BY <1>2, <3>2, <3>3 DEF Wrap
  <2> QED
    BY <1>2, <2>1, <2>2 DEF Wrap, TypeOK
<1>3. CASE CloseWrite
  BY <1>3 DEF CloseWrite, Step, TypeOK, Lifecycles
<1>4. CASE Join
  <2>1. <<>> \in Seq(Record)
    OBVIOUS
  <2>2. lifecycle' \in Lifecycles
    BY <1>4 DEF Join, TypeOK, Lifecycles
  <2> QED
    BY <1>0, <1>4, <2>1, <2>2 DEF Join, TypeOK
<1>5. CASE Uncovered
  <2>1. \A s \in Signals : Effective(s) \in Kinds
    BY <1>0 DEF Effective, TypeOK
  <2>2. lifecycle' \in Lifecycles
    <3>1. lifecycle \in Lifecycles /\ Idle \in Lifecycles
      BY <1>0 DEF TypeOK, Idle, Lifecycles
    <3>2. CASE lifecycle' = Idle
      BY <3>1, <3>2
    <3>3. ASSUME NEW s \in lifecycle.todo,
                 lifecycle' = [lifecycle EXCEPT !.todo = @ \ {s}, !.next = s, !.kind = Effective(s),
                                                !.at = IF Owned(s) THEN "put" ELSE @]
          PROVE  lifecycle' \in Lifecycles
      <4>1. s \in Signals /\ Effective(s) \in Kinds
        BY <2>1, <3>1 DEF Lifecycles
      <4>2. (IF Owned(s) THEN "put" ELSE lifecycle.at) \in
              {"idle", "create", "wrap", "uninstall", "close", "join", "restore", "put"}
        BY <3>1 DEF Lifecycles
      <4> QED
        BY <3>1, <3>3, <4>1, <4>2 DEF Lifecycles
    <3> QED
      BY <1>5, <3>2, <3>3 DEF Uncovered
  <2> QED
    BY <1>5, <2>2 DEF Uncovered, TypeOK
<1>6. CASE PutBack
  BY <1>6 DEF PutBack, Step, TypeOK, Lifecycles
<1>7. CASE Uninstall
  BY <1>7 DEF Uninstall, Step, TypeOK, Lifecycles
<1>8. CASE Install
  <2>1. <<>> \in Seq(Record)
    OBVIOUS
  <2>2. lifecycle' \in Lifecycles
    BY <1>8 DEF Install, Step, TypeOK, Lifecycles
  <2> QED
    BY <1>8, <2>1, <2>2 DEF Install, TypeOK
<1>9. CASE InstallFailed
  BY <1>0, <1>9 DEF InstallFailed, Idle, TypeOK, Lifecycles
<1>10. CASE Continue
  BY <1>10 DEF Continue, TypeOK
<1>11. CASE Open
  BY <1>11 DEF Open, TypeOK
<1>12. ASSUME NEW s \in Signals, Register(s) PROVE TypeOK'
  BY <1>12 DEF Register, TypeOK, Kinds
<1>13. ASSUME NEW t \in Threads, NEW s \in Signals, Deliver(t, s) PROVE TypeOK'
  <2>1. arrived' \in Nat
    BY <1>13 DEF Deliver, TypeOK
  <2>2. CASE disposition[s] = "wrapper"
    <3>1. /\ Invocation(t, s, arrived + 1) \in Frames /\ replaying' \in Record
      BY <1>13, <2>2, InvocationType DEF Deliver, TypeOK
    <3>2. stack' \in [Threads -> Seq(Frames)]
      BY <1>13, <2>2, <3>1, PushType DEF Deliver
    <3>3. continued' \in BOOLEAN
      BY <1>13, <2>2 DEF Deliver
    <3> QED
      BY <1>13, <2>1, <2>2, <3>1, <3>2, <3>3 DEF Deliver, TypeOK
  <2>3. CASE disposition[s] # "wrapper"
    <3>1. Native(s) /\ UNCHANGED <<stack, replaying>>
      BY <1>13, <2>3 DEF Deliver
    <3> QED
      BY <1>13, <2>1, <3>1, NativeType DEF Deliver, TypeOK
  <2> QED
    BY <2>2, <2>3
<1> QED
  BY <1>1, <1>2, <1>3, <1>4, <1>5, <1>6, <1>7, <1>8, <1>9, <1>10, <1>11, <1>12, <1>13
  DEF OwnerStep

LEMMA TypesStep == TypeOK /\ [Next]_vars => TypeOK'
<1> SUFFICES ASSUME TypeOK, [Next]_vars PROVE TypeOK'
  OBVIOUS
<1>1. CASE Next
  BY <1>1, WrapperTypes, DispatcherTypes, OtherTypes DEF Next
<1>2. CASE UNCHANGED vars
  BY <1>2 DEF vars, registry, records, world, history, TypeOK
<1> QED
  BY <1>1, <1>2

\* Every reachable state has its types, whatever is installed, removed, delivered
\* and interrupted; in particular only a stop's wrapper waits for SIGCONT.
THEOREM TypesHold == Spec => []TypeOK
  BY TypesInit, TypesStep, PTL DEF Spec

-----------------------------------------------------------------------------
(* The record that is replayed.  The pointer is set only from the local it   *)
(* points to and cleared before the next read.  A new dispatcher starts with *)
(* no record, because one starts only after the last one was joined: that is *)
(* what the part about the owner's place says.                               *)
LiveInv ==
  /\ RecordIsLive
  /\ lifecycle.at \in {"wrap", "uninstall"} => handlers_installed
  /\ \/ lifecycle.at \in {"create", "restore", "put"}
     \/ lifecycle.at = "idle" /\ ~handlers_installed
     => dispatcher.at = "none"

LEMMA LiveInit == Init => LiveInv
  BY DEF Init, LiveInv, RecordIsLive, Idle

\* A delivery takes the record or leaves it.
LEMMA TakeoverKeeps ==
  ASSUME LiveInv, NEW t, NEW s, Takeover(t, s) \/ UNCHANGED replaying,
         dispatcher'.rec = dispatcher.rec, Replay => Replay'
  PROVE  RecordIsLive'
  BY DEF LiveInv, RecordIsLive, Takeover, TakeRecord, Replay

LEMMA LiveWrapper ==
  ASSUME LiveInv, NEW t \in Threads, WrapperStep(t) PROVE LiveInv'
<1> USE DEF registry, records, world, history
<1>1. UNCHANGED <<handlers_installed, lifecycle, dispatcher>>
  BY DEF WrapperStep, Write, Exchange, RearmInstalled, RearmCheck, RearmPut, Forward, Claim,
         SetDefault, MarkStopped, Raise
<1>2. Takeover(t, Top(t).sig) \/ UNCHANGED replaying
  <2>1. CASE Forward(t) \/ Claim(t)
    <3>1. ASSUME NEW kind, Perform(t, kind) PROVE Takeover(t, Top(t).sig) \/ UNCHANGED replaying
      BY <3>1 DEF Perform, IsHandler
    <3> QED
      BY <2>1, <3>1 DEF Forward, Claim
  <2>2. CASE Raise(t)
    BY <2>2 DEF Raise
  <2> QED
    BY <2>1, <2>2 DEF WrapperStep, Write, Exchange, RearmInstalled, RearmCheck, RearmPut,
                      SetDefault, MarkStopped
<1>3. RecordIsLive'
  BY <1>1, <1>2, TakeoverKeeps DEF Replay
<1> QED
  BY <1>1, <1>3 DEF LiveInv

LEMMA LiveDispatcher == ASSUME TypeOK, LiveInv, DispatcherStep PROVE LiveInv'
<1> USE DEF registry, records, world, history
<1>1. UNCHANGED <<handlers_installed, lifecycle>> /\ dispatcher.at # "none"
  BY DEF DispatcherStep, Read, Exit, Replaying, ReplayRaise, Replayed, Dispatching
<1>2. RecordIsLive'
  <2>1. CASE Read \/ Exit
    <3>1. replaying' = NoRecord
      BY <2>1 DEF Read, Exit, Dispatching, LiveInv, RecordIsLive, Replay
    <3> QED
      BY <3>1 DEF RecordIsLive
  <2>2. CASE Replaying
    <3>1. CASE IsHandler(Effective(dispatcher.rec.sig))
      BY <2>2, <3>1 DEF Replaying, Dispatch, RecordIsLive, Replay, TypeOK
    <3>2. CASE ~IsHandler(Effective(dispatcher.rec.sig))
      BY <2>2, <3>2 DEF Replaying, Dispatching, LiveInv, RecordIsLive, Replay
    <3> QED
      BY <3>1, <3>2
  <2>3. CASE ReplayRaise
    <3>1. dispatcher'.rec = dispatcher.rec /\ Replay'
      BY <2>3 DEF ReplayRaise, Dispatch, Replay, TypeOK
    <3>2. Takeover(Dispatcher, dispatcher.rec.sig) \/ UNCHANGED replaying
      BY <2>3 DEF ReplayRaise
    <3> QED
      BY <3>1, <3>2, TakeoverKeeps
  <2>4. CASE Replayed
    BY <2>4 DEF Replayed, RecordIsLive, NoRecord
  <2> QED
    BY <2>1, <2>2, <2>3, <2>4 DEF DispatcherStep
<1>3. ~(\/ lifecycle.at \in {"create", "restore", "put"}
        \/ lifecycle.at = "idle" /\ ~handlers_installed)
  BY <1>1 DEF LiveInv
<1> QED
  BY <1>1, <1>2, <1>3 DEF LiveInv

LEMMA LiveOther ==
  ASSUME TypeOK, LiveInv,
         \/ OwnerStep \/ Install \/ InstallFailed \/ Uninstall \/ Continue \/ Open
         \/ \E s \in Signals : Register(s)
         \/ \E t \in Threads, s \in Signals : Deliver(t, s)
  PROVE  LiveInv'
<1> USE DEF registry, records, world, history
<1>1. CASE Create
  <2>1. replaying' = NoRecord
    BY <1>1 DEF Create, Lifecycle, LiveInv, RecordIsLive, Replay
  <2> QED
    BY <1>1, <2>1 DEF Create, LiveInv, RecordIsLive, TypeOK, Lifecycles
<1>2. CASE Wrap
  <2>1. lifecycle'.at \in {"idle", "wrap", "uninstall"}
    BY <1>2 DEF Wrap, Lifecycle, Idle, TypeOK, Lifecycles
  <2>2. UNCHANGED <<handlers_installed, dispatcher, replaying>> /\ handlers_installed
    BY <1>2 DEF Wrap, Lifecycle, LiveInv
  <2> QED
    BY <2>1, <2>2 DEF LiveInv, RecordIsLive, Replay
<1>3. CASE CloseWrite
  BY <1>3 DEF CloseWrite, Step, LiveInv, RecordIsLive, Replay, TypeOK, Lifecycles
<1>4. CASE Join
  <2>1. replaying' = NoRecord
    BY <1>4 DEF Join, LiveInv, RecordIsLive, Replay
  <2> QED
    BY <1>4, <2>1 DEF Join, LiveInv, RecordIsLive, TypeOK, Lifecycles
<1>5. CASE Uncovered
  <2>1. lifecycle'.at \in {"idle", "put", "restore"}
    <3>1. CASE lifecycle' = Idle
      BY <3>1 DEF Idle
    <3>2. ASSUME NEW s, lifecycle.at = "restore",
                 lifecycle' = [lifecycle EXCEPT !.todo = @ \ {s}, !.next = s, !.kind = Effective(s),
                                                !.at = IF Owned(s) THEN "put" ELSE @]
          PROVE  lifecycle'.at \in {"put", "restore"}
      BY <3>2 DEF TypeOK, Lifecycles
    <3> QED
      BY <1>5, <3>1, <3>2 DEF Uncovered, Lifecycle
  <2>2. UNCHANGED <<handlers_installed, dispatcher, replaying>> /\ dispatcher.at = "none"
    BY <1>5 DEF Uncovered, Lifecycle, LiveInv
  <2> QED
    BY <2>1, <2>2 DEF LiveInv, RecordIsLive, Replay
<1>6. CASE PutBack
  BY <1>6 DEF PutBack, Step, Lifecycle, LiveInv, RecordIsLive, Replay, TypeOK, Lifecycles
<1>7. CASE Uninstall
  BY <1>7 DEF Uninstall, Step, Lifecycle, LiveInv, RecordIsLive, Replay, TypeOK, Lifecycles
<1>8. CASE Install
  BY <1>8 DEF Install, Step, Lifecycle, LiveInv, RecordIsLive, Replay, TypeOK, Lifecycles
<1>9. CASE InstallFailed
  BY <1>9 DEF InstallFailed, Lifecycle, LiveInv, RecordIsLive, Replay, Idle
<1>10. CASE Continue \/ Open \/ \E s \in Signals : Register(s)
  BY <1>10 DEF Continue, Open, Register, LiveInv, RecordIsLive, Replay
<1>11. ASSUME NEW t \in Threads, NEW s \in Signals, Deliver(t, s) PROVE LiveInv'
  <2>1. UNCHANGED <<handlers_installed, lifecycle, dispatcher>>
    BY <1>11 DEF Deliver
  <2>2. Takeover(t, s) \/ UNCHANGED replaying
    BY <1>11 DEF Deliver
  <2>3. RecordIsLive'
    BY <2>1, <2>2, TakeoverKeeps DEF Replay
  <2> QED
    BY <2>1, <2>3 DEF LiveInv
<1> QED
  BY <1>1, <1>2, <1>3, <1>4, <1>5, <1>6, <1>7, <1>8, <1>9, <1>10, <1>11 DEF OwnerStep

LEMMA LiveStep == TypeOK /\ LiveInv /\ [Next]_vars => LiveInv'
<1> SUFFICES ASSUME TypeOK, LiveInv, [Next]_vars PROVE LiveInv'
  OBVIOUS
<1>1. CASE Next
  BY <1>1, LiveWrapper, LiveDispatcher, LiveOther DEF Next
<1>2. CASE UNCHANGED vars
  BY <1>2 DEF vars, registry, records, LiveInv, RecordIsLive, Replay
<1> QED
  BY <1>1, <1>2

\* The pointer that the wrapper follows on the dispatcher never refers to a local
\* that another read has overwritten or whose thread has ended.
THEOREM ReplayedRecordIsLive == Spec => []RecordIsLive
<1>1. LiveInv => RecordIsLive
  BY DEF LiveInv
<1> QED
  BY <1>1, LiveInit, LiveStep, TypesHold, PTL DEF Spec

-----------------------------------------------------------------------------
(* One-shot handlers, while no installation or removal overlaps a handler.   *)
(* A run implies that the claim was made, and no managed signal is set to a  *)
(* one-shot action itself, so the system runs none.                          *)
NoLifecycle == Installed /\ Events \cap {"install", "uninstall"} = {}

OneShotInv ==
  /\ lifecycle.at = "idle"
  /\ \A s \in Signals : disposition[s] # "once"
  /\ \A s \in Signals : ran[s] = 0 \/ (ran[s] = 1 /\ s \in consumed)

LEMMA OneShotInit == ASSUME NoLifecycle PROVE Init => OneShotInv
  BY DEF NoLifecycle, Init, OneShotInv, Idle

\* A delivery by the system runs no one-shot handler.
LEMMA NativeRunsNone ==
  ASSUME OneShotInv, NEW s \in Signals, Native(s)
  PROVE  UNCHANGED <<disposition, ran>>
  BY DEF Native, OneShotInv

LEMMA OneShotWrapper ==
  ASSUME TypeOK, OneShotInv, NEW t \in Threads, WrapperStep(t) PROVE OneShotInv'
<1> USE DEF registry, records, world, history
<1>1. UNCHANGED lifecycle
  BY DEF WrapperStep, Write, Exchange, RearmInstalled, RearmCheck, RearmPut, Forward, Claim,
         SetDefault, MarkStopped, Raise
<1>2. CASE Claim(t)
  <2> DEFINE s == Top(t).sig
  <2>1. s \in Signals
    BY <1>2, FrameTypes DEF Claim, At
  <2>2. CASE s \in consumed
    BY <1>2, <2>2 DEF Claim, Claimed, OneShotInv
  <2>3. CASE s \notin consumed
    <3>1. ran' = [ran EXCEPT ![s] = @ + 1] /\ consumed' = consumed \cup {s}
      BY <1>2, <2>3 DEF Claim, Claimed
    <3>2. ran[s] = 0
      BY <2>1, <2>3 DEF OneShotInv
    <3> QED
      BY <1>2, <2>1, <3>1, <3>2 DEF Claim, OneShotInv, TypeOK
  <2> QED
    BY <2>2, <2>3
<1>3. CASE SetDefault(t) \/ RearmPut(t)
  BY <1>3 DEF SetDefault, RearmPut, OneShotInv, TypeOK
<1>4. CASE Raise(t)
  <2>1. Top(t).sig \in Signals
    BY <1>4, FrameTypes DEF Raise, At
  <2>2. UNCHANGED <<disposition, ran>>
    BY <1>4, <2>1, NativeRunsNone DEF Raise
  <2> QED
    BY <1>4, <2>2 DEF Raise, OneShotInv
<1>5. CASE \/ Write(t) \/ Exchange(t) \/ RearmInstalled(t) \/ RearmCheck(t) \/ Forward(t)
            \/ MarkStopped(t)
  BY <1>5 DEF Write, Exchange, RearmInstalled, RearmCheck, Forward, MarkStopped, OneShotInv
<1> QED
  BY <1>2, <1>3, <1>4, <1>5 DEF WrapperStep

LEMMA OneShotStep ==
  ASSUME NoLifecycle PROVE TypeOK /\ OneShotInv /\ [Next]_vars => OneShotInv'
<1> SUFFICES ASSUME TypeOK, OneShotInv, [Next]_vars PROVE OneShotInv'
  OBVIOUS
<1> USE DEF registry, records, world, history
<1>1. CASE \E t \in Threads : WrapperStep(t)
  BY <1>1, OneShotWrapper
<1>2. ASSUME NEW t \in Threads, NEW s \in Signals, Deliver(t, s) PROVE OneShotInv'
  BY <1>2, NativeRunsNone DEF Deliver, OneShotInv
<1>3. CASE DispatcherStep
  <2>1. CASE ReplayRaise
    <3>1. dispatcher.rec.sig \in Signals
      BY DEF TypeOK, Record
    <3> QED
      BY <2>1, <3>1, NativeRunsNone DEF ReplayRaise, OneShotInv
  <2> QED
    BY <1>3, <2>1 DEF DispatcherStep, Read, Exit, Replaying, Replayed, OneShotInv
<1>4. ~OwnerStep /\ ~Install /\ ~InstallFailed /\ ~Uninstall
  BY DEF OwnerStep, Create, Wrap, CloseWrite, Join, Uncovered, PutBack, Install, InstallFailed,
         Uninstall, Lifecycle, NoLifecycle, OneShotInv
<1>5. CASE Continue \/ Open \/ \E s \in Signals : Register(s)
  BY <1>5 DEF Continue, Open, Register, OneShotInv, TypeOK
<1>6. CASE UNCHANGED vars
  BY <1>6 DEF vars, OneShotInv
<1> QED
  BY <1>1, <1>2, <1>3, <1>4, <1>5, <1>6 DEF Next

\* A handler with SA_RESETHAND runs at most once, however many threads fault,
\* find the pipe full or replay at the same time.
THEOREM OneShotHolds == ASSUME NoLifecycle PROVE Spec => []OneShot
<1>1. OneShotInv => OneShot
  BY DEF OneShotInv, OneShot
<1> QED
  BY <1>1, OneShotInit, OneShotStep, TypesHold, PTL DEF Spec
-----------------------------------------------------------------------------
(* Stacks.  A step pushes a frame on one thread's stack, pops it, or puts    *)
(* another frame in its place; the frames below keep their contents.         *)
Replaced(t, f) == stack' = [stack EXCEPT ![t][1] = f]

\* A jump replaces the innermost frame.
LEMMA GotoReplaces ==
  ASSUME TypeOK, NEW t \in Threads, stack[t] # <<>>, NEW label, Goto(t, label)
  PROVE  Replaced(t, [Top(t) EXCEPT !.at = label])
<1>1. stack[t] \in Seq(Frames) /\ 1 \in DOMAIN stack[t]
  BY DEF TypeOK
<1>2. stack' = [stack EXCEPT ![t] = [stack[t] EXCEPT ![1] = [stack[t][1] EXCEPT !.at = label]]]
  BY <1>1 DEF Goto, TypeOK
<1> QED
  BY <1>1, <1>2 DEF Top, Replaced, TypeOK

\* So does an exchange, which takes the stopped signals.
LEMMA ExchangeReplaces ==
  ASSUME TypeOK, NEW t \in Threads, stack[t] # <<>>, Exchange(t)
  PROVE  Replaced(t, [Top(t) EXCEPT !.at = "installed", !.todo = stopped])
<1>1. stack[t] \in Seq(Frames) /\ 1 \in DOMAIN stack[t]
  BY DEF TypeOK
<1>2. stack' = [stack EXCEPT ![t] = [stack[t] EXCEPT ![1] =
                 [stack[t][1] EXCEPT !.at = "installed", !.todo = stopped]]]
  BY <1>1 DEF Exchange, TypeOK
<1> QED
  BY <1>1, <1>2 DEF Top, Replaced, TypeOK

\* What the three do to the threads' stacks.
LEMMA Pushed ==
  ASSUME TypeOK, NEW t \in Threads, NEW f \in Frames, Push(t, f)
  PROVE  /\ \A u \in Threads \ {t} : stack'[u] = stack[u]
         /\ Len(stack[t]) \in Nat /\ Len(stack'[t]) = Len(stack[t]) + 1
         /\ stack'[t][1] = f
         /\ \A i \in 1..Len(stack[t]) : stack'[t][i + 1] = stack[t][i]
         /\ \A i \in 2..Len(stack'[t]) : i - 1 \in 1..Len(stack[t]) /\ stack'[t][i] = stack[t][i - 1]
<1>1. stack[t] \in Seq(Frames) /\ stack \in [Threads -> Seq(Frames)]
  BY DEF TypeOK
<1>2. stack'[t] = <<f>> \o stack[t] /\ \A u \in Threads \ {t} : stack'[u] = stack[u]
  BY <1>1 DEF Push
<1>3. Len(stack[t]) \in Nat
  BY <1>1
<1>4. Len(<<f>> \o stack[t]) = Len(stack[t]) + 1
  BY <1>1
<1>5. (<<f>> \o stack[t])[1] = f
  BY <1>1
<1>6. \A i \in 1..Len(stack[t]) : (<<f>> \o stack[t])[i + 1] = stack[t][i]
  BY <1>1
<1>7. \A i \in 2..(Len(stack[t]) + 1) :
        i - 1 \in 1..Len(stack[t]) /\ (<<f>> \o stack[t])[i] = stack[t][i - 1]
  BY <1>1, <1>3
<1> QED
  BY <1>2, <1>3, <1>4, <1>5, <1>6, <1>7

\* A pop takes the innermost frame off and shifts the others.
LEMMA Popped ==
  ASSUME TypeOK, NEW t \in Threads, stack[t] # <<>>, Pop(t)
  PROVE  /\ \A u \in Threads \ {t} : stack'[u] = stack[u]
         /\ Len(stack[t]) \in Nat \ {0} /\ Len(stack'[t]) = Len(stack[t]) - 1
         /\ \A i \in 1..Len(stack'[t]) : stack'[t][i] = stack[t][i + 1]
<1>1. stack[t] \in Seq(Frames) /\ stack \in [Threads -> Seq(Frames)]
  BY DEF TypeOK
<1>2. stack'[t] = Tail(stack[t]) /\ \A u \in Threads \ {t} : stack'[u] = stack[u]
  BY <1>1 DEF Pop
<1>3. Len(stack[t]) \in Nat \ {0}
  BY <1>1
<1>4. Len(Tail(stack[t])) = Len(stack[t]) - 1
  BY <1>1
<1>5. \A i \in 1..(Len(stack[t]) - 1) : Tail(stack[t])[i] = stack[t][i + 1]
  BY <1>1
<1> QED
  BY <1>2, <1>3, <1>4, <1>5

\* A replacement changes the innermost frame alone.
LEMMA ReplacedTop ==
  ASSUME TypeOK, NEW t \in Threads, stack[t] # <<>>, NEW f, Replaced(t, f)
  PROVE  /\ \A u \in Threads \ {t} : stack'[u] = stack[u]
         /\ Len(stack[t]) \in Nat \ {0} /\ Len(stack'[t]) = Len(stack[t])
         /\ stack'[t][1] = f
         /\ \A i \in 2..Len(stack[t]) : stack'[t][i] = stack[t][i]
<1>1. stack[t] \in Seq(Frames) /\ stack \in [Threads -> Seq(Frames)] /\ 1 \in DOMAIN stack[t]
  BY DEF TypeOK
<1>2. stack'[t] = [stack[t] EXCEPT ![1] = f] /\ \A u \in Threads \ {t} : stack'[u] = stack[u]
  BY <1>1 DEF Replaced
<1>3. Len(stack[t]) \in Nat \ {0}
  BY <1>1
<1>4. Len([stack[t] EXCEPT ![1] = f]) = Len(stack[t])
  BY <1>1
<1> QED
  BY <1>1, <1>2, <1>3, <1>4

-----------------------------------------------------------------------------
(* Every delivery is performed once.  The invocations are counted by their    *)
(* places: a push adds the place above the stack, a pop takes the highest.    *)

\* A push adds one invocation.
LEMMA PushCounts ==
  ASSUME TypeOK, IsFiniteSet(Invocations), NEW t \in Threads, NEW f \in Frames, Push(t, f)
  PROVE  IsFiniteSet(Invocations)' /\ Cardinality(Invocations)' = Cardinality(Invocations) + 1
<1> DEFINE new == <<t, Len(stack[t]) + 1>>
<1>1. new \notin Invocations
  BY Pushed DEF Invocations
<1>2. Invocations' = Invocations \cup {new}
  BY Pushed DEF Invocations
<1> QED
  BY <1>1, <1>2, FS_AddElement

\* A pop takes one away.
LEMMA PopCounts ==
  ASSUME TypeOK, IsFiniteSet(Invocations), NEW t \in Threads, stack[t] # <<>>, Pop(t)
  PROVE  IsFiniteSet(Invocations)' /\ Cardinality(Invocations)' = Cardinality(Invocations) - 1
<1> DEFINE old == <<t, Len(stack[t])>>
<1>1. old \in Invocations
  BY Popped DEF Invocations
<1>2. Invocations' = Invocations \ {old}
  BY Popped DEF Invocations
<1> QED
  BY <1>1, <1>2, FS_RemoveElement

\* A replacement neither adds nor ends an invocation.
LEMMA ReplaceCounts ==
  ASSUME TypeOK, NEW t \in Threads, stack[t] # <<>>, NEW f, Replaced(t, f)
  PROVE  UNCHANGED Invocations
<1>1. \A u \in Threads : Len(stack'[u]) = Len(stack[u])
  BY ReplacedTop
<1> QED
  BY <1>1 DEF Invocations

\* Performing a disposition settles the invocation, or goes on with it.
LEMMA PerformAccounts ==
  ASSUME TypeOK, NEW t \in Threads, stack[t] # <<>>, NEW kind, Perform(t, kind)
  PROVE  \/ Pop(t) /\ settled' = settled + 1
         \/ (\E f : Replaced(t, f)) /\ settled' = settled
<1>1. CASE kind = "wrapper"
  BY <1>1 DEF Perform, Replaced
<1>2. CASE kind # "wrapper" /\ IsHandler(kind)
  BY <1>2 DEF Perform, IsHandler, Settled
<1>3. CASE kind = "ignore" \/ (kind = "default" /\ Top(t).sig = Cont)
  BY <1>3 DEF Perform, IsHandler, Settled
<1>4. CASE kind = "default" /\ Top(t).sig # Cont
  <2>1. Goto(t, "default") /\ UNCHANGED settled
    BY <1>4 DEF Perform, IsHandler
  <2> QED
    BY <2>1, GotoReplaces
<1> QED
  BY <1>1, <1>2, <1>3, <1>4 DEF IsHandler

\* A handler's step settles its invocation, writes its record or goes on with it;
\* the record is lost in another thread's file.
Settles(t) == Pop(t) /\ settled' = settled + 1 /\ pipe' = pipe
Writes(t)  == Pop(t) /\ settled' = settled /\ descriptor = "pipe" /\ \E r : pipe' = Append(pipe, r)
Loses(t)   == Pop(t) /\ settled' = settled /\ descriptor = "file"
GoesOn(t)  == (\E f : Replaced(t, f)) /\ settled' = settled /\ pipe' = pipe

\* Every step of a handler is one of the four.
LEMMA WrapperAccounts ==
  ASSUME TypeOK, NEW t \in Threads, WrapperStep(t)
  PROVE  /\ stack[t] # <<>>
         /\ UNCHANGED <<arrived, dispatcher, descriptor, lifecycle, handlers_installed>>
         /\ Settles(t) \/ Writes(t) \/ Loses(t) \/ GoesOn(t)
<1> USE DEF registry, records, world, history
<1>1. stack[t] # <<>>
  BY DEF WrapperStep, Write, Exchange, RearmInstalled, RearmCheck, RearmPut, Forward, Claim,
         SetDefault, MarkStopped, Raise, At
<1>2. UNCHANGED <<arrived, dispatcher, descriptor, lifecycle, handlers_installed>>
  BY DEF WrapperStep, Write, Exchange, RearmInstalled, RearmCheck, RearmPut, Forward, Claim,
         SetDefault, MarkStopped, Raise
<1>3. Settles(t) \/ Writes(t) \/ Loses(t) \/ GoesOn(t)
  <2>1. ASSUME NEW label, Goto(t, label), settled' = settled, pipe' = pipe PROVE GoesOn(t)
    <3>1. Replaced(t, [Top(t) EXCEPT !.at = label])
      BY <1>1, <2>1, GotoReplaces
    <3> QED
      BY <2>1, <3>1 DEF GoesOn
  <2>2. CASE Write(t)
    <3>1. settled' = settled
      BY <2>2 DEF Write
    <3>2. CASE /\ descriptor = "pipe" /\ Pop(t)
               /\ pipe' = Append(pipe, [sig |-> Top(t).sig, info |-> Top(t).info])
      BY <3>1, <3>2 DEF Writes
    <3>3. CASE Goto(t, "forward") /\ pipe' = pipe
      BY <2>1, <3>1, <3>3
    <3>4. CASE descriptor = "file" /\ Pop(t)
      BY <3>1, <3>4 DEF Loses
    <3> QED
      BY <2>2, <3>2, <3>3, <3>4 DEF Write
  <2>3. CASE Exchange(t)
    <3>1. Replaced(t, [Top(t) EXCEPT !.at = "installed", !.todo = stopped])
      BY <1>1, <2>3, ExchangeReplaces
    <3> QED
      BY <2>3, <3>1 DEF Exchange, GoesOn
  <2>4. CASE RearmCheck(t)
    <3>1. settled' = settled /\ pipe' = pipe
      BY <2>4 DEF RearmCheck
    <3>2. CASE Goto(t, "forward")
      BY <2>1, <3>1, <3>2
    <3>3. CASE \E s \in Top(t).todo : stack' = [stack EXCEPT ![t][1] = Checked(Top(t), s)]
      BY <3>1, <3>3 DEF GoesOn, Replaced
    <3> QED
      BY <2>4, <3>2, <3>3 DEF RearmCheck
  <2>5. CASE RearmInstalled(t) \/ RearmPut(t) \/ SetDefault(t) \/ MarkStopped(t)
    <3>1. settled' = settled /\ pipe' = pipe
      BY <2>5 DEF RearmInstalled, RearmPut, SetDefault, MarkStopped
    <3>2. \E label : Goto(t, label)
      BY <2>5 DEF RearmInstalled, RearmPut, SetDefault, MarkStopped
    <3> QED
      BY <2>1, <3>1, <3>2
  <2>6. CASE Forward(t)
    <3>1. pipe' = pipe
      BY <2>6 DEF Forward
    <3>2. CASE Effective(Top(t).sig) = "once"
      <4>1. Goto(t, "claim") /\ settled' = settled
        BY <2>6, <3>2 DEF Forward
      <4> QED
        BY <2>1, <3>1, <4>1
    <3>3. CASE Effective(Top(t).sig) # "once"
      <4>1. Perform(t, Effective(Top(t).sig))
        BY <2>6, <3>3 DEF Forward
      <4> QED
        BY <1>1, <3>1, <4>1, PerformAccounts DEF Settles, GoesOn
    <3> QED
      BY <3>2, <3>3
  <2>7. CASE Claim(t)
    <3>1. pipe' = pipe
      BY <2>7 DEF Claim
    <3>2. Perform(t, "default") \/ Perform(t, "once")
      BY <2>7 DEF Claim
    <3> QED
      BY <1>1, <3>1, <3>2, PerformAccounts DEF Settles, GoesOn
  <2>8. CASE Raise(t)
    <3>1. pipe' = pipe
      BY <2>8 DEF Raise
    <3>2. CASE disposition[Top(t).sig] = "wrapper"
      <4>1. Replaced(t, Invocation(t, Top(t).sig, 0)) /\ settled' = settled
        BY <2>8, <3>2 DEF Raise, Replaced
      <4> QED
        BY <3>1, <4>1 DEF GoesOn
    <3>3. CASE disposition[Top(t).sig] # "wrapper"
      BY <2>8, <3>1, <3>3 DEF Raise, Native, Settled, Settles
    <3> QED
      BY <3>2, <3>3
  <2> QED
    BY <2>2, <2>3, <2>4, <2>5, <2>6, <2>7, <2>8 DEF WrapperStep
<1> QED
  BY <1>1, <1>2, <1>3

\* No file of another thread gets the descriptor that a removal closed, and no
\* installation fails after its pipe was made.
NoStrays == Events \cap {"open", "fail"} = {}

\* Records are in the pipe only while a dispatcher will read them: the write end
\* is closed before the last one drains the pipe and ends.
PipeInv ==
  /\ descriptor # "file"
  /\ dispatcher.at \in {"none", "done"} /\ descriptor # "pipe" => pipe = <<>>
  /\ dispatcher.at = "done" => descriptor # "pipe"
  /\ \/ lifecycle.at \in {"wrap", "uninstall", "close", "join"}
     \/ lifecycle.at = "idle" /\ handlers_installed
     => dispatcher.at # "none"
  /\ \/ lifecycle.at \in {"restore", "put"}
     \/ lifecycle.at = "idle" /\ ~handlers_installed
     => descriptor # "pipe"
  /\ lifecycle.at \in {"create", "close", "join", "restore", "put"} => ~handlers_installed

CountInv == IsFiniteSet(Invocations) /\ arrived = settled + InFlight
PerformedInv == PipeInv /\ CountInv

\* At the start nothing has arrived and nothing is in flight.
LEMMA PerformedInit == Init => PerformedInv
<1> SUFFICES ASSUME Init PROVE PerformedInv
  OBVIOUS
<1>1. Invocations = {}
  BY DEF Init, Invocations
<1>2. CountInv
  BY <1>1, FS_EmptySet DEF Init, CountInv, InFlight, Holds
<1>3. PipeInv
  BY DEF Init, PipeInv, Idle
<1> QED
  BY <1>2, <1>3 DEF PerformedInv

\* The numbers that are added up.
LEMMA CountTypes ==
  ASSUME TypeOK, CountInv
  PROVE  Cardinality(Invocations) \in Nat /\ Len(pipe) \in Nat /\ settled \in Nat /\ arrived \in Nat
  BY FS_CardinalityType DEF TypeOK, CountInv

\* A handler's step moves a delivery from its stack to the pipe or settles it.
LEMMA PerformedWrapper ==
  ASSUME TypeOK, PerformedInv, NEW t \in Threads, WrapperStep(t)
  PROVE  PerformedInv'
<1> USE CountTypes, WrapperAccounts DEF PerformedInv
<1>0. /\ stack[t] # <<>> /\ IsFiniteSet(Invocations) /\ pipe \in Seq(Record)
      /\ UNCHANGED <<arrived, dispatcher, descriptor, lifecycle, handlers_installed>>
      /\ Holds' = Holds
  BY DEF CountInv, TypeOK, Holds
<1>1. CASE Settles(t)
  <2>1. CountInv'
    BY <1>0, <1>1, PopCounts DEF Settles, CountInv, InFlight
  <2> QED
    BY <1>0, <1>1, <2>1 DEF Settles, PipeInv
<1>2. CASE Writes(t)
  <2>1. PICK r : pipe' = Append(pipe, r)
    BY <1>2 DEF Writes
  <2>2. Len(pipe') = Len(pipe) + 1
    BY <1>0, <2>1
  <2>3. CountInv'
    BY <1>0, <1>2, <2>2, PopCounts DEF Writes, CountInv, InFlight
  <2> QED
    BY <1>0, <1>2, <2>3 DEF Writes, PipeInv
<1>3. CASE GoesOn(t)
  <2>1. UNCHANGED Invocations
    BY <1>0, <1>3, ReplaceCounts DEF GoesOn
  <2>2. CountInv'
    BY <1>0, <1>3, <2>1 DEF GoesOn, CountInv, InFlight
  <2> QED
    BY <1>0, <1>3, <2>2 DEF GoesOn, PipeInv
<1>4. ~Loses(t)
  BY DEF Loses, PipeInv
<1> QED
  BY <1>1, <1>2, <1>3, <1>4

\* The dispatcher moves one from the pipe to its own stack or replays it.
LEMMA PerformedDispatcher ==
  ASSUME TypeOK, PerformedInv, DispatcherStep
  PROVE  PerformedInv'
<1> USE CountTypes DEF PerformedInv, registry, records, world, history
<1>0. /\ Dispatcher \in Threads /\ IsFiniteSet(Invocations) /\ pipe \in Seq(Record)
      /\ dispatcher.rec.sig \in Signals /\ dispatcher.rec.info \in Nat /\ Cont \in Signals
  BY DEF Threads, CountInv, TypeOK, Record, Signals
<1>1. CASE Read
  <2>1. Len(pipe') = Len(pipe) - 1 /\ Holds' /\ ~Holds
    BY <1>0, <1>1 DEF Read, Dispatching, Holds
  <2>2. UNCHANGED Invocations
    BY <1>1 DEF Read, Invocations
  <2>3. CountInv'
    BY <1>1, <2>1, <2>2 DEF Read, CountInv, InFlight
  <2> QED
    BY <1>1, <2>3 DEF Read, PipeInv
<1>2. CASE Exit
  <2>1. ~Holds /\ ~Holds' /\ dispatcher'.at = "done"
    BY <1>2 DEF Exit, Dispatching, Dispatch, Holds, TypeOK
  <2>2. UNCHANGED Invocations
    BY <1>2 DEF Exit, Invocations
  <2>3. CountInv'
    BY <1>2, <2>1, <2>2 DEF Exit, CountInv, InFlight
  <2> QED
    BY <1>2, <2>1, <2>3 DEF Exit, Drained, PipeInv
<1>3. CASE Replaying
  <2>1. CASE IsHandler(Effective(dispatcher.rec.sig))
    <3>1. Holds /\ Holds' /\ dispatcher'.at = "replay"
      BY <1>3, <2>1 DEF Replaying, Dispatching, Dispatch, Holds, TypeOK
    <3>2. UNCHANGED Invocations
      BY <1>3, <2>1 DEF Replaying, Invocations
    <3>3. CountInv'
      BY <1>3, <3>1, <3>2 DEF Replaying, CountInv, InFlight
    <3> QED
      BY <1>3, <3>1, <3>3 DEF Replaying, PipeInv
  <2>2. CASE ~IsHandler(Effective(dispatcher.rec.sig))
    <3>1. Holds /\ ~Holds' /\ dispatcher'.at = "read"
      BY <1>3, <2>2 DEF Replaying, Dispatching, Dispatch, Holds, TypeOK
    <3>2. Frame(dispatcher.rec.sig, dispatcher.rec.info, "forward") \in Frames
      BY <1>0 DEF Frame, Frames, Labels
    <3>3. Cardinality(Invocations)' = Cardinality(Invocations) + 1 /\ IsFiniteSet(Invocations)'
      BY <1>0, <1>3, <2>2, <3>2, PushCounts DEF Replaying
    <3>4. CountInv'
      BY <1>3, <3>1, <3>3 DEF Replaying, CountInv, InFlight
    <3> QED
      BY <1>3, <3>1, <3>4 DEF Replaying, PipeInv
  <2> QED
    BY <2>1, <2>2
<1>4. CASE ReplayRaise
  <2>1. Holds /\ ~Holds' /\ dispatcher'.at = "replayed"
    BY <1>4 DEF ReplayRaise, Dispatching, Dispatch, Holds, TypeOK
  <2>2. CountInv'
    <3>1. CASE disposition[dispatcher.rec.sig] = "wrapper"
      <4>1. Invocation(Dispatcher, dispatcher.rec.sig, 0) \in Frames
        BY <1>0, InvocationType
      <4>2. /\ Cardinality(Invocations)' = Cardinality(Invocations) + 1
            /\ IsFiniteSet(Invocations)'
        BY <1>0, <1>4, <3>1, <4>1, PushCounts DEF ReplayRaise
      <4> QED
        BY <1>4, <2>1, <3>1, <4>2 DEF ReplayRaise, CountInv, InFlight
    <3>2. CASE disposition[dispatcher.rec.sig] # "wrapper"
      <4>1. UNCHANGED Invocations /\ settled' = settled + 1
        BY <1>4, <3>2 DEF ReplayRaise, Native, Settled, Invocations
      <4> QED
        BY <1>4, <2>1, <4>1 DEF ReplayRaise, CountInv, InFlight
    <3> QED
      BY <3>1, <3>2
  <2> QED
    BY <1>4, <2>1, <2>2 DEF ReplayRaise, PipeInv
<1>5. CASE Replayed
  <2>1. ~Holds /\ ~Holds' /\ dispatcher'.at = "read"
    BY <1>5 DEF Replayed, Dispatching, Dispatch, Holds, TypeOK
  <2>2. UNCHANGED Invocations
    BY <1>5 DEF Replayed, Invocations
  <2>3. CountInv'
    BY <1>5, <2>1, <2>2 DEF Replayed, CountInv, InFlight
  <2> QED
    BY <1>5, <2>1, <2>3 DEF Replayed, PipeInv
<1> QED
  BY <1>1, <1>2, <1>3, <1>4, <1>5 DEF DispatcherStep

\* Deliveries: the wrapper's invocation, or the system's own action.
LEMMA PerformedDeliver ==
  ASSUME TypeOK, PerformedInv, NEW t \in Threads, NEW s \in Signals, Deliver(t, s)
  PROVE  PerformedInv'
<1> USE CountTypes DEF PerformedInv, registry
<1>1. /\ UNCHANGED <<pipe, descriptor, dispatcher, lifecycle, handlers_installed, Holds>>
      /\ arrived' = arrived + 1
  BY DEF Deliver, Holds
<1>2. CountInv'
  <2>1. CASE disposition[s] = "wrapper"
    <3>1. Invocation(t, s, arrived + 1) \in Frames
      BY InvocationType
    <3>2. Cardinality(Invocations)' = Cardinality(Invocations) + 1 /\ IsFiniteSet(Invocations)'
      BY <2>1, <3>1, PushCounts DEF Deliver, CountInv
    <3>3. settled' = settled
      BY <2>1 DEF Deliver
    <3> QED
      BY <1>1, <3>2, <3>3 DEF CountInv, InFlight
  <2>2. CASE disposition[s] # "wrapper"
    <3>1. UNCHANGED Invocations /\ settled' = settled + 1
      BY <2>2 DEF Deliver, Native, Settled, Invocations
    <3> QED
      BY <1>1, <3>1 DEF CountInv, InFlight
  <2> QED
    BY <2>1, <2>2
<1> QED
  BY <1>1, <1>2 DEF PipeInv

\* The owner's steps move no record and perform nothing; the pipe is made and
\* thrown away empty.
LEMMA PerformedOwner ==
  ASSUME TypeOK, LiveInv, PerformedInv, OwnerStep \/ Install \/ Uninstall
  PROVE  PerformedInv'
<1> USE DEF PerformedInv, registry, records, world, history
<1>1. /\ UNCHANGED <<arrived, settled, stack>>
  BY DEF OwnerStep, Create, Wrap, CloseWrite, Join, Uncovered, PutBack, Uninstall, Install
<1>2. UNCHANGED Invocations
  BY <1>1 DEF Invocations
<1>3. ASSUME UNCHANGED <<pipe, Holds>> PROVE CountInv'
  BY <1>1, <1>2, <1>3 DEF CountInv, InFlight
<1>4. CASE Create
  <2>1. dispatcher'.at = "read" /\ dispatcher.at = "none"
    BY <1>4 DEF Create, Lifecycle, LiveInv
  <2>2. UNCHANGED <<pipe, descriptor, Holds>> /\ handlers_installed' /\ lifecycle'.at = "wrap"
    BY <1>4, <2>1 DEF Create, Holds, TypeOK, Lifecycles
  <2> QED
    BY <1>3, <2>1, <2>2 DEF PipeInv
<1>5. CASE Wrap
  <2>1. lifecycle'.at \in {"idle", "wrap", "uninstall"} /\ lifecycle.at = "wrap"
    BY <1>5 DEF Wrap, Lifecycle, Idle, TypeOK, Lifecycles
  <2>2. UNCHANGED <<pipe, descriptor, dispatcher, handlers_installed, Holds>> /\ handlers_installed
    BY <1>5 DEF Wrap, Lifecycle, LiveInv, Holds
  <2> QED
    BY <1>3, <2>1, <2>2 DEF PipeInv
<1>6. CASE CloseWrite
  <2>1. lifecycle'.at = "join" /\ lifecycle.at = "close" /\ descriptor' = "closed"
    BY <1>6 DEF CloseWrite, Lifecycle, Step, TypeOK, Lifecycles
  <2>2. UNCHANGED <<pipe, dispatcher, handlers_installed, Holds>>
    BY <1>6 DEF CloseWrite, Holds
  <2> QED
    BY <1>3, <2>1, <2>2 DEF PipeInv
<1>7. CASE Join
  <2>1. dispatcher.at = "done" /\ dispatcher'.at = "none" /\ lifecycle.at = "join"
    BY <1>7 DEF Join, Lifecycle
  <2>2. lifecycle'.at = "restore" /\ UNCHANGED <<descriptor, handlers_installed>>
    BY <1>7 DEF Join, TypeOK, Lifecycles
  <2>3. pipe = <<>> /\ pipe' = <<>>
    BY <1>7, <2>1 DEF Join, PipeInv
  <2>4. UNCHANGED Holds
    BY <2>1 DEF Holds
  <2> QED
    BY <1>3, <2>1, <2>2, <2>3, <2>4 DEF PipeInv
<1>8. CASE Uncovered
  <2>1. lifecycle.at = "restore" /\ dispatcher.at = "none" /\ descriptor # "pipe"
        /\ ~handlers_installed
    BY <1>8 DEF Uncovered, Lifecycle, LiveInv, PipeInv
  <2>2. UNCHANGED <<pipe, dispatcher, handlers_installed, Holds>> /\ descriptor' # "pipe"
        /\ descriptor' # "file"
    BY <1>8, <2>1 DEF Uncovered, Holds, PipeInv
  <2>3. lifecycle'.at \in {"idle", "put", "restore"}
    <3>1. CASE lifecycle' = Idle
      BY <3>1 DEF Idle
    <3>2. ASSUME NEW s, lifecycle' = [lifecycle EXCEPT !.todo = @ \ {s}, !.next = s,
                                        !.kind = Effective(s),
                                        !.at = IF Owned(s) THEN "put" ELSE @]
          PROVE  lifecycle'.at \in {"put", "restore"}
      BY <2>1, <3>2 DEF TypeOK, Lifecycles
    <3> QED
      BY <1>8, <3>1, <3>2 DEF Uncovered
  <2> QED
    BY <1>3, <2>1, <2>2, <2>3 DEF PipeInv
<1>9. CASE PutBack
  <2>1. lifecycle'.at = "restore" /\ lifecycle.at = "put"
    BY <1>9 DEF PutBack, Lifecycle, Step, TypeOK, Lifecycles
  <2>2. UNCHANGED <<pipe, descriptor, dispatcher, handlers_installed, Holds>>
    BY <1>9 DEF PutBack, Holds
  <2> QED
    BY <1>3, <2>1, <2>2 DEF PipeInv
<1>10. CASE Uninstall
  <2>1. lifecycle'.at = "close" /\ ~handlers_installed'
    BY <1>10 DEF Uninstall, Step, Lifecycle, TypeOK, Lifecycles
  <2>2. dispatcher.at # "none" /\ UNCHANGED <<pipe, descriptor, dispatcher, Holds>>
    BY <1>10 DEF Uninstall, Lifecycle, PipeInv, Holds
  <2> QED
    BY <1>3, <2>1, <2>2 DEF PipeInv
<1>11. CASE Install
  <2>1. lifecycle'.at = "create" /\ dispatcher.at = "none" /\ descriptor # "pipe"
    BY <1>11 DEF Install, Step, Lifecycle, TypeOK, Lifecycles, LiveInv, PipeInv
  <2>2. pipe = <<>> /\ pipe' = <<>> /\ descriptor' = "pipe"
    BY <1>11, <2>1 DEF Install, PipeInv
  <2>3. UNCHANGED <<dispatcher, handlers_installed, Holds>> /\ ~handlers_installed
    BY <1>11 DEF Install, Holds
  <2> QED
    BY <1>3, <2>1, <2>2, <2>3 DEF PipeInv
<1> QED
  BY <1>4, <1>5, <1>6, <1>7, <1>8, <1>9, <1>10, <1>11 DEF OwnerStep

\* The account is kept by every step.
LEMMA PerformedStep ==
  ASSUME NoStrays PROVE TypeOK /\ LiveInv /\ PerformedInv /\ [Next]_vars => PerformedInv'
<1> SUFFICES ASSUME TypeOK, LiveInv, PerformedInv, [Next]_vars PROVE PerformedInv'
  OBVIOUS
<1>1. ~InstallFailed /\ ~Open
  BY DEF InstallFailed, Open, NoStrays
<1>2. CASE Continue \/ \E s \in Signals : Register(s)
  <2>1. UNCHANGED <<pipe, descriptor, dispatcher, handlers_installed, lifecycle, stack, arrived,
                    settled>>
    BY <1>2 DEF Continue, Register, registry, records, world, history
  <2>2. UNCHANGED <<Invocations, Holds>>
    BY <2>1 DEF Invocations, Holds
  <2> QED
    BY <2>1, <2>2 DEF PerformedInv, PipeInv, CountInv, InFlight
<1>3. CASE UNCHANGED vars
  <2>1. UNCHANGED <<pipe, descriptor, dispatcher, handlers_installed, lifecycle, stack, arrived,
                    settled>>
    BY <1>3 DEF vars, registry, records, world, history
  <2>2. UNCHANGED <<Invocations, Holds>>
    BY <2>1 DEF Invocations, Holds
  <2> QED
    BY <2>1, <2>2 DEF PerformedInv, PipeInv, CountInv, InFlight
<1> QED
  BY <1>1, <1>2, <1>3, PerformedWrapper, PerformedDispatcher, PerformedDeliver, PerformedOwner
     DEF Next

\* No delivery is lost and none is performed twice, on any number of threads and
\* through any number of installations and removals, while the number of a pipe
\* that was closed is not given to another thread's file.
THEOREM PerformedTheorem == ASSUME NoStrays PROVE Spec => []PerformedOnce
<1>1. PerformedInv => PerformedOnce
  BY DEF PerformedInv, CountInv, PerformedOnce
<1>2. TypeOK /\ LiveInv /\ PerformedInv /\ [Next]_vars => PerformedInv'
  BY PerformedStep
<1> QED
  BY <1>1, <1>2, PerformedInit, LiveInit, LiveStep, TypesHold, PTL DEF Spec

-----------------------------------------------------------------------------
(* Signal information.  A number other than 0 is in one place at most: on a   *)
(* stack, in the pipe, or held by the dispatcher (in the record it took, then *)
(* behind replaying_signal); once it was heard it is in none.                 *)
OnStack(i) == \E t \in Threads : \E k \in 1..Len(stack[t]) : stack[t][k].info = i
InPipe(i)  == \E k \in 1..Len(pipe) : pipe[k].info = i
Held(i)    == (dispatcher.at = "taken" /\ dispatcher.rec.info = i) \/ replaying.info = i

StacksDiffer ==
  \A t, u \in Threads : \A k \in 1..Len(stack[t]), m \in 1..Len(stack[u]) :
    stack[t][k].info # 0 /\ stack[t][k].info = stack[u][m].info => t = u /\ k = m
PipeDiffers ==
  \A k, m \in 1..Len(pipe) : pipe[k].info # 0 /\ pipe[k].info = pipe[m].info => k = m

OnePlace(i) == ~(OnStack(i) /\ InPipe(i)) /\ ~(OnStack(i) /\ Held(i)) /\ ~(InPipe(i) /\ Held(i))
Unheard(i)  == i <= arrived /\ (i \in DOMAIN heard => heard[i] = 0)
HeardOnce(i) == i \in DOMAIN heard /\ heard[i] # 0 => i <= arrived /\ heard[i] = 1
Followed(i) == OnePlace(i) /\ HeardOnce(i) /\ (OnStack(i) \/ InPipe(i) \/ Held(i) => Unheard(i))

Infos   == Nat \ {0}
InfoInv == StacksDiffer /\ PipeDiffers /\ \A i \in Infos : Followed(i)

\* At the start no number is anywhere.
LEMMA InfoInit == Init => InfoInv
<1> SUFFICES ASSUME Init PROVE InfoInv
  OBVIOUS
<1>1. \A t \in Threads : 1..Len(stack[t]) = {}
  BY DEF Init
<1>2. 1..Len(pipe) = {}
  BY DEF Init
<1>3. \A i \in Infos : ~OnStack(i) /\ ~InPipe(i) /\ ~Held(i)
  BY <1>1, <1>2 DEF OnStack, InPipe, Held, Init, NoRecord, Infos
<1>4. \A i \in Infos : HeardOnce(i)
  BY DEF HeardOnce, Init
<1> QED
  BY <1>1, <1>2, <1>3, <1>4 DEF InfoInv, StacksDiffer, PipeDiffers, Followed, OnePlace

\* What a step on a stack does to the numbers there.
LEMMA PushInfos ==
  ASSUME TypeOK, StacksDiffer, NEW t \in Threads, NEW f \in Frames, Push(t, f),
         f.info = 0 \/ ~OnStack(f.info)
  PROVE  StacksDiffer' /\ \A i : OnStack(i)' => OnStack(i) \/ i = f.info
<1>1. ASSUME NEW u \in Threads, NEW k \in 1..Len(stack'[u])
      PROVE  \/ u = t /\ k = 1 /\ stack'[u][k] = f
             \/ /\ u # t /\ k \in 1..Len(stack[u]) /\ stack'[u][k] = stack[u][k]
             \/ /\ u = t /\ k # 1 /\ k - 1 \in 1..Len(stack[u]) /\ stack'[u][k] = stack[u][k - 1]
  <2>1. CASE u # t
    BY <2>1, Pushed
  <2>2. CASE u = t /\ k = 1
    BY <2>2, Pushed
  <2>3. CASE u = t /\ k # 1
    <3>1. Len(stack[t]) \in Nat /\ Len(stack'[t]) = Len(stack[t]) + 1 /\ k \in 2..Len(stack'[t])
      BY <2>3, Pushed
    <3> QED
      BY <2>3, <3>1, Pushed
  <2> QED
    BY <2>1, <2>2, <2>3
<1>2. StacksDiffer'
  <2> SUFFICES ASSUME NEW u \in Threads, NEW v \in Threads,
                      NEW k \in 1..Len(stack'[u]), NEW m \in 1..Len(stack'[v]),
                      stack'[u][k].info # 0, stack'[u][k].info = stack'[v][m].info
               PROVE  u = v /\ k = m
    BY DEF StacksDiffer
  <2>1. k \in Int /\ m \in Int
    BY Pushed
  <2>2. \/ u = t /\ k = 1 /\ stack'[u][k] = f
        \/ u # t /\ k \in 1..Len(stack[u]) /\ stack'[u][k] = stack[u][k]
        \/ u = t /\ k # 1 /\ k - 1 \in 1..Len(stack[u]) /\ stack'[u][k] = stack[u][k - 1]
    BY <1>1
  <2>3. \/ v = t /\ m = 1 /\ stack'[v][m] = f
        \/ v # t /\ m \in 1..Len(stack[v]) /\ stack'[v][m] = stack[v][m]
        \/ v = t /\ m # 1 /\ m - 1 \in 1..Len(stack[v]) /\ stack'[v][m] = stack[v][m - 1]
    BY <1>1
  <2>4. CASE u = t /\ k = 1
    BY <2>1, <2>2, <2>3, <2>4 DEF OnStack
  <2>5. CASE v = t /\ m = 1
    BY <2>1, <2>2, <2>3, <2>5 DEF OnStack
  <2>6. CASE ~(u = t /\ k = 1) /\ ~(v = t /\ m = 1)
    <3> DEFINE a == IF u = t THEN k - 1 ELSE k
               b == IF v = t THEN m - 1 ELSE m
    <3>1. a \in 1..Len(stack[u]) /\ stack'[u][k] = stack[u][a]
      BY <2>2, <2>6
    <3>2. b \in 1..Len(stack[v]) /\ stack'[v][m] = stack[v][b]
      BY <2>3, <2>6
    <3>3. u = v /\ a = b
      <4> HIDE DEF a, b
      <4> QED
        BY <3>1, <3>2 DEF StacksDiffer
    <3> QED
      BY <2>1, <3>3
  <2> QED
    BY <2>4, <2>5, <2>6
<1>3. ASSUME NEW i, OnStack(i)' PROVE OnStack(i) \/ i = f.info
  BY <1>1, <1>3 DEF OnStack
<1> QED
  BY <1>2, <1>3

\* A pop takes its number off the stacks.
LEMMA PopInfos ==
  ASSUME TypeOK, StacksDiffer, NEW t \in Threads, stack[t] # <<>>, Pop(t)
  PROVE  StacksDiffer' /\ \A i : OnStack(i)' => OnStack(i) /\ (i # 0 => i # Top(t).info)
<1>1. ASSUME NEW u \in Threads, NEW k \in 1..Len(stack'[u])
      PROVE  \/ /\ u # t /\ k \in 1..Len(stack[u]) /\ stack'[u][k] = stack[u][k]
             \/ /\ u = t /\ k + 1 \in 2..Len(stack[u]) /\ stack'[u][k] = stack[u][k + 1]
  BY Popped
<1>2. 1 \in 1..Len(stack[t])
  BY Popped
<1>3. StacksDiffer'
  <2> SUFFICES ASSUME NEW u \in Threads, NEW v \in Threads,
                      NEW k \in 1..Len(stack'[u]), NEW m \in 1..Len(stack'[v]),
                      stack'[u][k].info # 0, stack'[u][k].info = stack'[v][m].info
               PROVE  u = v /\ k = m
    BY DEF StacksDiffer
  <2>1. \/ u # t /\ k \in 1..Len(stack[u]) /\ stack'[u][k] = stack[u][k]
        \/ u = t /\ k + 1 \in 2..Len(stack[u]) /\ stack'[u][k] = stack[u][k + 1]
    BY <1>1
  <2>2. \/ v # t /\ m \in 1..Len(stack[v]) /\ stack'[v][m] = stack[v][m]
        \/ v = t /\ m + 1 \in 2..Len(stack[v]) /\ stack'[v][m] = stack[v][m + 1]
    BY <1>1
  <2>3. Len(stack[u]) \in Nat /\ Len(stack[v]) \in Nat /\ k \in Int /\ m \in Int
    BY DEF TypeOK
  <2> DEFINE a == IF u = t THEN k + 1 ELSE k
             b == IF v = t THEN m + 1 ELSE m
  <2>4. a \in 1..Len(stack[u]) /\ stack'[u][k] = stack[u][a]
    BY <2>1, <2>3
  <2>5. b \in 1..Len(stack[v]) /\ stack'[v][m] = stack[v][b]
    BY <2>2, <2>3
  <2>6. u = v /\ a = b
    <3> HIDE DEF a, b
    <3> QED
      BY <2>4, <2>5 DEF StacksDiffer
  <2> QED
    BY <2>3, <2>6
<1>4. ASSUME NEW i, OnStack(i)' PROVE OnStack(i) /\ (i # 0 => i # Top(t).info)
  <2>0. PICK u \in Threads : \E k \in 1..Len(stack'[u]) : stack'[u][k].info = i
    BY <1>4 DEF OnStack
  <2>1. PICK k \in 1..Len(stack'[u]) : stack'[u][k].info = i
    BY <2>0
  <2>2. OnStack(i)
    BY <1>1, <2>1 DEF OnStack
  <2>3. ASSUME i # 0, i = stack[t][1].info PROVE FALSE
    BY <1>1, <1>2, <2>1, <2>3 DEF StacksDiffer
  <2> QED
    BY <2>2, <2>3 DEF Top
<1> QED
  BY <1>3, <1>4

\* A replacement takes one number off and may bring another.
LEMMA ReplaceInfos ==
  ASSUME TypeOK, StacksDiffer, NEW t \in Threads, stack[t] # <<>>, NEW f, Replaced(t, f),
         f.info = 0 \/ f.info = Top(t).info \/ ~OnStack(f.info)
  PROVE  StacksDiffer' /\ \A i : OnStack(i)' => OnStack(i) \/ i = f.info
<1>1. ASSUME NEW u \in Threads, NEW k \in 1..Len(stack'[u])
      PROVE  /\ k \in 1..Len(stack[u])
             /\ \/ u = t /\ k = 1 /\ stack'[u][k] = f
                \/ ~(u = t /\ k = 1) /\ stack'[u][k] = stack[u][k]
  <2>1. CASE u # t
    BY <2>1, ReplacedTop
  <2>2. CASE u = t
    BY <2>2, ReplacedTop
  <2> QED
    BY <2>1, <2>2
<1>2. 1 \in 1..Len(stack[t])
  BY ReplacedTop
<1>3. StacksDiffer'
  <2> SUFFICES ASSUME NEW u \in Threads, NEW v \in Threads,
                      NEW k \in 1..Len(stack'[u]), NEW m \in 1..Len(stack'[v]),
                      stack'[u][k].info # 0, stack'[u][k].info = stack'[v][m].info
               PROVE  u = v /\ k = m
    BY DEF StacksDiffer
  <2>1. /\ k \in 1..Len(stack[u])
        /\ \/ u = t /\ k = 1 /\ stack'[u][k] = f
           \/ ~(u = t /\ k = 1) /\ stack'[u][k] = stack[u][k]
    BY <1>1
  <2>2. /\ m \in 1..Len(stack[v])
        /\ \/ v = t /\ m = 1 /\ stack'[v][m] = f
           \/ ~(v = t /\ m = 1) /\ stack'[v][m] = stack[v][m]
    BY <1>1
  <2>3. CASE u = t /\ k = 1
    BY <1>2, <2>1, <2>2, <2>3 DEF OnStack, StacksDiffer, Top
  <2>4. CASE v = t /\ m = 1
    BY <1>2, <2>1, <2>2, <2>4 DEF OnStack, StacksDiffer, Top
  <2>5. CASE ~(u = t /\ k = 1) /\ ~(v = t /\ m = 1)
    BY <2>1, <2>2, <2>5 DEF StacksDiffer
  <2> QED
    BY <2>3, <2>4, <2>5
<1>4. ASSUME NEW i, OnStack(i)' PROVE OnStack(i) \/ i = f.info
  BY <1>1, <1>4 DEF OnStack
<1> QED
  BY <1>3, <1>4

\* What a handler's step does with its number: it drops it (a prior handler may
\* have heard it), sends it, or goes on with it, with none or with the replay's.
Gives(f, i)  == \/ f.info = i /\ replaying' = replaying
                \/ f.info = replaying.info /\ replaying' = NoRecord
Heard(i)     == heard' = heard \/ heard' = [heard EXCEPT ![i] = @ + 1]
Drops(t)     == Pop(t) /\ UNCHANGED <<pipe, replaying>> /\ Heard(Top(t).info)
Sends(t)     == /\ Pop(t) /\ UNCHANGED <<replaying, heard>>
                /\ pipe' = Append(pipe, [sig |-> Top(t).sig, info |-> Top(t).info])
Carries(t)   == /\ UNCHANGED <<pipe, heard>>
                /\ \E f : Replaced(t, f) /\ (Gives(f, Top(t).info) \/ Gives(f, 0))

\* An invocation has its own information or the replayed record's.
LEMMA InvocationGives ==
  ASSUME NEW t, NEW s, NEW i, Takeover(t, s) PROVE Gives(Invocation(t, s, i), i)
  BY DEF Takeover, TakeRecord, Invocation, Frame, Gives

\* A jump keeps the frame's number.
LEMMA GotoCarries ==
  ASSUME TypeOK, NEW t \in Threads, stack[t] # <<>>, NEW label, Goto(t, label),
         UNCHANGED <<pipe, heard, replaying>>
  PROVE  Carries(t)
<1>1. Replaced(t, [Top(t) EXCEPT !.at = label])
  BY GotoReplaces
<1>2. [Top(t) EXCEPT !.at = label].info = Top(t).info
  BY FrameTypes DEF Frames
<1> QED
  BY <1>1, <1>2 DEF Carries, Gives

\* Performing a disposition drops the number or carries it on.
LEMMA PerformCarries ==
  ASSUME TypeOK, NEW t \in Threads, stack[t] # <<>>, NEW kind, Perform(t, kind), pipe' = pipe
  PROVE  Drops(t) \/ Carries(t)
<1>1. CASE kind = "wrapper"
  <2>1. Replaced(t, Invocation(t, Top(t).sig, Top(t).info)) /\ heard' = heard
        /\ Takeover(t, Top(t).sig)
    BY <1>1 DEF Perform, Replaced
  <2>2. Gives(Invocation(t, Top(t).sig, Top(t).info), Top(t).info)
    BY <2>1, InvocationGives
  <2> QED
    BY <2>1, <2>2 DEF Carries
<1>2. CASE kind # "wrapper" /\ IsHandler(kind)
  BY <1>2 DEF Perform, IsHandler, Drops, Heard
<1>3. CASE kind = "ignore" \/ (kind = "default" /\ Top(t).sig = Cont)
  BY <1>3 DEF Perform, IsHandler, Drops, Heard
<1>4. CASE kind = "default" /\ Top(t).sig # Cont
  <2>1. Goto(t, "default") /\ UNCHANGED <<heard, replaying>>
    BY <1>4 DEF Perform, IsHandler
  <2> QED
    BY <2>1, GotoCarries
<1> QED
  BY <1>1, <1>2, <1>3, <1>4 DEF IsHandler

\* Every step of a handler drops, sends or carries its number.
LEMMA WrapperCarries ==
  ASSUME TypeOK, NEW t \in Threads, WrapperStep(t)
  PROVE  stack[t] # <<>> /\ UNCHANGED <<arrived, dispatcher>> /\ (Drops(t) \/ Sends(t) \/ Carries(t))
<1> USE DEF registry, records, world, history
<1>1. stack[t] # <<>> /\ UNCHANGED <<arrived, dispatcher>>
  BY WrapperAccounts
<1>2. CASE Write(t)
  <2>1. UNCHANGED <<replaying, heard>>
    BY <1>2 DEF Write
  <2>2. CASE Goto(t, "forward") /\ UNCHANGED pipe
    BY <1>1, <2>1, <2>2, GotoCarries
  <2>3. CASE Pop(t) /\ pipe' = pipe
    BY <1>1, <2>1, <2>3 DEF Drops, Heard
  <2>4. CASE Pop(t) /\ pipe' = Append(pipe, [sig |-> Top(t).sig, info |-> Top(t).info])
    BY <1>1, <2>1, <2>4 DEF Sends
  <2> QED
    BY <1>2, <2>2, <2>3, <2>4 DEF Write
<1>3. CASE Exchange(t)
  <2>1. Replaced(t, [Top(t) EXCEPT !.at = "installed", !.todo = stopped])
    BY <1>1, <1>3, ExchangeReplaces
  <2>2. [Top(t) EXCEPT !.at = "installed", !.todo = stopped].info = Top(t).info
    BY <1>1, FrameTypes DEF Frames
  <2>3. UNCHANGED <<pipe, heard, replaying>>
    BY <1>3 DEF Exchange
  <2> QED
    BY <1>1, <2>1, <2>2, <2>3 DEF Carries, Gives
<1>4. CASE RearmCheck(t)
  <2>1. UNCHANGED <<pipe, heard, replaying>>
    BY <1>4 DEF RearmCheck
  <2>2. CASE Goto(t, "forward")
    BY <1>1, <2>1, <2>2, GotoCarries
  <2>3. ASSUME NEW s \in Signals, stack' = [stack EXCEPT ![t][1] = Checked(Top(t), s)]
        PROVE  Carries(t)
    <3>1. Checked(Top(t), s).info = Top(t).info
      BY <1>1, FrameTypes DEF Checked, Frames
    <3> QED
      BY <2>1, <2>3, <3>1 DEF Carries, Gives, Replaced
  <2>4. Top(t).todo \subseteq Signals
    BY <1>1, FrameTypes DEF Frames
  <2> QED
    BY <1>1, <1>4, <2>2, <2>3, <2>4 DEF RearmCheck
<1>5. CASE RearmInstalled(t) \/ RearmPut(t) \/ SetDefault(t) \/ MarkStopped(t)
  <2>1. UNCHANGED <<pipe, heard, replaying>>
    BY <1>5 DEF RearmInstalled, RearmPut, SetDefault, MarkStopped
  <2>2. \E label : Goto(t, label)
    BY <1>5 DEF RearmInstalled, RearmPut, SetDefault, MarkStopped
  <2> QED
    BY <1>1, <2>1, <2>2, GotoCarries
<1>6. CASE Forward(t)
  <2>1. pipe' = pipe
    BY <1>6 DEF Forward
  <2>2. CASE Goto(t, "claim") /\ UNCHANGED <<settled, heard, replaying>>
    BY <1>1, <2>1, <2>2, GotoCarries
  <2>3. CASE Perform(t, Effective(Top(t).sig))
    BY <1>1, <2>1, <2>3, PerformCarries
  <2> QED
    BY <1>1, <1>6, <2>2, <2>3 DEF Forward
<1>7. CASE Claim(t)
  <2>1. pipe' = pipe
    BY <1>7 DEF Claim
  <2>2. Perform(t, "default") \/ Perform(t, "once")
    BY <1>7 DEF Claim
  <2> QED
    BY <1>1, <2>1, <2>2, PerformCarries
<1>8. CASE Raise(t)
  <2>1. UNCHANGED <<pipe, heard>>
    BY <1>8 DEF Raise
  <2>2. CASE disposition[Top(t).sig] = "wrapper"
    <3>1. Replaced(t, Invocation(t, Top(t).sig, 0)) /\ Takeover(t, Top(t).sig)
      BY <1>8, <2>2 DEF Raise, Replaced
    <3>2. Gives(Invocation(t, Top(t).sig, 0), 0)
      BY <3>1, InvocationGives
    <3> QED
      BY <1>1, <2>1, <3>1, <3>2 DEF Carries
  <2>3. CASE disposition[Top(t).sig] # "wrapper"
    BY <1>1, <1>8, <2>1, <2>3 DEF Raise, Drops, Heard
  <2> QED
    BY <2>2, <2>3
<1> QED
  BY <1>1, <1>2, <1>3, <1>4, <1>5, <1>6, <1>7, <1>8 DEF WrapperStep

\* What is appended to the pipe, and what remains without its head.
LEMMA AppendInfos ==
  ASSUME pipe \in Seq(Record), PipeDiffers, NEW r \in Record, pipe' = Append(pipe, r),
         r.info = 0 \/ ~InPipe(r.info)
  PROVE  PipeDiffers' /\ \A i : InPipe(i)' => InPipe(i) \/ i = r.info
<1>1. /\ Len(pipe') = Len(pipe) + 1 /\ Len(pipe) \in Nat
      /\ pipe'[Len(pipe) + 1] = r /\ \A k \in 1..Len(pipe) : pipe'[k] = pipe[k]
  OBVIOUS
<1>2. ASSUME NEW k \in 1..Len(pipe')
      PROVE  (k = Len(pipe) + 1 /\ pipe'[k] = r) \/ (k \in 1..Len(pipe) /\ pipe'[k] = pipe[k])
  BY <1>1
<1>3. PipeDiffers'
  <2> SUFFICES ASSUME NEW k \in 1..Len(pipe'), NEW m \in 1..Len(pipe'),
                      pipe'[k].info # 0, pipe'[k].info = pipe'[m].info
               PROVE  k = m
    BY DEF PipeDiffers
  <2>1. (k = Len(pipe) + 1 /\ pipe'[k] = r) \/ (k \in 1..Len(pipe) /\ pipe'[k] = pipe[k])
    BY <1>2
  <2>2. (m = Len(pipe) + 1 /\ pipe'[m] = r) \/ (m \in 1..Len(pipe) /\ pipe'[m] = pipe[m])
    BY <1>2
  <2> QED
    BY <2>1, <2>2 DEF PipeDiffers, InPipe
<1> QED
  BY <1>2, <1>3 DEF InPipe

\* What remains in the pipe without its head.
LEMMA TailInfos ==
  ASSUME pipe \in Seq(Record), PipeDiffers, pipe # <<>>, pipe' = Tail(pipe)
  PROVE  /\ PipeDiffers' /\ InPipe(Head(pipe).info)
         /\ \A i : InPipe(i)' => InPipe(i) /\ (i # 0 => i # Head(pipe).info)
<1>1. /\ Len(pipe') = Len(pipe) - 1 /\ Len(pipe) \in Nat \ {0}
      /\ Head(pipe) = pipe[1] /\ \A k \in 1..(Len(pipe) - 1) : pipe'[k] = pipe[k + 1]
  OBVIOUS
<1>2. ASSUME NEW k \in 1..Len(pipe')
      PROVE  k \in Int /\ k + 1 \in 2..Len(pipe) /\ pipe'[k] = pipe[k + 1]
  BY <1>1
<1>3. 1 \in 1..Len(pipe) /\ \A k \in 1..Len(pipe') : k + 1 \in 1..Len(pipe) /\ k + 1 # 1
  BY <1>1
<1>4. PipeDiffers'
  <2> SUFFICES ASSUME NEW k \in 1..Len(pipe'), NEW m \in 1..Len(pipe'),
                      pipe'[k].info # 0, pipe'[k].info = pipe'[m].info
               PROVE  k = m
    BY DEF PipeDiffers
  <2> DEFINE a == k + 1
             b == m + 1
  <2>1. a \in 1..Len(pipe) /\ pipe'[k] = pipe[a] /\ b \in 1..Len(pipe) /\ pipe'[m] = pipe[b]
    BY <1>2, <1>3
  <2>2. a = b
    <3> HIDE DEF a, b
    <3> QED
      BY <2>1 DEF PipeDiffers
  <2> QED
    BY <1>2, <2>2
<1>5. ASSUME NEW i, InPipe(i)' PROVE InPipe(i) /\ (i # 0 => i # Head(pipe).info)
  <2>1. PICK k \in 1..Len(pipe') : pipe'[k].info = i
    BY <1>5 DEF InPipe
  <2> DEFINE a == k + 1
  <2>2. a \in 1..Len(pipe) /\ a # 1 /\ pipe[a].info = i
    BY <1>2, <1>3, <2>1
  <2> HIDE DEF a
  <2> QED
    BY <1>1, <1>3, <2>2 DEF InPipe, PipeDiffers
<1> QED
  BY <1>1, <1>3, <1>4, <1>5 DEF InPipe

\* A handler's step keeps each number in one place.
LEMMA InfoWrapper ==
  ASSUME TypeOK, LiveInv, InfoInv, NEW t \in Threads, WrapperStep(t) PROVE InfoInv'
<1> DEFINE top == Top(t).info
<1>1. /\ stack[t] # <<>> /\ UNCHANGED <<arrived, dispatcher>> /\ top \in Nat
      /\ Drops(t) \/ Sends(t) \/ Carries(t)
  BY WrapperCarries, FrameTypes
<1>2. StacksDiffer /\ PipeDiffers /\ pipe \in Seq(Record) /\ heard \in [0..(2 * MaxSignals) -> Nat]
  BY DEF InfoInv, TypeOK
<1>3. OnStack(top)
  <2>1. 1 \in 1..Len(stack[t])
    BY <1>1, FrameTypes DEF TypeOK
  <2> QED
    BY <2>1 DEF OnStack, Top
<1> HIDE DEF top
<1>4. CASE Drops(t)
  <2>1. StacksDiffer' /\ \A i : OnStack(i)' => OnStack(i) /\ (i # 0 => i # top)
    BY <1>1, <1>2, <1>4, PopInfos DEF Drops, top
  <2>2. PipeDiffers' /\ \A i : (InPipe(i)' <=> InPipe(i)) /\ (Held(i)' <=> Held(i))
    BY <1>1, <1>2, <1>4 DEF Drops, PipeDiffers, InPipe, Held
  <2>3. ASSUME NEW i \in Infos PROVE Followed(i)'
    <3>1. Followed(i)
      BY DEF InfoInv
    <3>2. i \in DOMAIN heard' <=> i \in DOMAIN heard
      BY <1>2, <1>4 DEF Drops, Heard
    <3>3. i # top /\ i \in DOMAIN heard => heard'[i] = heard[i]
      BY <1>2, <1>4 DEF Drops, Heard, top
    <3>4. i = top /\ i \in DOMAIN heard => heard'[i] = 0 \/ heard'[i] = 1
      <4>1. i = top /\ i \in DOMAIN heard => heard[i] = 0
        BY <1>3, <3>1 DEF Followed, Unheard
      <4>2. heard' = heard \/ heard' = [heard EXCEPT ![top] = heard[top] + 1]
        BY <1>4 DEF Drops, Heard, top
      <4>3. i \in DOMAIN heard /\ i = top => [heard EXCEPT ![top] = heard[top] + 1][i] = heard[i] + 1
        BY <1>2
      <4> QED
        BY <4>1, <4>2, <4>3
    <3> QED
      BY <1>1, <1>3, <2>1, <2>2, <3>1, <3>2, <3>3, <3>4
         DEF Followed, OnePlace, HeardOnce, Unheard, Infos
  <2> QED
    BY <2>1, <2>2, <2>3 DEF InfoInv
<1>5. CASE Sends(t)
  <2> DEFINE r == [sig |-> Top(t).sig, info |-> Top(t).info]
  <2>1. StacksDiffer' /\ \A i : OnStack(i)' => OnStack(i) /\ (i # 0 => i # top)
    BY <1>1, <1>2, <1>5, PopInfos DEF Sends, top
  <2>2. r \in Record /\ pipe' = Append(pipe, r) /\ r.info = top
    BY <1>1, <1>5, FrameTypes DEF Sends, Record, top
  <2>3. r.info = 0 \/ ~InPipe(r.info)
    BY <1>1, <1>3, <2>2 DEF InfoInv, Followed, OnePlace, Infos
  <2> HIDE DEF r
  <2>4. PipeDiffers' /\ \A i : InPipe(i)' => InPipe(i) \/ i = top
    BY <1>2, <2>2, <2>3, AppendInfos
  <2>5. heard' = heard /\ \A i : Held(i)' <=> Held(i)
    BY <1>1, <1>5 DEF Sends, Held
  <2>6. ASSUME NEW i \in Infos PROVE Followed(i)'
    BY <1>1, <1>3, <2>1, <2>4, <2>5
       DEF InfoInv, Followed, OnePlace, HeardOnce, Unheard, Infos
  <2> QED
    BY <2>1, <2>4, <2>6 DEF InfoInv
<1>6. CASE Carries(t)
  <2>1. PICK f : Replaced(t, f) /\ (Gives(f, top) \/ Gives(f, 0))
    BY <1>6 DEF Carries, top
  <2>2. /\ f.info = 0 \/ f.info = top \/ (f.info = replaying.info /\ Held(f.info))
        /\ f.info \in Nat
    BY <1>1, <2>1 DEF Gives, Held, TypeOK, Record
  <2>3. f.info = 0 \/ f.info = Top(t).info \/ ~OnStack(f.info)
    BY <2>2 DEF InfoInv, Followed, OnePlace, Infos, top
  <2>4. StacksDiffer' /\ \A i : OnStack(i)' => OnStack(i) \/ i = f.info
    BY <1>1, <1>2, <2>1, <2>3, ReplaceInfos
  <2>5. PipeDiffers' /\ heard' = heard /\ \A i : InPipe(i)' <=> InPipe(i)
    BY <1>2, <1>6 DEF Carries, PipeDiffers, InPipe
  <2>6. \A i \in Infos : Held(i)' => Held(i) /\ (i # f.info \/ f.info = top)
    <3>1. dispatcher.at = "taken" => replaying = NoRecord
      BY DEF LiveInv, RecordIsLive, Replay
    <3> QED
      BY <1>1, <2>1, <3>1 DEF Gives, Held, NoRecord, Infos
  <2>7. ASSUME NEW i \in Infos PROVE Followed(i)'
    BY <1>1, <1>3, <2>2, <2>4, <2>5, <2>6
       DEF InfoInv, Followed, OnePlace, HeardOnce, Unheard, Infos
  <2> QED
    BY <2>4, <2>5, <2>7 DEF InfoInv
<1> QED
  BY <1>1, <1>4, <1>5, <1>6

\* So does the dispatcher's: pipe, record, pointer and stack in turn.
LEMMA InfoDispatcher ==
  ASSUME TypeOK, LiveInv, InfoInv, DispatcherStep PROVE InfoInv'
<1> USE DEF registry, records, world, history
<1>1. /\ StacksDiffer /\ PipeDiffers /\ pipe \in Seq(Record) /\ Dispatcher \in Threads
      /\ heard' = heard /\ arrived' = arrived
      /\ dispatcher.rec \in Record /\ dispatcher.rec.sig \in Signals /\ dispatcher.rec.info \in Nat
      /\ dispatcher.at = "taken" => replaying = NoRecord
      /\ NoRecord.info = 0
  BY DEF InfoInv, TypeOK, Threads, Record, DispatcherStep, Read, Exit, Replaying, ReplayRaise,
         Replayed, LiveInv, RecordIsLive, Replay, NoRecord
<1>2. ASSUME UNCHANGED stack
      PROVE  StacksDiffer' /\ \A i : OnStack(i)' <=> OnStack(i)
  BY <1>1, <1>2 DEF StacksDiffer, OnStack
<1>3. ASSUME UNCHANGED pipe
      PROVE  PipeDiffers' /\ \A i : InPipe(i)' <=> InPipe(i)
  BY <1>1, <1>3 DEF PipeDiffers, InPipe
<1>4. ASSUME StacksDiffer', PipeDiffers',
             \A i \in Infos :
               /\ OnStack(i)' => OnStack(i) \/ (Held(i) /\ ~Held(i)')
               /\ InPipe(i)' => InPipe(i)
               /\ Held(i)' => Held(i) \/ (InPipe(i) /\ ~InPipe(i)')
      PROVE  InfoInv'
  <2> SUFFICES ASSUME NEW i \in Infos PROVE Followed(i)'
    BY <1>4 DEF InfoInv
  <2> QED
    BY <1>1, <1>4 DEF InfoInv, Followed, OnePlace, HeardOnce, Unheard
<1>5. CASE Read
  <2>1. /\ pipe # <<>> /\ pipe' = Tail(pipe) /\ UNCHANGED <<stack, replaying>>
        /\ dispatcher' = [at |-> "taken", rec |-> Head(pipe)]
    BY <1>5 DEF Read
  <2>2. \A i : Held(i)' => Held(i) \/ i = Head(pipe).info
    BY <2>1 DEF Held
  <2> QED
    BY <1>1, <1>2, <1>4, <2>1, <2>2, TailInfos DEF Infos
<1>6. CASE Exit \/ Replayed
  <2>1. UNCHANGED <<stack, pipe>> /\ dispatcher'.at \in {"done", "read"}
        /\ (replaying' = replaying \/ replaying' = NoRecord)
    BY <1>6 DEF Exit, Replayed, Dispatch, Dispatching, TypeOK
  <2>2. \A i \in Infos : Held(i)' => Held(i)
    BY <1>1, <2>1 DEF Held, Infos
  <2> QED
    BY <1>2, <1>3, <1>4, <2>1, <2>2
<1>7. CASE Replaying
  <2>1. dispatcher.at = "taken" /\ UNCHANGED pipe
    BY <1>7 DEF Replaying, Dispatching
  <2>2. CASE IsHandler(Effective(dispatcher.rec.sig))
    <3>1. UNCHANGED stack /\ replaying' = dispatcher.rec /\ dispatcher'.at = "replay"
      BY <1>7, <2>2 DEF Replaying, Dispatch, TypeOK
    <3>2. \A i : Held(i)' => Held(i)
      BY <2>1, <3>1 DEF Held
    <3> QED
      BY <1>2, <1>3, <1>4, <2>1, <3>1, <3>2
  <2>3. CASE ~IsHandler(Effective(dispatcher.rec.sig))
    <3> DEFINE f == Frame(dispatcher.rec.sig, dispatcher.rec.info, "forward")
    <3>1. Push(Dispatcher, f) /\ dispatcher'.at = "read" /\ replaying' = replaying
      BY <1>7, <2>3 DEF Replaying, Dispatch, TypeOK
    <3>2. f \in Frames /\ f.info = dispatcher.rec.info
      BY <1>1 DEF Frame, Frames, Labels
    <3>3. f.info = 0 \/ ~OnStack(f.info)
      BY <1>1, <2>1, <3>2 DEF InfoInv, Followed, OnePlace, Held, Infos
    <3> HIDE DEF f
    <3>4. StacksDiffer' /\ \A i : OnStack(i)' => OnStack(i) \/ i = f.info
      BY <1>1, <3>1, <3>2, <3>3, PushInfos
    <3>5. \A i \in Infos : ~Held(i)'
      BY <1>1, <2>1, <3>1 DEF Held, Infos
    <3>6. Held(f.info)
      BY <2>1, <3>2 DEF Held
    <3> QED
      BY <1>3, <1>4, <2>1, <3>4, <3>5, <3>6
  <2> QED
    BY <2>2, <2>3
<1>8. CASE ReplayRaise
  <2> DEFINE s == dispatcher.rec.sig
  <2>1. UNCHANGED pipe /\ dispatcher.at = "replay" /\ dispatcher'.at = "replayed"
    BY <1>8 DEF ReplayRaise, Dispatching, Dispatch, TypeOK
  <2>2. CASE disposition[s] = "wrapper"
    <3> DEFINE f == Invocation(Dispatcher, s, 0)
    <3>1. Push(Dispatcher, f) /\ Takeover(Dispatcher, s)
      BY <1>8, <2>2 DEF ReplayRaise
    <3>2. f \in Frames /\ Gives(f, 0)
      BY <1>1, <3>1, InvocationType, InvocationGives
    <3> HIDE DEF f
    <3>3. f.info \in Nat /\ (f.info = 0 \/ (f.info = replaying.info /\ replaying' = NoRecord))
      BY <3>2 DEF Gives, Frames
    <3>4. f.info = 0 \/ ~OnStack(f.info)
      BY <3>3 DEF InfoInv, Followed, OnePlace, Held, Infos
    <3>5. StacksDiffer' /\ \A i : OnStack(i)' => OnStack(i) \/ i = f.info
      BY <1>1, <3>1, <3>2, <3>4, PushInfos
    <3>6. \A i \in Infos : (Held(i)' => Held(i)) /\ (i = f.info => Held(i) /\ ~Held(i)')
      BY <1>1, <2>1, <3>2, <3>3 DEF Gives, Held, Infos
    <3> QED
      BY <1>3, <1>4, <2>1, <3>5, <3>6
  <2>3. CASE disposition[s] # "wrapper"
    <3>1. UNCHANGED <<stack, replaying>>
      BY <1>8, <2>3 DEF ReplayRaise
    <3>2. \A i \in Infos : Held(i)' => Held(i)
      BY <2>1, <3>1 DEF Held
    <3> QED
      BY <1>2, <1>3, <1>4, <2>1, <3>1, <3>2
  <2> QED
    BY <2>2, <2>3
<1> QED
  BY <1>5, <1>6, <1>7, <1>8 DEF DispatcherStep

\* A delivery brings a number that nothing carries yet.
LEMMA InfoDeliver ==
  ASSUME TypeOK, LiveInv, InfoInv, NEW t \in Threads, NEW s \in Signals, Deliver(t, s)
  PROVE  InfoInv'
<1> DEFINE new == arrived + 1
<1>1. /\ StacksDiffer /\ PipeDiffers /\ UNCHANGED <<pipe, dispatcher, heard>>
      /\ arrived \in Nat /\ arrived' = new /\ new \in Infos
      /\ heard \in [0..(2 * MaxSignals) -> Nat]
      /\ dispatcher.at = "taken" => replaying = NoRecord
      /\ NoRecord.info = 0 /\ replaying.info \in Nat
  BY DEF InfoInv, TypeOK, Deliver, Infos, LiveInv, RecordIsLive, Replay, NoRecord, Record
<1>2. PipeDiffers' /\ \A i : InPipe(i)' <=> InPipe(i)
  BY <1>1 DEF PipeDiffers, InPipe
<1>3. ~OnStack(new) /\ ~InPipe(new) /\ ~Held(new) /\ (new \in DOMAIN heard => heard[new] = 0)
  BY <1>1 DEF InfoInv, Followed, Unheard, HeardOnce
<1>4. ASSUME StacksDiffer',
             \A i \in Infos :
               /\ OnStack(i)' => OnStack(i) \/ i = new \/ (Held(i) /\ ~Held(i)')
               /\ Held(i)' => Held(i)
      PROVE  InfoInv'
  <2> SUFFICES ASSUME NEW i \in Infos PROVE Followed(i)'
    BY <1>2, <1>4 DEF InfoInv
  <2>1. Followed(i)
    BY DEF InfoInv
  <2>2. i \in Nat
    BY DEF Infos
  <2> QED
    BY <1>1, <1>2, <1>3, <1>4, <2>1, <2>2 DEF Followed, OnePlace, HeardOnce, Unheard
<1>5. CASE disposition[s] = "wrapper"
  <2> DEFINE f == Invocation(t, s, new)
  <2>1. Push(t, f) /\ Takeover(t, s)
    BY <1>5 DEF Deliver
  <2>2. f \in Frames /\ Gives(f, new)
    BY <1>1, <2>1, InvocationType, InvocationGives DEF Infos
  <2> HIDE DEF f
  <2>3. f.info = new \/ (f.info = replaying.info /\ replaying' = NoRecord)
    BY <2>2 DEF Gives
  <2>4. f.info = 0 \/ ~OnStack(f.info)
    BY <1>1, <1>3, <2>3 DEF InfoInv, Followed, OnePlace, Held, Infos
  <2>5. StacksDiffer' /\ \A i : OnStack(i)' => OnStack(i) \/ i = f.info
    BY <1>1, <2>1, <2>2, <2>4, PushInfos
  <2>6. \A i \in Infos : /\ Held(i)' => Held(i)
                         /\ i = f.info => i = new \/ (Held(i) /\ ~Held(i)')
    BY <1>1, <2>2 DEF Gives, Held, Infos
  <2> QED
    BY <1>4, <2>5, <2>6
<1>6. CASE disposition[s] # "wrapper"
  <2>1. UNCHANGED <<stack, replaying>>
    BY <1>6 DEF Deliver
  <2>2. StacksDiffer' /\ \A i : (OnStack(i)' <=> OnStack(i)) /\ (Held(i)' <=> Held(i))
    BY <1>1, <2>1 DEF StacksDiffer, OnStack, Held
  <2> QED
    BY <1>4, <2>2
<1> QED
  BY <1>5, <1>6

\* Other steps at most empty the pipe or start a dispatcher.
LEMMA InfoOther ==
  ASSUME TypeOK, LiveInv, InfoInv,
         \/ OwnerStep \/ Install \/ InstallFailed \/ Uninstall \/ Continue \/ Open
         \/ (\E s \in Signals : Register(s)) \/ UNCHANGED vars
  PROVE  InfoInv'
<1> USE DEF registry, records, world, history
<1>1. /\ UNCHANGED <<stack, replaying, heard, arrived>>
      /\ pipe' = pipe \/ pipe' = <<>>
      /\ dispatcher' = dispatcher \/ dispatcher'.at = "none" \/ dispatcher'.at = "read"
  <2>1. CASE Create \/ Join \/ Install
    BY <2>1 DEF Create, Join, Install
  <2>2. CASE Wrap \/ CloseWrite \/ Uncovered \/ PutBack \/ InstallFailed \/ Uninstall
    BY <2>2 DEF Wrap, CloseWrite, Uncovered, PutBack, InstallFailed, Uninstall
  <2>3. CASE Continue \/ Open \/ (\E s \in Signals : Register(s)) \/ UNCHANGED vars
    BY <2>3 DEF Continue, Open, Register, vars
  <2> QED
    BY <2>1, <2>2, <2>3 DEF OwnerStep
<1>2. StacksDiffer' /\ \A i : (OnStack(i)' <=> OnStack(i)) /\ (Held(i)' => Held(i))
  BY <1>1 DEF InfoInv, StacksDiffer, OnStack, Held
<1>3. PipeDiffers' /\ \A i : InPipe(i)' => InPipe(i)
  <2>1. CASE pipe' = pipe
    BY <2>1 DEF InfoInv, PipeDiffers, InPipe
  <2>2. CASE pipe' = <<>>
    <3>1. 1..Len(pipe') = {}
      BY <2>2
    <3> QED
      BY <3>1 DEF PipeDiffers, InPipe
  <2> QED
    BY <1>1, <2>1, <2>2
<1> SUFFICES ASSUME NEW i \in Infos PROVE Followed(i)'
  BY <1>2, <1>3 DEF InfoInv
<1> QED
  BY <1>1, <1>2, <1>3 DEF InfoInv, Followed, OnePlace, HeardOnce, Unheard

\* Every step keeps each number in one place.
LEMMA InfoStep == TypeOK /\ LiveInv /\ InfoInv /\ [Next]_vars => InfoInv'
  BY InfoWrapper, InfoDispatcher, InfoDeliver, InfoOther DEF Next

\* No prior handler hears of a delivery that another run heard of: neither a
\* nested invocation, nor a full pipe, a replay that another signal overtakes, a
\* wrapper chained to a wrapper or a removal repeats its siginfo.
THEOREM InformationTheorem == Spec => []InformationOnce
<1>1. TypeOK /\ InfoInv => InformationOnce
  <2> SUFFICES ASSUME TypeOK, InfoInv, NEW i \in DOMAIN heard \ {0} PROVE heard[i] <= 1
    BY DEF InformationOnce
  <2>1. i \in 0..(2 * MaxSignals) /\ i # 0 /\ heard[i] \in Nat
    BY DEF TypeOK
  <2>2. i \in Infos
    BY <2>1 DEF Infos
  <2> QED
    BY <2>1, <2>2 DEF InfoInv, Followed, HeardOnce
<1> QED
  BY <1>1, InfoInit, InfoStep, LiveInit, LiveStep, TypesHold, PTL DEF Spec

-----------------------------------------------------------------------------
(* The frames on all stacks, as a set: what a step on a stack does to it.     *)
Active == {f \in Frames : \E t \in Threads : \E k \in 1..Len(stack[t]) : stack[t][k] = f}

\* A push adds a frame to the set.
LEMMA PushActive ==
  ASSUME TypeOK, NEW t \in Threads, NEW f \in Frames, Push(t, f)
  PROVE  Active' = Active \cup {f}
<1>1. ASSUME NEW u \in Threads, NEW k \in 1..Len(stack'[u])
      PROVE  stack'[u][k] = f \/ \E m \in 1..Len(stack[u]) : stack'[u][k] = stack[u][m]
  <2>1. CASE u # t
    BY <2>1, Pushed
  <2>2. CASE u = t /\ k = 1
    BY <2>2, Pushed
  <2>3. CASE u = t /\ k # 1
    <3>1. Len(stack[t]) \in Nat /\ Len(stack'[t]) = Len(stack[t]) + 1 /\ k \in 2..Len(stack'[t])
      BY <2>3, Pushed
    <3>2. k - 1 \in 1..Len(stack[u]) /\ stack'[u][k] = stack[u][k - 1]
      BY <2>3, <3>1, Pushed
    <3> QED
      BY <3>2
  <2> QED
    BY <2>1, <2>2, <2>3
<1>2. ASSUME NEW u \in Threads, NEW k \in 1..Len(stack[u])
      PROVE  \E m \in 1..Len(stack'[u]) : stack'[u][m] = stack[u][k]
  <2>1. CASE u # t
    BY <2>1, Pushed
  <2>2. CASE u = t
    <3>1. k + 1 \in 1..Len(stack'[u]) /\ stack'[u][k + 1] = stack[u][k]
      BY <2>2, Pushed
    <3> QED
      BY <3>1
  <2> QED
    BY <2>1, <2>2
<1>3. 1 \in 1..Len(stack'[t]) /\ stack'[t][1] = f
  BY Pushed
<1>4. Active' \subseteq Active \cup {f}
  BY <1>1 DEF Active
<1>5. Active \subseteq Active'
  BY <1>2 DEF Active
<1>6. f \in Active'
  BY <1>3 DEF Active
<1> QED
  BY <1>4, <1>5, <1>6

\* A pop loses at most the innermost one.
LEMMA PopActive ==
  ASSUME TypeOK, NEW t \in Threads, stack[t] # <<>>, Pop(t)
  PROVE  Active' \subseteq Active /\ Active \subseteq Active' \cup {Top(t)} /\ Top(t) \in Active
<1>1. ASSUME NEW u \in Threads, NEW k \in 1..Len(stack'[u])
      PROVE  \E m \in 1..Len(stack[u]) : stack'[u][k] = stack[u][m]
  <2>1. CASE u # t
    BY <2>1, Popped
  <2>2. CASE u = t
    <3>1. k + 1 \in 1..Len(stack[u]) /\ stack'[u][k] = stack[u][k + 1]
      BY <2>2, Popped
    <3> QED
      BY <3>1
  <2> QED
    BY <2>1, <2>2
<1>2. ASSUME NEW u \in Threads, NEW k \in 1..Len(stack[u])
      PROVE  \/ \E m \in 1..Len(stack'[u]) : stack'[u][m] = stack[u][k]
             \/ stack[u][k] = Top(t)
  <2>1. CASE u # t
    BY <2>1, Popped
  <2>2. CASE u = t /\ k # 1
    <3>1. k - 1 \in 1..Len(stack'[u]) /\ (k - 1) + 1 = k
      BY <2>2, Popped
    <3>2. stack'[u][k - 1] = stack[u][(k - 1) + 1]
      BY <2>2, <3>1, Popped
    <3> QED
      BY <3>1, <3>2
  <2>3. CASE u = t /\ k = 1
    BY <2>3 DEF Top
  <2> QED
    BY <2>1, <2>2, <2>3
<1>3. 1 \in 1..Len(stack[t]) /\ Top(t) \in Frames
  BY Popped, FrameTypes
<1>4. Active' \subseteq Active
  BY <1>1 DEF Active
<1>5. Active \subseteq Active' \cup {Top(t)}
  BY <1>2 DEF Active
<1> QED
  BY <1>3, <1>4, <1>5 DEF Active, Top

\* A replacement loses at most the innermost one and adds another.
LEMMA ReplaceActive ==
  ASSUME TypeOK, NEW t \in Threads, stack[t] # <<>>, NEW f \in Frames, Replaced(t, f)
  PROVE  /\ Active' \subseteq Active \cup {f} /\ Active \subseteq Active' \cup {Top(t)}
         /\ f \in Active' /\ Top(t) \in Active
<1>1. ASSUME NEW u \in Threads, NEW k \in 1..Len(stack'[u])
      PROVE  k \in 1..Len(stack[u]) /\ (stack'[u][k] = f \/ stack'[u][k] = stack[u][k])
  <2>1. CASE u # t
    BY <2>1, ReplacedTop
  <2>2. CASE u = t
    BY <2>2, ReplacedTop
  <2> QED
    BY <2>1, <2>2
<1>2. ASSUME NEW u \in Threads, NEW k \in 1..Len(stack[u])
      PROVE  k \in 1..Len(stack'[u]) /\ (stack'[u][k] = stack[u][k] \/ stack[u][k] = Top(t))
  <2>1. CASE u # t
    BY <2>1, ReplacedTop
  <2>2. CASE u = t
    BY <2>2, ReplacedTop DEF Top
  <2> QED
    BY <2>1, <2>2
<1>3. 1 \in 1..Len(stack[t]) /\ Top(t) \in Frames /\ 1 \in 1..Len(stack'[t]) /\ stack'[t][1] = f
  BY ReplacedTop, FrameTypes
<1>4. Active' \subseteq Active \cup {f}
  BY <1>1 DEF Active
<1>5. Active \subseteq Active' \cup {Top(t)}
  BY <1>2 DEF Active
<1> QED
  BY <1>3, <1>4, <1>5 DEF Active, Top

\* The set depends on the stacks alone.
LEMMA SameActive == ASSUME UNCHANGED stack PROVE Active' = Active
  BY DEF Active

\* Whatever happens, there are finitely many invocations: none in flight are none.
LEMMA FiniteInit == Init => IsFiniteSet(Invocations)
<1> SUFFICES ASSUME Init PROVE IsFiniteSet(Invocations)
  OBVIOUS
<1>1. Invocations = {}
  BY DEF Init, Invocations
<1> QED
  BY <1>1, FS_EmptySet

\* A step adds at most one.
LEMMA FiniteStep ==
  TypeOK /\ IsFiniteSet(Invocations) /\ [Next]_vars => IsFiniteSet(Invocations)'
<1> SUFFICES ASSUME TypeOK, IsFiniteSet(Invocations), [Next]_vars PROVE IsFiniteSet(Invocations)'
  OBVIOUS
<1> USE DEF registry, records, world, history
<1>1. ASSUME NEW t \in Threads, WrapperStep(t) PROVE IsFiniteSet(Invocations)'
  <2>1. stack[t] # <<>> /\ (Pop(t) \/ \E f : Replaced(t, f))
    BY <1>1, WrapperAccounts DEF Settles, Writes, Loses, GoesOn
  <2>2. CASE Pop(t)
    BY <2>1, <2>2, PopCounts
  <2>3. CASE \E f : Replaced(t, f)
    BY <2>1, <2>3, ReplaceCounts
  <2> QED
    BY <2>1, <2>2, <2>3
<1>2. ASSUME UNCHANGED stack PROVE IsFiniteSet(Invocations)'
  BY <1>2 DEF Invocations
<1>3. ASSUME NEW t \in Threads, NEW s \in Signals, Deliver(t, s) PROVE IsFiniteSet(Invocations)'
  <2>1. arrived + 1 \in Nat
    BY DEF TypeOK
  <2>2. Invocation(t, s, arrived + 1) \in Frames
    BY <2>1, InvocationType
  <2> QED
    BY <1>2, <1>3, <2>2, PushCounts DEF Deliver
<1>4. CASE DispatcherStep
  <2>1. /\ Dispatcher \in Threads /\ dispatcher.rec.sig \in Signals /\ dispatcher.rec.info \in Nat
        /\ Cont \in Signals
    BY DEF TypeOK, Threads, Record, Signals
  <2>2. /\ Invocation(Dispatcher, dispatcher.rec.sig, 0) \in Frames
        /\ Frame(dispatcher.rec.sig, dispatcher.rec.info, "forward") \in Frames
    BY <2>1, InvocationType DEF Frame, Frames, Labels
  <2>3. CASE Replaying
    BY <1>2, <2>1, <2>2, <2>3, PushCounts DEF Replaying
  <2>4. CASE ReplayRaise
    BY <1>2, <2>1, <2>2, <2>4, PushCounts DEF ReplayRaise
  <2>5. CASE Read \/ Exit \/ Replayed
    BY <1>2, <2>5 DEF Read, Exit, Replayed
  <2> QED
    BY <1>4, <2>3, <2>4, <2>5 DEF DispatcherStep
<1>5. CASE \/ OwnerStep \/ Install \/ InstallFailed \/ Uninstall \/ Continue \/ Open
           \/ (\E s \in Signals : Register(s)) \/ UNCHANGED vars
  <2>1. UNCHANGED stack
    BY <1>5 DEF OwnerStep, Create, Wrap, CloseWrite, Join, Uncovered, PutBack, Install,
         InstallFailed, Uninstall, Continue, Open, Register, vars
  <2> QED
    BY <1>2, <2>1
<1> QED
  BY <1>1, <1>3, <1>4, <1>5 DEF Next

\* With nothing in flight no stack has a frame.
LEMMA NoneInFlight ==
  ASSUME TypeOK, IsFiniteSet(Invocations), InFlight = 0 PROVE Active = {}
<1>1. Cardinality(Invocations) \in Nat /\ Len(pipe) \in Nat
  BY FS_CardinalityType DEF TypeOK
<1>2. Cardinality(Invocations) = 0
  BY <1>1 DEF InFlight
<1>3. Invocations = {}
  BY <1>2, FS_EmptySet
<1>4. ASSUME NEW t \in Threads, NEW k \in 1..Len(stack[t]) PROVE FALSE
  <2>1. <<t, k>> \in Invocations
    BY DEF Invocations
  <2> QED
    BY <1>3, <2>1
<1> QED
  BY <1>4 DEF Active

-----------------------------------------------------------------------------
(* Wrappers after a stop, while the application neither removes them nor      *)
(* registers handlers of its own.  A stop that has its default action will    *)
(* get its wrapper back: its number is in stopped_handlers, or a handler has  *)
(* it among those it took, or is about to mark it.  And a marked one has a    *)
(* continuation before it: the process is stopped, SIGCONT is pending or      *)
(* being handled, or the stop is yet to be raised.                            *)
Covers(f, s) ==
  \/ f.at \in {"installed", "rearm", "put"} /\ s \in f.todo
  \/ f.at = "put" /\ f.next = s
  \/ f.at = "mark" /\ f.sig = s
Rouses(f, s) == f.at = "exchange" \/ (f.at \in {"mark", "raise"} /\ f.sig = s)
Covered(s) == \E f \in Active : Covers(f, s)
Roused(s)  == \E f \in Active : Rouses(f, s)

\* A SIGCONT is neither queued nor given its default action: it rearms.
Continues(f) == f.at \in {"write", "default", "mark", "raise"} => f.sig # Cont
ContInv ==
  /\ disposition[Cont] = "wrapper"
  /\ \A k \in 1..Len(pipe) : pipe[k].sig # Cont
  /\ dispatcher.at \in {"taken", "replay", "replayed"} => dispatcher.rec.sig # Cont
  /\ \A f \in Active : Continues(f)

StopInv ==
  /\ \A s \in Stops : disposition[s] = "wrapper" \/ disposition[s] = "default"
  /\ \A s \in Stops : disposition[s] = "default" => s \in stopped \/ Covered(s)
  /\ \A s \in stopped : disposition[s] = "default" => process # "running" \/ continued \/ Roused(s)

ManagedInv == lifecycle.at = "idle" /\ handlers_installed /\ ContInv /\ StopInv
Unregistered == NoLifecycle /\ "register" \notin Events

\* No handler runs at the start.
LEMMA NoActive == ASSUME Init PROVE Active = {}
  BY DEF Init, Active

\* After the installation every stop has its wrapper.
LEMMA ManagedInit == ASSUME NoLifecycle PROVE Init => ManagedInv
<1> SUFFICES ASSUME Init PROVE ManagedInv
  OBVIOUS
<1>1. 1..Len(pipe) = {} /\ Cont \in Signals /\ Stops \subseteq Signals
  BY DEF Init, Signals
<1> QED
  BY <1>1, NoActive DEF Init, NoLifecycle, Idle, ManagedInv, ContInv, StopInv

\* The system's own delivery, of anything but a SIGCONT: a stop stops the process.
LEMMA NativeStops ==
  ASSUME TypeOK, ManagedInv, NEW s \in Signals \ {Cont}, Native(s), disposition[s] # "wrapper",
         process = "running"
  PROVE  /\ disposition'[Cont] = "wrapper" /\ \A q \in Stops : disposition'[q] = disposition[q]
         /\ process' # "running" \/ (process' = process /\ continued' = continued /\ s \notin Stops)
<1>1. CASE s \in Stops
  BY <1>1, SignalsAssumption DEF Native, ManagedInv, ContInv, StopInv
<1>2. CASE s \notin Stops
  <2>1. process' = process \/ process' = "dead"
    BY <1>2 DEF Native
  <2>2. process' = process => continued' = continued
    BY DEF Native, TypeOK
  <2>3. \A q \in Signals \ {s} : disposition'[q] = disposition[q]
    BY DEF Native, TypeOK
  <2>4. Cont \in Signals /\ Stops \subseteq Signals
    BY DEF Signals
  <2> QED
    BY <1>2, <2>1, <2>2, <2>3, <2>4 DEF ManagedInv, ContInv
<1> QED
  BY <1>1, <1>2

\* A step that leaves what is set and marked keeps StopInv if no frame that
\* covers or rouses is lost.
LEMMA StopKept ==
  ASSUME StopInv, UNCHANGED stopped, NEW top,
         \A s \in Stops : disposition'[s] = disposition[s],
         process' # "running" \/ UNCHANGED <<process, continued>>,
         Active \subseteq Active' \cup {top},
         \A s \in Stops : disposition[s] = "default" =>
           (Covers(top, s) => Covered(s)') /\ (process' = "running" /\ Rouses(top, s) => Roused(s)'),
         stopped \subseteq Stops
  PROVE  StopInv'
<1>1. ASSUME NEW s \in Stops, disposition[s] = "default", Covered(s) PROVE Covered(s)'
  BY <1>1 DEF Covered
<1>2. ASSUME NEW s \in Stops, disposition[s] = "default", process' = "running", Roused(s)
      PROVE  Roused(s)'
  BY <1>2 DEF Roused
<1> QED
  BY <1>1, <1>2 DEF StopInv

\* An invocation for SIGCONT exchanges or forwards; it queues nothing.
LEMMA InvocationContinues ==
  ASSUME NEW t, NEW s, NEW i PROVE Continues(Invocation(t, s, i))
  BY SignalsAssumption DEF Invocation, Frame, Label, Continues

\* What a handler's step leaves on its stack.
Leaves(t) == Pop(t) \/ \E f \in Frames : Replaced(t, f) /\ Continues(f)

\* The frames after such a step.
LEMMA LeavesActive ==
  ASSUME TypeOK, ContInv, NEW t \in Threads, stack[t] # <<>>, Leaves(t)
  PROVE  Active \subseteq Active' \cup {Top(t)} /\ (\A f \in Active' : Continues(f))
<1>1. CASE Pop(t)
  BY <1>1, PopActive DEF ContInv
<1>2. ASSUME NEW f \in Frames, Replaced(t, f), Continues(f)
      PROVE  Active \subseteq Active' \cup {Top(t)} /\ (\A g \in Active' : Continues(g))
  BY <1>2, ReplaceActive DEF ContInv
<1> QED
  BY <1>1, <1>2 DEF Leaves

\* A jump is such a step, unless it gives SIGCONT its default action.
LEMMA GotoLeaves ==
  ASSUME TypeOK, NEW t \in Threads, stack[t] # <<>>, NEW label \in Labels, Goto(t, label),
         label \in {"default", "mark", "raise"} => Top(t).sig # Cont, label # "write",
         label = "mark" => Top(t).sig \in Stops
  PROVE  /\ [Top(t) EXCEPT !.at = label] \in Frames /\ Replaced(t, [Top(t) EXCEPT !.at = label])
         /\ Leaves(t) /\ [Top(t) EXCEPT !.at = label] \in Active'
<1> DEFINE f == [Top(t) EXCEPT !.at = label]
<1>1. f \in Frames /\ f.at = label /\ f.sig = Top(t).sig
  BY FrameTypes DEF Frames
<1>2. Replaced(t, f)
  BY GotoReplaces
<1>3. Continues(f)
  BY <1>1 DEF Continues
<1> HIDE DEF f
<1>4. f \in Active'
  BY <1>1, <1>2, ReplaceActive
<1> QED
  BY <1>1, <1>2, <1>3, <1>4 DEF Leaves, f

\* Performing a disposition is such a step.
LEMMA PerformLeaves ==
  ASSUME TypeOK, NEW t \in Threads, stack[t] # <<>>, NEW kind, Perform(t, kind)
  PROVE  Leaves(t)
<1>1. CASE kind = "wrapper"
  <2>1. Invocation(t, Top(t).sig, Top(t).info) \in Frames
    BY FrameTypes, InvocationType
  <2>2. Replaced(t, Invocation(t, Top(t).sig, Top(t).info))
    BY <1>1 DEF Perform, Replaced
  <2> QED
    BY <2>1, <2>2, InvocationContinues DEF Leaves
<1>2. CASE kind # "wrapper" /\ IsHandler(kind)
  BY <1>2 DEF Perform, IsHandler, Leaves
<1>3. CASE kind = "ignore" \/ (kind = "default" /\ Top(t).sig = Cont)
  BY <1>3 DEF Perform, IsHandler, Leaves
<1>4. CASE kind = "default" /\ Top(t).sig # Cont
  <2>1. Goto(t, "default")
    BY <1>4 DEF Perform, IsHandler
  <2> QED
    BY <1>4, <2>1, GotoLeaves DEF Labels
<1> QED
  BY <1>1, <1>2, <1>3, <1>4 DEF IsHandler

\* A handler's steps hand a stop's cover on: from the mark to
\* stopped_handlers, from there to the frame that took it, which puts the wrapper back.
LEMMA ManagedWrapper ==
  ASSUME TypeOK, ManagedInv, NEW t \in Threads, WrapperStep(t) PROVE ManagedInv'
<1> USE DEF registry, records, world, history
<1> DEFINE top == Top(t)
<1>1. /\ stack[t] # <<>> /\ top \in Frames /\ top.sig \in Signals /\ top.todo \subseteq Signals
      /\ UNCHANGED <<dispatcher, lifecycle, handlers_installed>>
      /\ lifecycle.at = "idle" /\ handlers_installed /\ ContInv /\ StopInv
      /\ stopped \subseteq Stops /\ Stops \subseteq Signals /\ Cont \in Signals /\ Cont \notin Stops
      /\ disposition \in [Signals -> Kinds] /\ pipe \in Seq(Record) /\ top.next \in Signals
  BY WrapperAccounts, FrameTypes, SignalsAssumption DEF ManagedInv, TypeOK, Signals
<1>2. Continues(top)
  <2>1. 1 \in 1..Len(stack[t])
    BY <1>1 DEF TypeOK
  <2>2. top \in Active
    BY <1>1, <2>1 DEF Active, Top
  <2> QED
    BY <1>1, <2>2 DEF ContInv
<1>3. ASSUME Leaves(t), disposition'[Cont] = "wrapper",
             \A k \in 1..Len(pipe') : pipe'[k].sig # Cont, StopInv'
      PROVE  ManagedInv'
  BY <1>1, <1>3, LeavesActive DEF ManagedInv, ContInv
<1>4. ASSUME Leaves(t), UNCHANGED <<disposition, stopped, process, continued>>,
             \A k \in 1..Len(pipe') : pipe'[k].sig # Cont,
             top.at \notin {"exchange", "installed", "rearm", "put", "mark", "raise"}
      PROVE  ManagedInv'
  <2>1. Active \subseteq Active' \cup {top}
    BY <1>1, <1>4, LeavesActive
  <2>2. \A s : ~Covers(top, s) /\ ~Rouses(top, s)
    BY <1>4 DEF Covers, Rouses
  <2> HIDE DEF top
  <2>3. StopInv'
    BY <1>1, <1>4, <2>1, <2>2, StopKept
  <2> QED
    BY <1>1, <1>3, <1>4, <2>3 DEF ContInv
<1>5. CASE Write(t)
  <2>1. top.at = "write" /\ UNCHANGED <<disposition, stopped, process, continued>>
    BY <1>5 DEF Write, At, Top
  <2>2. top.sig # Cont
    BY <1>2, <2>1 DEF Continues
  <2>3. CASE Pop(t) /\ pipe' = pipe
    BY <1>1, <1>4, <2>1, <2>3 DEF Leaves, ContInv
  <2>4. CASE Pop(t) /\ pipe' = Append(pipe, [sig |-> top.sig, info |-> top.info])
    <3> DEFINE r == [sig |-> top.sig, info |-> top.info]
    <3>1. r.sig # Cont
      BY <2>2
    <3> HIDE DEF r
    <3>2. pipe' = Append(pipe, r)
      BY <2>4 DEF r
    <3>3. \A k \in 1..Len(pipe') : (k \in 1..Len(pipe) /\ pipe'[k] = pipe[k]) \/ pipe'[k] = r
      BY <1>1, <3>2
    <3>4. \A k \in 1..Len(pipe') : pipe'[k].sig # Cont
      BY <1>1, <3>1, <3>3 DEF ContInv
    <3> QED
      BY <1>4, <2>1, <2>4, <3>4 DEF Leaves
  <2>5. CASE Goto(t, "forward") /\ pipe' = pipe
    BY <1>1, <1>4, <2>1, <2>5, GotoLeaves DEF ContInv, Labels
  <2> QED
    BY <1>5, <2>3, <2>4, <2>5 DEF Write
<1>6. CASE Exchange(t)
  <2> DEFINE f == [top EXCEPT !.at = "installed", !.todo = stopped]
  <2>1. /\ UNCHANGED <<disposition, pipe>> /\ stopped' = {} /\ top.at = "exchange"
        /\ Replaced(t, f)
    BY <1>1, <1>6, ExchangeReplaces DEF Exchange, At, Top
  <2>2. f \in Frames /\ f.at = "installed" /\ f.todo = stopped
    BY <1>1 DEF Frames, Labels
  <2> HIDE DEF f
  <2>3. Leaves(t) /\ f \in Active' /\ Active \subseteq Active' \cup {top}
    BY <1>1, <2>1, <2>2, ReplaceActive DEF Leaves, Continues
  <2>4. \A s \in stopped : Covered(s)'
    BY <2>2, <2>3 DEF Covered, Covers
  <2>5. \A s : Covered(s) => Covered(s)'
    BY <2>1, <2>3 DEF Covered, Covers
  <2>6. StopInv'
    BY <1>1, <2>1, <2>4, <2>5 DEF StopInv
  <2> QED
    BY <1>1, <1>3, <2>1, <2>3, <2>6 DEF ContInv
<1>7. CASE RearmInstalled(t)
  <2> DEFINE f == [top EXCEPT !.at = "rearm"]
  <2>1. /\ UNCHANGED <<disposition, pipe, stopped, process, continued>> /\ top.at = "installed"
        /\ Goto(t, "rearm")
    BY <1>1, <1>7 DEF RearmInstalled, At, Top
  <2>2. f \in Active' /\ Leaves(t) /\ Active \subseteq Active' \cup {top}
    BY <1>1, <2>1, GotoLeaves, LeavesActive DEF Labels
  <2>3. f.at = "rearm" /\ f.todo = top.todo
    BY <1>1 DEF Frames
  <2> HIDE DEF f, top
  <2>4. \A s : Covers(top, s) => Covered(s)'
    BY <2>1, <2>2, <2>3 DEF Covers, Covered
  <2>5. \A s : ~Rouses(top, s)
    BY <2>1 DEF Rouses
  <2>6. StopInv'
    BY <1>1, <2>1, <2>2, <2>4, <2>5, StopKept
  <2> QED
    BY <1>1, <1>3, <2>1, <2>2, <2>6 DEF ContInv
<1>8. CASE RearmCheck(t)
  <2>1. UNCHANGED <<disposition, pipe, stopped, process, continued>> /\ top.at = "rearm"
    BY <1>8 DEF RearmCheck, At, Top
  <2>2. \A s : ~Rouses(top, s)
    BY <2>1 DEF Rouses
  <2>3. CASE top.todo = {} /\ Goto(t, "forward")
    <3>1. Leaves(t) /\ Active \subseteq Active' \cup {top}
      BY <1>1, <2>3, GotoLeaves, LeavesActive DEF Labels
    <3>2. \A s : ~Covers(top, s)
      BY <2>1, <2>3 DEF Covers
    <3> HIDE DEF top
    <3>3. StopInv'
      BY <1>1, <2>1, <2>2, <3>1, <3>2, StopKept
    <3> QED
      BY <1>1, <1>3, <2>1, <3>1, <3>3 DEF ContInv
  <2>4. ASSUME NEW s \in top.todo, stack' = [stack EXCEPT ![t][1] = Checked(top, s)]
        PROVE  ManagedInv'
    <3> DEFINE f == Checked(top, s)
    <3>1. /\ f \in Frames /\ f.next = s /\ f.todo = top.todo \ {s}
          /\ f.at = IF disposition[s] = "default" THEN "put" ELSE "rearm"
      BY <1>1, <2>4 DEF Checked, Frames, Labels
    <3>2. Replaced(t, f)
      BY <2>4 DEF Replaced
    <3> HIDE DEF f
    <3>3. Leaves(t) /\ f \in Active' /\ Active \subseteq Active' \cup {top}
      BY <1>1, <3>1, <3>2, ReplaceActive DEF Leaves, Continues
    <3>4. \A q \in Stops : disposition[q] = "default" /\ Covers(top, q) => Covered(q)'
      BY <2>1, <3>1, <3>3 DEF Covers, Covered
    <3> HIDE DEF top
    <3>5. StopInv'
      BY <1>1, <2>1, <2>2, <3>3, <3>4, StopKept
    <3> QED
      BY <1>1, <1>3, <2>1, <3>3, <3>5 DEF ContInv
  <2> QED
    BY <1>8, <2>3, <2>4 DEF RearmCheck
<1>9. CASE RearmPut(t)
  <2> DEFINE f == [top EXCEPT !.at = "rearm"]
  <2>1. /\ UNCHANGED <<pipe, stopped, process, continued>> /\ top.at = "put"
        /\ Goto(t, "rearm") /\ disposition' = [disposition EXCEPT ![top.next] = "wrapper"]
    BY <1>1, <1>9 DEF RearmPut, At, Top
  <2>2. f \in Active' /\ Leaves(t) /\ Active \subseteq Active' \cup {top}
    BY <1>1, <2>1, GotoLeaves, LeavesActive DEF Labels
  <2>3. f.at = "rearm" /\ f.todo = top.todo
    BY <1>1 DEF Frames
  <2>4. \A s \in Signals : disposition'[s] = IF s = top.next THEN "wrapper" ELSE disposition[s]
    BY <1>1, <2>1
  <2> HIDE DEF f, top
  <2>5. \A s : s # top.next /\ Covered(s) => Covered(s)'
    BY <2>1, <2>2, <2>3 DEF Covers, Covered
  <2>6. \A s : Roused(s) => Roused(s)'
    BY <2>1, <2>2 DEF Rouses, Roused
  <2>7. StopInv'
    BY <1>1, <2>1, <2>4, <2>5, <2>6 DEF StopInv
  <2> QED
    BY <1>1, <1>3, <2>1, <2>2, <2>4, <2>7 DEF ContInv
<1>10. CASE Forward(t)
  <2>1. UNCHANGED <<disposition, pipe, stopped, process, continued>> /\ top.at = "forward"
    BY <1>10 DEF Forward, At, Top
  <2>2. CASE Goto(t, "claim")
    BY <1>1, <1>4, <2>1, <2>2, GotoLeaves DEF Labels, ContInv
  <2>3. CASE Perform(t, Effective(top.sig))
    BY <1>1, <1>4, <2>1, <2>3, PerformLeaves DEF ContInv
  <2> QED
    BY <1>10, <2>2, <2>3 DEF Forward
<1>11. CASE Claim(t)
  <2>1. UNCHANGED <<disposition, pipe, stopped, process, continued>> /\ top.at = "claim"
    BY <1>11 DEF Claim, At, Top
  <2>2. Perform(t, "default") \/ Perform(t, "once")
    BY <1>11 DEF Claim
  <2> QED
    BY <1>1, <1>4, <2>1, <2>2, PerformLeaves DEF ContInv
<1>12. CASE SetDefault(t)
  <2>1. /\ UNCHANGED <<pipe, stopped, process, continued>> /\ top.at = "default"
        /\ disposition' = [disposition EXCEPT ![top.sig] = "default"]
        /\ Goto(t, IF top.sig \in Stops THEN "mark" ELSE "raise")
    BY <1>12 DEF SetDefault, At, Top
  <2>2. top.sig # Cont
    BY <1>2, <2>1 DEF Continues
  <2>3. PICK sig \in Signals : sig = top.sig
    BY <1>1
  <2>4. \A s \in Signals : disposition'[s] = IF s = sig THEN "default" ELSE disposition[s]
    BY <1>1, <2>1, <2>3
  <2>5. Leaves(t) /\ Active \subseteq Active' \cup {top}
    BY <1>1, <2>1, <2>2, GotoLeaves, LeavesActive DEF Labels
  <2>6. ASSUME sig \in Stops PROVE Covered(sig)' /\ Roused(sig)'
    <3>1. Goto(t, "mark")
      BY <2>1, <2>3, <2>6
    <3>2. PICK f \in Active' : f = [top EXCEPT !.at = "mark"]
      BY <1>1, <2>2, <2>3, <2>6, <3>1, GotoLeaves DEF Labels
    <3>3. f.at = "mark" /\ f.sig = sig
      BY <1>1, <2>3, <3>2 DEF Frames
    <3> QED
      BY <3>3 DEF Covered, Covers, Roused, Rouses
  <2> HIDE DEF top
  <2>7. \A s : (Covered(s) => Covered(s)') /\ (Roused(s) => Roused(s)')
    BY <2>1, <2>5 DEF Covers, Covered, Rouses, Roused
  <2>8. StopInv'
    BY <1>1, <2>1, <2>4, <2>6, <2>7 DEF StopInv
  <2> QED
    BY <1>1, <1>3, <2>1, <2>2, <2>3, <2>4, <2>5, <2>8 DEF ContInv
<1>13. CASE MarkStopped(t)
  <2>1. /\ UNCHANGED <<disposition, pipe, process, continued>> /\ top.at = "mark"
        /\ stopped' = stopped \cup {top.sig} /\ Goto(t, "raise")
    BY <1>13 DEF MarkStopped, Remember, At, Top
  <2>2. top.sig # Cont
    BY <1>2, <2>1 DEF Continues
  <2>3. PICK sig \in Signals : sig = top.sig
    BY <1>1
  <2>4. PICK f \in Active' : f = [top EXCEPT !.at = "raise"]
    BY <1>1, <2>1, <2>2, GotoLeaves DEF Labels
  <2>5. f.at = "raise" /\ f.sig = sig
    BY <1>1, <2>3, <2>4 DEF Frames
  <2>6. Leaves(t) /\ Active \subseteq Active' \cup {top}
    BY <1>1, <2>1, <2>2, GotoLeaves, LeavesActive DEF Labels
  <2> HIDE DEF top
  <2>7. \A s : s # sig /\ Covered(s) => Covered(s)'
    BY <2>1, <2>3, <2>6 DEF Covers, Covered
  <2>8. Roused(sig)' /\ \A s : s # sig /\ Roused(s) => Roused(s)'
    BY <2>1, <2>3, <2>5, <2>6 DEF Rouses, Roused
  <2>9. StopInv'
    BY <1>1, <2>1, <2>3, <2>7, <2>8 DEF StopInv
  <2> QED
    BY <1>1, <1>3, <2>1, <2>6, <2>9 DEF ContInv
<1>14. CASE Raise(t)
  <2>1. /\ UNCHANGED <<pipe, stopped>> /\ top.at = "raise" /\ process = "running"
    BY <1>14 DEF Raise, At, Top
  <2>2. top.sig # Cont
    BY <1>2, <2>1 DEF Continues
  <2>3. \A s : ~Covers(top, s) /\ (Rouses(top, s) => s = top.sig)
    BY <2>1 DEF Covers, Rouses
  <2>4. CASE disposition[top.sig] = "wrapper"
    <3>1. Replaced(t, Invocation(t, top.sig, 0)) /\ UNCHANGED <<disposition, process, continued>>
      BY <1>14, <2>4 DEF Raise, Replaced
    <3>2. Invocation(t, top.sig, 0) \in Frames
      BY <1>1, InvocationType
    <3>3. Leaves(t)
      BY <3>1, <3>2, InvocationContinues DEF Leaves
    <3>4. Active \subseteq Active' \cup {top}
      BY <1>1, <3>3, LeavesActive
    <3> HIDE DEF top
    <3>5. StopInv'
      BY <1>1, <2>1, <2>3, <2>4, <3>1, <3>4, StopKept
    <3> QED
      BY <1>1, <1>3, <2>1, <3>1, <3>3, <3>5 DEF ContInv
  <2>5. CASE disposition[top.sig] # "wrapper"
    <3>1. Native(top.sig) /\ Pop(t)
      BY <1>14, <2>5 DEF Raise
    <3>2. Leaves(t) /\ Active \subseteq Active' \cup {top}
      BY <1>1, <3>1, LeavesActive DEF Leaves
    <3> HIDE DEF top
    <3>3. /\ disposition'[Cont] = "wrapper" /\ \A q \in Stops : disposition'[q] = disposition[q]
          /\ \/ process' # "running"
             \/ process' = process /\ continued' = continued /\ top.sig \notin Stops
      BY <1>1, <2>1, <2>2, <2>5, <3>1, NativeStops
    <3>4. StopInv'
      BY <1>1, <2>1, <2>3, <3>2, <3>3, StopKept
    <3> QED
      BY <1>1, <1>3, <2>1, <3>2, <3>3, <3>4 DEF ContInv
  <2> QED
    BY <2>4, <2>5
<1> QED
  BY <1>5, <1>6, <1>7, <1>8, <1>9, <1>10, <1>11, <1>12, <1>13, <1>14 DEF WrapperStep

\* A delivery of SIGCONT that consumes the pending one starts an exchange.
LEMMA ManagedDeliver ==
  ASSUME TypeOK, LiveInv, ManagedInv, NEW t \in Threads, NEW s \in Signals, Deliver(t, s)
  PROVE  ManagedInv'
<1>1. /\ UNCHANGED <<lifecycle, handlers_installed, pipe, dispatcher, stopped>>
      /\ ContInv /\ StopInv /\ stopped \subseteq Stops /\ arrived + 1 \in Nat
      /\ process = "running" /\ Cont \notin Stops
  BY SignalsAssumption DEF Deliver, registry, ManagedInv, TypeOK
<1>2. CASE disposition[s] = "wrapper"
  <2> DEFINE f == Invocation(t, s, arrived + 1)
  <2>1. /\ Push(t, f) /\ UNCHANGED <<disposition, process>> /\ continued' = (continued /\ s # Cont)
        /\ f \in Frames /\ Continues(f)
    BY <1>1, <1>2, InvocationType, InvocationContinues DEF Deliver
  <2>2. ~Takes(t, Cont)
    BY DEF Takes, LiveInv, RecordIsLive, Replay, ManagedInv, ContInv
  <2>3. s = Cont => f.at = "exchange"
    BY <2>2 DEF Invocation, Frame, Label
  <2> HIDE DEF f
  <2>4. Active' = Active \cup {f}
    BY <2>1, PushActive
  <2>5. \A q : (Covered(q) => Covered(q)') /\ (Roused(q) => Roused(q)')
    BY <2>4 DEF Covered, Roused
  <2>6. ASSUME NEW q, continued PROVE continued' \/ Roused(q)'
    BY <2>1, <2>3, <2>4, <2>6 DEF Roused, Rouses, TypeOK
  <2>7. StopInv'
    BY <1>1, <2>1, <2>5, <2>6 DEF StopInv
  <2> QED
    BY <1>1, <2>1, <2>4, <2>7 DEF ManagedInv, ContInv
<1>3. CASE disposition[s] # "wrapper"
  <2>1. s # Cont /\ Native(s) /\ UNCHANGED stack
    BY <1>3 DEF Deliver, ManagedInv, ContInv
  <2>2. /\ disposition'[Cont] = "wrapper" /\ \A q \in Stops : disposition'[q] = disposition[q]
        /\ process' # "running" \/ (process' = process /\ continued' = continued)
    BY <1>1, <1>3, <2>1, NativeStops
  <2>3. Active' = Active
    BY <2>1, SameActive
  <2>4. \A q : (Covered(q) => Covered(q)') /\ (Roused(q) => Roused(q)')
    BY <2>3 DEF Covered, Roused
  <2>5. StopInv'
    BY <1>1, <2>2, <2>4 DEF StopInv
  <2> QED
    BY <1>1, <2>2, <2>3, <2>5 DEF ManagedInv, ContInv
<1> QED
  BY <1>2, <1>3

\* The dispatcher's steps put no wrapper and mark no stop.
LEMMA ManagedDispatcher ==
  ASSUME TypeOK, ManagedInv, DispatcherStep PROVE ManagedInv'
<1> USE DEF registry, records, world, history
<1>1. /\ ContInv /\ StopInv /\ Dispatcher \in Threads /\ pipe \in Seq(Record)
      /\ dispatcher.rec.sig \in Signals /\ dispatcher.rec.info \in Nat
      /\ stopped \subseteq Stops /\ lifecycle.at = "idle" /\ handlers_installed /\ Cont \in Signals
  BY DEF ManagedInv, TypeOK, Threads, Record, Signals
<1>2. UNCHANGED <<lifecycle, handlers_installed, stopped>>
  BY DEF DispatcherStep, Read, Exit, Replaying, ReplayRaise, Replayed
<1>3. ASSUME UNCHANGED <<disposition, process, continued>>, Active \subseteq Active'
      PROVE  StopInv' /\ disposition'[Cont] = "wrapper"
  <2>1. \A q : (Covered(q) => Covered(q)') /\ (Roused(q) => Roused(q)')
    BY <1>3 DEF Covered, Roused
  <2> QED
    BY <1>1, <1>2, <1>3, <2>1 DEF StopInv, ContInv
<1>4. CASE Read
  <2>1. /\ pipe # <<>> /\ pipe' = Tail(pipe) /\ dispatcher' = [at |-> "taken", rec |-> Head(pipe)]
        /\ UNCHANGED <<disposition, process, continued, stack>>
    BY <1>4 DEF Read
  <2>2. Head(pipe) = pipe[1] /\ 1 \in 1..Len(pipe)
        /\ \A k \in 1..Len(pipe') : k + 1 \in 1..Len(pipe) /\ pipe'[k] = pipe[k + 1]
    BY <1>1, <2>1
  <2>3. dispatcher'.rec.sig # Cont /\ \A k \in 1..Len(pipe') : pipe'[k].sig # Cont
    BY <1>1, <2>1, <2>2 DEF ContInv
  <2>4. Active' = Active
    BY <2>1, SameActive
  <2>5. StopInv' /\ disposition'[Cont] = "wrapper"
    BY <1>3, <2>1, <2>4
  <2> QED
    BY <1>1, <1>2, <2>3, <2>4, <2>5 DEF ManagedInv, ContInv
<1>5. ASSUME UNCHANGED pipe, StopInv', disposition'[Cont] = "wrapper",
             dispatcher'.rec = dispatcher.rec,
             \/ dispatcher'.at \in {"none", "read", "done"}
             \/ dispatcher.at \in {"taken", "replay", "replayed"},
             \A f \in Active' : f \in Active \/ Continues(f)
      PROVE  ManagedInv'
  BY <1>1, <1>2, <1>5 DEF ManagedInv, ContInv
<1>6. CASE Exit \/ Replayed
  <2>1. /\ UNCHANGED <<disposition, process, continued, stack, pipe>>
        /\ dispatcher'.rec = dispatcher.rec /\ dispatcher'.at \in {"read", "done"}
    BY <1>6 DEF Exit, Replayed, Dispatch, TypeOK
  <2>2. Active' = Active
    BY <2>1, SameActive
  <2> QED
    BY <1>3, <1>5, <2>1, <2>2
<1>7. CASE Replaying
  <2>1. /\ UNCHANGED <<disposition, process, continued, pipe>> /\ dispatcher.at = "taken"
        /\ dispatcher'.rec = dispatcher.rec
    BY <1>7 DEF Replaying, Dispatch, Dispatching, TypeOK
  <2>2. Active \subseteq Active' /\ \A f \in Active' : f \in Active \/ Continues(f)
    <3>1. CASE UNCHANGED stack
      BY <3>1, SameActive
    <3>2. CASE Push(Dispatcher, Frame(dispatcher.rec.sig, dispatcher.rec.info, "forward"))
      <4> DEFINE f == Frame(dispatcher.rec.sig, dispatcher.rec.info, "forward")
      <4>1. f \in Frames /\ Continues(f)
        BY <1>1 DEF Frame, Frames, Labels, Continues
      <4> HIDE DEF f
      <4>2. Push(Dispatcher, f)
        BY <3>2 DEF f
      <4>3. Active' = Active \cup {f}
        BY <1>1, <4>1, <4>2, PushActive
      <4> QED
        BY <4>1, <4>3
    <3> QED
      BY <1>7, <3>1, <3>2 DEF Replaying
  <2> QED
    BY <1>3, <1>5, <2>1, <2>2
<1>8. CASE ReplayRaise
  <2>1. /\ UNCHANGED pipe /\ dispatcher.at = "replay" /\ dispatcher'.rec = dispatcher.rec
        /\ process = "running"
    BY <1>8 DEF ReplayRaise, Dispatch, Dispatching, TypeOK
  <2>2. PICK s \in Signals : s = dispatcher.rec.sig
    BY <1>1
  <2>3. s # Cont
    BY <1>1, <2>1, <2>2 DEF ContInv
  <2>4. CASE disposition[s] = "wrapper"
    <3> DEFINE f == Invocation(Dispatcher, s, 0)
    <3>1. f \in Frames /\ Continues(f)
      BY <1>1, InvocationType, InvocationContinues
    <3>2. Push(Dispatcher, f) /\ UNCHANGED <<disposition, process, continued>>
      BY <1>8, <2>2, <2>4 DEF ReplayRaise
    <3> HIDE DEF f
    <3>3. Active' = Active \cup {f}
      BY <1>1, <3>1, <3>2, PushActive
    <3> QED
      BY <1>3, <1>5, <2>1, <3>1, <3>2, <3>3
  <2>5. CASE disposition[s] # "wrapper"
    <3>1. Native(s) /\ UNCHANGED stack
      BY <1>8, <2>2, <2>5 DEF ReplayRaise
    <3>2. Active' = Active
      BY <3>1, SameActive
    <3>3. /\ disposition'[Cont] = "wrapper" /\ \A q \in Stops : disposition'[q] = disposition[q]
          /\ process' # "running" \/ (process' = process /\ continued' = continued)
      BY <2>1, <2>3, <2>5, <3>1, NativeStops
    <3>4. \A q : (Covered(q) => Covered(q)') /\ (Roused(q) => Roused(q)')
      BY <3>2 DEF Covered, Roused
    <3>5. StopInv'
      BY <1>1, <1>2, <3>3, <3>4 DEF StopInv
    <3> QED
      BY <1>5, <2>1, <3>2, <3>3, <3>5
  <2> QED
    BY <2>4, <2>5
<1> QED
  BY <1>4, <1>6, <1>7, <1>8 DEF DispatcherStep

\* Every step keeps the cover and the continuation.
LEMMA ManagedStep ==
  ASSUME Unregistered PROVE TypeOK /\ LiveInv /\ ManagedInv /\ [Next]_vars => ManagedInv'
<1> SUFFICES ASSUME TypeOK, LiveInv, ManagedInv, [Next]_vars PROVE ManagedInv'
  OBVIOUS
<1> USE DEF registry, records, world, history
<1>1. ~OwnerStep /\ ~Install /\ ~InstallFailed /\ ~Uninstall /\ ~(\E s \in Signals : Register(s))
  BY DEF OwnerStep, Create, Wrap, CloseWrite, Join, Uncovered, PutBack, Install, InstallFailed,
         Uninstall, Register, Lifecycle, Unregistered, NoLifecycle, ManagedInv
<1>2. CASE Continue \/ Open \/ UNCHANGED vars
  <2>1. /\ UNCHANGED <<disposition, stopped, handlers_installed, lifecycle, pipe, dispatcher, stack>>
        /\ UNCHANGED <<process, continued>> \/ continued'
    BY <1>2 DEF Continue, Open, vars
  <2>2. Active' = Active
    BY <2>1, SameActive
  <2>3. \A q : (Covered(q) => Covered(q)') /\ (Roused(q) => Roused(q)')
    BY <2>2 DEF Covered, Roused
  <2> QED
    BY <2>1, <2>2, <2>3 DEF ManagedInv, ContInv, StopInv
<1> QED
  BY <1>1, <1>2, ManagedWrapper, ManagedDeliver, ManagedDispatcher DEF Next

\* Whatever stops and continues the process, with any nesting, on any thread and
\* across replays: once nothing is in flight every stop signal has its wrapper.
THEOREM ManagedTheorem == ASSUME Unregistered PROVE Spec => []WrappersInPlace
<1>1. TypeOK /\ ManagedInv /\ IsFiniteSet(Invocations) => WrappersInPlace
  <2> SUFFICES ASSUME TypeOK, ManagedInv, IsFiniteSet(Invocations) PROVE WrappersInPlace
    OBVIOUS
  <2>1. ASSUME Quiet, NEW s \in Stops PROVE disposition[s] = "wrapper"
    <3>1. Active = {}
      BY <2>1, NoneInFlight DEF Quiet
    <3>2. ~Covered(s) /\ ~Roused(s)
      BY <3>1 DEF Covered, Roused
    <3> QED
      BY <2>1, <3>2 DEF Quiet, ManagedInv, StopInv
  <2> QED
    BY <2>1 DEF WrappersInPlace, StopsStayManaged, WrappersRemoved, ManagedInv
<1>2. NoLifecycle
  BY DEF Unregistered
<1>3. Init => ManagedInv
  BY <1>2, ManagedInit
<1>4. TypeOK /\ LiveInv /\ ManagedInv /\ [Next]_vars => ManagedInv'
  BY ManagedStep
<1> QED
  BY <1>1, <1>3, <1>4, FiniteInit, FiniteStep, LiveInit, LiveStep, TypesHold, PTL DEF Spec

-----------------------------------------------------------------------------
(* Wrappers and removals, when the application handles or ignores the stops.  *)
(* No handler then rearms anything, so a wrapper is put in place by the       *)
(* installation alone; a removal has taken back every one that it has passed. *)
Handled == {s \in Signals : \A f \in Application : f[s] \in {"ignore", "handler"}}
HandledStops == Stops \subseteq Handled

Plain(f) ==
  /\ f.at # "put" /\ f.todo = {}
  /\ f.at \in {"claim", "default", "mark", "raise"} => f.sig \notin Handled
Undefaulted(kind) == kind # "default" /\ kind # "once"

PlainInv ==
  /\ stopped = {} /\ \A s \in Handled : s \notin consumed
  /\ \A f \in Active : Plain(f)
  /\ \A s \in Handled : Undefaulted(disposition[s]) /\ Undefaulted(prior[s])
  /\ \A s \in Signals : prior[s] # "wrapper"

\* The signals that the owner's step has yet to wrap or to put back.
Unwrapped == IF lifecycle.at = "wrap" THEN lifecycle.todo ELSE {}
Remaining == IF lifecycle.at = "restore" THEN lifecycle.todo
             ELSE IF lifecycle.at = "put" THEN lifecycle.todo \cup {lifecycle.next}
             ELSE {}
OwnerInv ==
  /\ \/ lifecycle.at \in {"create", "restore", "put"}
     \/ lifecycle.at = "idle" /\ ~handlers_installed
     => \A s \in Signals \ Remaining : disposition[s] # "wrapper"
  /\ \/ lifecycle.at = "wrap"
     \/ lifecycle.at = "idle" /\ handlers_installed
     => \A s \in Handled \ Unwrapped : disposition[s] = "wrapper" \/ disposition[s] = "later"
  /\ lifecycle.at = "put" =>
       /\ lifecycle.kind # "wrapper" /\ (lifecycle.next \in Handled => Undefaulted(lifecycle.kind))
       /\ disposition[lifecycle.next] # "later"
  /\ lifecycle.at \in {"create", "close", "join", "restore", "put"} => ~handlers_installed
RemovalInv == PlainInv /\ OwnerInv

\* At the start the stops are handled or ignored, or wrapped.
LEMMA RemovalInit == Init => RemovalInv
<1> SUFFICES ASSUME Init PROVE RemovalInv
  OBVIOUS
<1>1. /\ \A s \in Handled : Undefaulted(prior[s]) /\ s \in Signals
      /\ \A s \in Signals : prior[s] # "wrapper"
  BY OptionsAssumption DEF Init, Handled, Undefaulted, Signals
<1>2. PlainInv
  BY <1>1, NoActive DEF Init, PlainInv, Undefaulted
<1>3. OwnerInv
  BY <1>1 DEF Init, OwnerInv, Idle, Unwrapped, Remaining
<1> QED
  BY <1>2, <1>3 DEF RemovalInv

\* A delivery by the system, or a default action put back, gives no signal the
\* wrapper and leaves the stops alone.
Lowers == \A s \in Signals : \/ disposition'[s] = disposition[s]
                             \/ s \notin Handled /\ disposition'[s] \notin {"wrapper", "later"}

\* The system's own delivery does nothing else to the dispositions.
LEMMA NativeLowers ==
  ASSUME TypeOK, PlainInv, NEW s \in Signals, Native(s) PROVE Lowers
<1>1. CASE disposition[s] = "once"
  BY <1>1 DEF Native, PlainInv, Undefaulted, Lowers, TypeOK
<1>2. CASE disposition[s] # "once"
  BY <1>2 DEF Native, Lowers
<1> QED
  BY <1>1, <1>2

\* Such a step keeps the invariant if the frames stay plain.
LEMMA RemovalKept ==
  ASSUME TypeOK, RemovalInv, UNCHANGED <<prior, stopped, handlers_installed, lifecycle>>, Lowers,
         \A s \in Handled : s \notin consumed', \A f \in Active' : Plain(f)
  PROVE  RemovalInv' /\ Lowers
<1>1. Handled \subseteq Signals
  BY DEF Handled
<1>2. PlainInv'
  BY <1>1 DEF RemovalInv, PlainInv, Lowers
<1>3. Remaining' = Remaining /\ Unwrapped' = Unwrapped
  BY DEF Remaining, Unwrapped
<1>4. OwnerInv'
  BY <1>1, <1>3 DEF RemovalInv, OwnerInv, Lowers, TypeOK, Lifecycles
<1> QED
  BY <1>2, <1>4 DEF RemovalInv

\* What a handler's step leaves on its stack is plain again.
LeavesPlain(t) == Pop(t) \/ \E f \in Frames : Replaced(t, f) /\ Plain(f)

\* A new invocation is plain.
LEMMA InvocationPlain == ASSUME NEW t, NEW s, NEW i PROVE Plain(Invocation(t, s, i))
  BY DEF Invocation, Frame, Label, Plain

\* A jump keeps a frame plain, outside the paths of a default stop.
LEMMA GotoPlain ==
  ASSUME TypeOK, NEW t \in Threads, stack[t] # <<>>, Plain(Top(t)),
         NEW label \in Labels \ {"put"}, Goto(t, label),
         label \in {"claim", "default", "mark", "raise"} => Top(t).sig \notin Handled,
         label # "mark"
  PROVE  LeavesPlain(t)
<1>1. [Top(t) EXCEPT !.at = label] \in Frames /\ Plain([Top(t) EXCEPT !.at = label])
  BY FrameTypes DEF Frames, Plain
<1>2. Replaced(t, [Top(t) EXCEPT !.at = label])
  BY GotoReplaces
<1> QED
  BY <1>1, <1>2 DEF LeavesPlain

\* Performing a disposition does, too.
LEMMA PerformPlain ==
  ASSUME TypeOK, NEW t \in Threads, stack[t] # <<>>, Plain(Top(t)), NEW kind, Perform(t, kind),
         kind = "default" => Top(t).sig \notin Handled
  PROVE  LeavesPlain(t)
<1>1. CASE kind = "wrapper"
  <2>1. Invocation(t, Top(t).sig, Top(t).info) \in Frames
    BY FrameTypes, InvocationType
  <2>2. Replaced(t, Invocation(t, Top(t).sig, Top(t).info))
    BY <1>1 DEF Perform, Replaced
  <2> QED
    BY <2>1, <2>2, InvocationPlain DEF LeavesPlain
<1>2. CASE kind # "wrapper" /\ IsHandler(kind)
  BY <1>2 DEF Perform, IsHandler, LeavesPlain
<1>3. CASE kind = "ignore" \/ (kind = "default" /\ Top(t).sig = Cont)
  BY <1>3 DEF Perform, IsHandler, LeavesPlain
<1>4. CASE kind = "default" /\ Top(t).sig # Cont
  <2>1. Goto(t, "default")
    BY <1>4 DEF Perform, IsHandler
  <2> QED
    BY <1>4, <2>1, GotoPlain DEF Labels
<1> QED
  BY <1>1, <1>2, <1>3, <1>4 DEF IsHandler

\* A handler's step puts no wrapper in place.
LEMMA RemovalWrapper ==
  ASSUME HandledStops, TypeOK, RemovalInv, NEW t \in Threads, WrapperStep(t)
  PROVE  RemovalInv' /\ Lowers
<1> USE DEF registry, records, world, history
<1> DEFINE top == Top(t)
<1>1. /\ stack[t] # <<>> /\ top \in Frames /\ top.sig \in Signals /\ PlainInv
      /\ UNCHANGED <<lifecycle, handlers_installed>>
  BY WrapperAccounts, FrameTypes DEF RemovalInv
<1>2. Plain(top)
  <2>1. 1 \in 1..Len(stack[t])
    BY <1>1 DEF TypeOK
  <2>2. top \in Active
    BY <1>1, <2>1 DEF Active, Top
  <2> QED
    BY <1>1, <2>2 DEF PlainInv
<1>3. ASSUME LeavesPlain(t) PROVE \A f \in Active' : Plain(f)
  <2>1. CASE Pop(t)
    BY <1>1, <2>1, PopActive DEF PlainInv
  <2>2. ASSUME NEW f \in Frames, Replaced(t, f), Plain(f) PROVE \A g \in Active' : Plain(g)
    BY <1>1, <2>2, ReplaceActive DEF PlainInv
  <2> QED
    BY <1>3, <2>1, <2>2 DEF LeavesPlain
<1>4. ASSUME LeavesPlain(t), Lowers, UNCHANGED <<prior, stopped>>,
             \A s \in Handled : s \notin consumed'
      PROVE  RemovalInv' /\ Lowers
  BY <1>1, <1>3, <1>4, RemovalKept
<1>5. (disposition' = disposition => Lowers) /\ \A s \in Handled : s \notin consumed
  BY <1>1 DEF Lowers, PlainInv
<1>6. CASE Write(t)
  <2>1. UNCHANGED <<disposition, prior, stopped, consumed>>
    BY <1>6 DEF Write
  <2>2. CASE Pop(t)
    BY <1>4, <1>5, <2>1, <2>2 DEF LeavesPlain
  <2>3. CASE Goto(t, "forward")
    <3>1. LeavesPlain(t)
      BY <1>1, <1>2, <2>3, GotoPlain DEF Labels
    <3> QED
      BY <1>4, <1>5, <2>1, <3>1
  <2> QED
    BY <1>6, <2>2, <2>3 DEF Write
<1>7. CASE Exchange(t)
  <2> DEFINE f == [top EXCEPT !.at = "installed", !.todo = stopped]
  <2>1. UNCHANGED <<disposition, prior, consumed>> /\ stopped' = {} /\ stopped = {}
        /\ Replaced(t, f)
    BY <1>1, <1>7, ExchangeReplaces DEF Exchange, PlainInv
  <2>2. f \in Frames /\ Plain(f)
    BY <1>1, <2>1 DEF Frames, Labels, Plain
  <2> QED
    BY <1>4, <1>5, <2>1, <2>2 DEF LeavesPlain
<1>8. CASE RearmInstalled(t)
  <2>1. /\ UNCHANGED <<disposition, prior, stopped, consumed>>
        /\ Goto(t, "rearm") \/ Goto(t, "forward")
    BY <1>8 DEF RearmInstalled
  <2>2. LeavesPlain(t)
    BY <1>1, <1>2, <2>1, GotoPlain DEF Labels
  <2> QED
    BY <1>4, <1>5, <2>1, <2>2
<1>9. CASE RearmCheck(t)
  <2>1. UNCHANGED <<disposition, prior, stopped, consumed>> /\ Goto(t, "forward")
    BY <1>2, <1>9 DEF RearmCheck, Plain
  <2>2. LeavesPlain(t)
    BY <1>1, <1>2, <2>1, GotoPlain DEF Labels
  <2> QED
    BY <1>4, <1>5, <2>1, <2>2
<1>10. ~RearmPut(t) /\ ~MarkStopped(t)
  <2>1. MarkStopped(t) => top.at = "mark"
    BY DEF MarkStopped, At, Top
  <2>2. top.at = "mark" => top.sig \in Stops
    BY <1>1 DEF Frames
  <2> QED
    BY <1>2, <2>1, <2>2 DEF RearmPut, At, Top, Plain, HandledStops
<1>11. CASE Forward(t)
  <2>1. UNCHANGED <<disposition, prior, stopped, consumed>>
    BY <1>11 DEF Forward
  <2>2. top.sig \in Handled => Undefaulted(Effective(top.sig))
    BY <1>1 DEF Effective, PlainInv
  <2>3. CASE Effective(top.sig) = "once" /\ Goto(t, "claim")
    <3>1. LeavesPlain(t)
      BY <1>1, <1>2, <2>2, <2>3, GotoPlain DEF Labels, Undefaulted
    <3> QED
      BY <1>4, <1>5, <2>1, <3>1
  <2>4. CASE Perform(t, Effective(top.sig))
    <3>1. LeavesPlain(t)
      BY <1>1, <1>2, <2>2, <2>4, PerformPlain DEF Undefaulted
    <3> QED
      BY <1>4, <1>5, <2>1, <3>1
  <2> QED
    BY <1>11, <2>3, <2>4 DEF Forward
<1>12. CASE Claim(t)
  <2>1. UNCHANGED <<disposition, prior, stopped>> /\ consumed' = consumed \cup {top.sig}
        /\ top.at = "claim"
    BY <1>12 DEF Claim, At, Top
  <2>2. top.sig \notin Handled
    BY <1>2, <2>1 DEF Plain
  <2>3. Perform(t, "default") \/ Perform(t, "once")
    BY <1>12 DEF Claim
  <2>4. LeavesPlain(t)
    BY <1>1, <1>2, <2>2, <2>3, PerformPlain
  <2> QED
    BY <1>4, <1>5, <2>1, <2>2, <2>4
<1>13. CASE SetDefault(t)
  <2>1. /\ UNCHANGED <<prior, stopped, consumed>> /\ top.at = "default"
        /\ disposition' = [disposition EXCEPT ![top.sig] = "default"]
        /\ Goto(t, IF top.sig \in Stops THEN "mark" ELSE "raise")
    BY <1>13 DEF SetDefault, At, Top
  <2>2. top.sig \notin Handled /\ top.sig \notin Stops
    BY <1>2, <2>1 DEF Plain, HandledStops
  <2>3. LeavesPlain(t)
    BY <1>1, <1>2, <2>1, <2>2, GotoPlain DEF Labels
  <2>4. Lowers
    BY <1>1, <2>1, <2>2 DEF Lowers, TypeOK
  <2> QED
    BY <1>4, <1>5, <2>1, <2>3, <2>4
<1>14. CASE Raise(t)
  <2>1. UNCHANGED <<prior, stopped, consumed>>
    BY <1>14 DEF Raise
  <2>2. CASE disposition[top.sig] = "wrapper"
    <3>1. Replaced(t, Invocation(t, top.sig, 0)) /\ UNCHANGED disposition
      BY <1>14, <2>2 DEF Raise, Replaced
    <3>2. Invocation(t, top.sig, 0) \in Frames
      BY <1>1, InvocationType
    <3>3. LeavesPlain(t)
      BY <3>1, <3>2, InvocationPlain DEF LeavesPlain
    <3> QED
      BY <1>4, <1>5, <2>1, <3>1, <3>3
  <2>3. CASE disposition[top.sig] # "wrapper"
    <3>1. Native(top.sig) /\ LeavesPlain(t)
      BY <1>14, <2>3 DEF Raise, LeavesPlain
    <3> QED
      BY <1>1, <1>4, <1>5, <2>1, <3>1, NativeLowers
  <2> QED
    BY <2>2, <2>3
<1> QED
  BY <1>6, <1>7, <1>8, <1>9, <1>10, <1>11, <1>12, <1>13, <1>14 DEF WrapperStep

\* A delivery puts none in place.
LEMMA RemovalDeliver ==
  ASSUME TypeOK, RemovalInv, NEW t \in Threads, NEW s \in Signals, Deliver(t, s)
  PROVE  RemovalInv' /\ Lowers
<1>1. UNCHANGED <<prior, stopped, consumed, handlers_installed, lifecycle>> /\ PlainInv
      /\ arrived + 1 \in Nat
  BY DEF Deliver, registry, RemovalInv, TypeOK
<1>2. CASE disposition[s] = "wrapper"
  <2>1. Push(t, Invocation(t, s, arrived + 1)) /\ UNCHANGED disposition
    BY <1>2 DEF Deliver
  <2>2. Invocation(t, s, arrived + 1) \in Frames /\ Plain(Invocation(t, s, arrived + 1))
    BY <1>1, InvocationType, InvocationPlain
  <2>3. \A f \in Active' : Plain(f)
    BY <1>1, <2>1, <2>2, PushActive DEF PlainInv
  <2>4. Lowers
    BY <2>1 DEF Lowers
  <2> QED
    BY <1>1, <2>3, <2>4, RemovalKept DEF PlainInv
<1>3. CASE disposition[s] # "wrapper"
  <2>1. Native(s) /\ UNCHANGED stack
    BY <1>3 DEF Deliver
  <2> QED
    BY <1>1, <2>1, NativeLowers, SameActive, RemovalKept DEF PlainInv
<1> QED
  BY <1>2, <1>3

\* The dispatcher puts none in place.
LEMMA RemovalDispatcher ==
  ASSUME TypeOK, RemovalInv, DispatcherStep PROVE RemovalInv' /\ Lowers
<1> USE DEF registry, records, world, history
<1>1. /\ UNCHANGED <<prior, stopped, consumed, handlers_installed, lifecycle>> /\ PlainInv
      /\ Dispatcher \in Threads /\ dispatcher.rec.sig \in Signals /\ dispatcher.rec.info \in Nat
      /\ Cont \in Signals
  BY DEF DispatcherStep, Read, Exit, Replaying, ReplayRaise, Replayed, RemovalInv, TypeOK,
         Threads, Record, Signals
<1>2. ASSUME Lowers, UNCHANGED stack \/ \E f \in Frames : Push(Dispatcher, f) /\ Plain(f)
      PROVE  RemovalInv' /\ Lowers
  <2>1. ASSUME NEW f \in Frames, Push(Dispatcher, f), Plain(f) PROVE \A g \in Active' : Plain(g)
    BY <1>1, <2>1, PushActive DEF PlainInv
  <2>2. \A g \in Active' : Plain(g)
    BY <1>1, <1>2, <2>1, SameActive DEF PlainInv
  <2> QED
    BY <1>1, <1>2, <2>2, RemovalKept DEF PlainInv
<1>3. CASE Read \/ Exit \/ Replayed
  BY <1>2, <1>3 DEF Read, Exit, Replayed, Lowers
<1>4. CASE Replaying
  <2> DEFINE f == Frame(dispatcher.rec.sig, dispatcher.rec.info, "forward")
  <2>1. f \in Frames /\ Plain(f)
    BY <1>1 DEF Frame, Frames, Labels, Plain
  <2>2. UNCHANGED disposition /\ (UNCHANGED stack \/ Push(Dispatcher, f))
    BY <1>4 DEF Replaying
  <2> QED
    BY <1>2, <2>1, <2>2 DEF Lowers
<1>5. CASE ReplayRaise
  <2>1. CASE disposition[dispatcher.rec.sig] = "wrapper"
    <3> DEFINE f == Invocation(Dispatcher, dispatcher.rec.sig, 0)
    <3>1. f \in Frames /\ Plain(f)
      BY <1>1, InvocationType, InvocationPlain
    <3>2. UNCHANGED disposition /\ Push(Dispatcher, f)
      BY <1>5, <2>1 DEF ReplayRaise
    <3> QED
      BY <1>2, <3>1, <3>2 DEF Lowers
  <2>2. CASE disposition[dispatcher.rec.sig] # "wrapper"
    <3>1. Native(dispatcher.rec.sig) /\ UNCHANGED stack
      BY <1>5, <2>2 DEF ReplayRaise
    <3> QED
      BY <1>1, <1>2, <3>1, NativeLowers
  <2> QED
    BY <2>1, <2>2
<1> QED
  BY <1>3, <1>4, <1>5 DEF DispatcherStep

\* The owner's steps: each wrapper is put in place by one of the loop, and taken
\* back by one.
LEMMA RemovalOwner ==
  ASSUME TypeOK, LiveInv, RemovalInv, OwnerStep \/ Install \/ InstallFailed \/ Uninstall
  PROVE  RemovalInv'
<1> USE DEF registry, records, world, history
<1>1. /\ PlainInv /\ OwnerInv /\ UNCHANGED stack /\ Handled \subseteq Signals
      /\ disposition \in [Signals -> Kinds] /\ prior \in [Signals -> Kinds]
      /\ lifecycle \in Lifecycles
  BY DEF RemovalInv, OwnerStep, Create, Wrap, CloseWrite, Join, Uncovered, PutBack, Uninstall,
         Install, InstallFailed, Handled, TypeOK
<1>2. Active' = Active
  BY <1>1, SameActive
<1>3. ASSUME UNCHANGED <<disposition, prior, consumed, stopped>> PROVE PlainInv'
  BY <1>1, <1>2, <1>3 DEF PlainInv
<1>4. CASE Create
  <2>1. /\ lifecycle'.at = "wrap" /\ lifecycle'.todo = Signals /\ handlers_installed'
        /\ UNCHANGED <<disposition, prior, consumed, stopped>>
    BY <1>1, <1>4 DEF Create, Lifecycles
  <2>2. OwnerInv'
    BY <1>1, <2>1 DEF OwnerInv, Unwrapped, Remaining
  <2> QED
    BY <1>3, <2>1, <2>2 DEF RemovalInv
<1>5. CASE Wrap
  <2>1. /\ lifecycle.at = "wrap" /\ handlers_installed /\ UNCHANGED <<prior, consumed, stopped>>
        /\ handlers_installed'
    BY <1>5 DEF Wrap, Lifecycle, LiveInv
  <2>2. CASE lifecycle.todo = {} /\ lifecycle' = Idle /\ UNCHANGED disposition
    <3>1. lifecycle'.at = "idle"
      BY <2>2 DEF Idle
    <3>2. OwnerInv'
      BY <1>1, <2>1, <2>2, <3>1 DEF OwnerInv, Unwrapped, Remaining
    <3> QED
      BY <1>3, <2>1, <2>2, <3>2 DEF RemovalInv
  <2>3. CASE lifecycle' = [Idle EXCEPT !.at = "uninstall"] /\ UNCHANGED disposition
    <3>1. lifecycle'.at = "uninstall"
      BY <2>3 DEF Idle
    <3>2. OwnerInv'
      BY <1>1, <2>1, <3>1 DEF OwnerInv, Unwrapped, Remaining
    <3> QED
      BY <1>3, <2>1, <2>3, <3>2 DEF RemovalInv
  <2>4. ASSUME NEW s \in lifecycle.todo, disposition' = [disposition EXCEPT ![s] = "wrapper"],
               lifecycle' = [lifecycle EXCEPT !.todo = @ \ {s}]
        PROVE  RemovalInv'
    <3>1. lifecycle'.at = "wrap" /\ lifecycle'.todo = lifecycle.todo \ {s}
      BY <1>1, <2>1, <2>4 DEF Lifecycles
    <3>2. \A q \in Signals : disposition'[q] = IF q = s THEN "wrapper" ELSE disposition[q]
      BY <1>1, <2>4
    <3>3. PlainInv'
      BY <1>1, <1>2, <2>1, <3>2 DEF PlainInv, Undefaulted
    <3>4. OwnerInv'
      BY <1>1, <2>1, <3>1, <3>2 DEF OwnerInv, Unwrapped, Remaining
    <3> QED
      BY <3>3, <3>4 DEF RemovalInv
  <2> QED
    BY <1>5, <2>2, <2>3, <2>4 DEF Wrap
<1>6. CASE CloseWrite \/ Uninstall
  <2>1. /\ lifecycle'.at \in {"close", "join"} /\ ~handlers_installed'
        /\ UNCHANGED <<disposition, prior, consumed, stopped>>
    BY <1>1, <1>6 DEF CloseWrite, Uninstall, Step, Lifecycle, Lifecycles, OwnerInv
  <2>2. OwnerInv'
    BY <2>1 DEF OwnerInv
  <2> QED
    BY <1>3, <2>1, <2>2 DEF RemovalInv
<1>7. CASE Join
  <2>1. /\ lifecycle'.at = "restore" /\ lifecycle'.todo = Signals /\ ~handlers_installed'
        /\ UNCHANGED <<disposition, prior, consumed, stopped>>
    BY <1>1, <1>7 DEF Join, Lifecycle, Lifecycles, OwnerInv
  <2>2. OwnerInv'
    BY <2>1 DEF OwnerInv, Remaining
  <2> QED
    BY <1>3, <2>1, <2>2 DEF RemovalInv
<1>8. CASE Uncovered
  <2>1. /\ lifecycle.at = "restore" /\ UNCHANGED <<disposition, prior, consumed, stopped>>
        /\ ~handlers_installed'
    BY <1>1, <1>8 DEF Uncovered, Lifecycle, OwnerInv
  <2>2. CASE lifecycle.todo = {} /\ lifecycle' = Idle
    <3>1. lifecycle'.at = "idle"
      BY <2>2 DEF Idle
    <3>2. OwnerInv'
      BY <1>1, <2>1, <2>2, <3>1 DEF OwnerInv, Remaining
    <3> QED
      BY <1>3, <2>1, <3>2 DEF RemovalInv
  <2>3. ASSUME NEW s \in lifecycle.todo,
               lifecycle' = [lifecycle EXCEPT !.todo = @ \ {s}, !.next = s, !.kind = Effective(s),
                                              !.at = IF Owned(s) THEN "put" ELSE @]
        PROVE  RemovalInv'
    <3>1. /\ lifecycle'.todo = lifecycle.todo \ {s} /\ lifecycle'.next = s
          /\ lifecycle'.kind = Effective(s)
          /\ lifecycle'.at = IF disposition[s] = "wrapper" THEN "put" ELSE "restore"
          /\ s \in Signals
      BY <1>1, <2>1, <2>3 DEF Lifecycles, Owned
    <3>2. Effective(s) # "wrapper" /\ (s \in Handled => Undefaulted(Effective(s)))
      BY <1>1, <3>1 DEF Effective, PlainInv
    <3>3. OwnerInv'
      BY <1>1, <2>1, <3>1, <3>2 DEF OwnerInv, Remaining
    <3> QED
      BY <1>3, <2>1, <3>3 DEF RemovalInv
  <2> QED
    BY <1>8, <2>2, <2>3 DEF Uncovered
<1>9. CASE PutBack
  <2>1. /\ lifecycle.at = "put" /\ lifecycle'.at = "restore" /\ lifecycle'.todo = lifecycle.todo
        /\ lifecycle.next \in Signals /\ ~handlers_installed'
        /\ UNCHANGED <<prior, consumed, stopped>>
        /\ disposition' = [disposition EXCEPT ![lifecycle.next] = lifecycle.kind]
    BY <1>1, <1>9 DEF PutBack, Step, Lifecycle, Lifecycles, OwnerInv
  <2>2. \A q \in Signals : disposition'[q] = IF q = lifecycle.next THEN lifecycle.kind
                                             ELSE disposition[q]
    BY <1>1, <2>1
  <2>3. PlainInv'
    BY <1>1, <1>2, <2>1, <2>2 DEF PlainInv, OwnerInv
  <2>4. OwnerInv'
    BY <1>1, <2>1, <2>2 DEF OwnerInv, Remaining
  <2> QED
    BY <2>3, <2>4 DEF RemovalInv
<1>10. CASE Install
  <2>1. /\ lifecycle.at = "idle" /\ ~handlers_installed /\ lifecycle'.at = "create"
        /\ UNCHANGED <<disposition, handlers_installed>> /\ prior' = disposition
        /\ consumed' = {} /\ stopped' = {}
    BY <1>1, <1>10 DEF Install, Step, Lifecycle, Lifecycles
  <2>2. \A s \in Signals : disposition[s] # "wrapper"
    BY <1>1, <2>1 DEF OwnerInv, Remaining
  <2>3. PlainInv'
    BY <1>1, <1>2, <2>1, <2>2 DEF PlainInv
  <2>4. OwnerInv'
    BY <1>1, <2>1, <2>2 DEF OwnerInv
  <2> QED
    BY <2>3, <2>4 DEF RemovalInv
<1>11. CASE InstallFailed
  <2>1. /\ lifecycle.at = "create" /\ lifecycle'.at = "idle" /\ ~handlers_installed'
        /\ UNCHANGED <<disposition, prior, consumed, stopped>>
    BY <1>1, <1>11 DEF InstallFailed, Lifecycle, Idle, OwnerInv
  <2>2. OwnerInv'
    BY <1>1, <2>1 DEF OwnerInv, Remaining
  <2> QED
    BY <1>3, <2>1, <2>2 DEF RemovalInv
<1> QED
  BY <1>4, <1>5, <1>6, <1>7, <1>8, <1>9, <1>10, <1>11 DEF OwnerStep

\* Every step keeps the invariant.
LEMMA RemovalStep == HandledStops /\ TypeOK /\ LiveInv /\ RemovalInv /\ [Next]_vars => RemovalInv'
<1> SUFFICES ASSUME HandledStops, TypeOK, LiveInv, RemovalInv, [Next]_vars PROVE RemovalInv'
  OBVIOUS
<1> USE DEF registry, records, world, history
<1>1. ASSUME NEW s \in Signals, Register(s) PROVE RemovalInv'
  <2>1. /\ UNCHANGED <<prior, stopped, consumed, handlers_installed, lifecycle, stack>>
        /\ disposition' = [disposition EXCEPT ![s] = "later"] /\ lifecycle.at = "idle"
    BY <1>1 DEF Register
  <2>2. \A q \in Signals : disposition'[q] = IF q = s THEN "later" ELSE disposition[q]
    BY <2>1 DEF TypeOK
  <2>3. Active' = Active /\ Handled \subseteq Signals
    BY <2>1, SameActive DEF Handled
  <2>4. PlainInv'
    BY <2>1, <2>2, <2>3 DEF RemovalInv, PlainInv, Undefaulted
  <2>5. OwnerInv'
    BY <2>1, <2>2, <2>3 DEF RemovalInv, OwnerInv, Remaining, Unwrapped
  <2> QED
    BY <2>4, <2>5 DEF RemovalInv
<1>2. CASE Continue \/ Open \/ UNCHANGED vars
  <2>1. UNCHANGED <<disposition, prior, stopped, consumed, handlers_installed, lifecycle, stack>>
    BY <1>2 DEF Continue, Open, vars
  <2>2. Lowers /\ \A f \in Active' : Plain(f)
    BY <2>1, SameActive DEF Lowers, RemovalInv, PlainInv
  <2> QED
    BY <2>1, <2>2, RemovalKept DEF RemovalInv, PlainInv
<1> QED
  BY <1>1, <1>2, RemovalWrapper, RemovalDeliver, RemovalDispatcher, RemovalOwner DEF Next

\* After a removal, or an installation that failed at any step, no managed signal
\* is set to the wrapper, whatever is delivered, queued or registered meanwhile.
THEOREM RemovalTheorem == ASSUME HandledStops PROVE Spec => []WrappersInPlace
<1>1. RemovalInv => WrappersInPlace
  <2> SUFFICES ASSUME RemovalInv PROVE WrappersInPlace
    OBVIOUS
  <2>1. WrappersRemoved
    BY DEF RemovalInv, OwnerInv, Remaining, WrappersRemoved
  <2>2. StopsStayManaged
    BY DEF RemovalInv, OwnerInv, Unwrapped, StopsStayManaged, HandledStops
  <2> QED
    BY <2>1, <2>2 DEF WrappersInPlace
<1>2. Init => RemovalInv
  BY RemovalInit
<1> QED
  BY <1>1, <1>2, RemovalStep, LiveInit, LiveStep, TypesHold, PTL DEF Spec

\* A handler that the application registered after the installation stays, where
\* what was there before was a handler too, or ignored: only a new installation
\* chains it.
Keeps == [][\A s \in Handled : Registered(s)]_vars
THEOREM KeptTheorem == ASSUME HandledStops PROVE Spec => Keeps
<1>1. ASSUME TypeOK, RemovalInv, [Next]_vars PROVE [\A s \in Handled : Registered(s)]_vars
  <2> USE DEF registry, records, world, history
  <2>0. OwnerInv /\ Handled \subseteq Signals
    BY <1>1 DEF RemovalInv, Handled
  <2>1. ASSUME Lowers PROVE \A s \in Handled : Registered(s)
    BY <2>0, <2>1 DEF Lowers, Registered
  <2>2. ASSUME UNCHANGED disposition PROVE \A s \in Handled : Registered(s)
    BY <2>2 DEF Registered
  <2>3. CASE Wrap
    BY <2>3 DEF Wrap, Lifecycle, Registered
  <2>4. CASE PutBack
    BY <1>1, <2>0, <2>4 DEF PutBack, Lifecycle, Registered, OwnerInv, TypeOK
  <2>5. CASE \E s \in Signals : Register(s)
    BY <1>1, <2>0, <2>5 DEF Register, Registered, TypeOK
  <2>6. CASE \/ Create \/ CloseWrite \/ Join \/ Uncovered \/ Uninstall
             \/ Install \/ InstallFailed \/ Continue \/ Open
    BY <2>2, <2>6 DEF Create, CloseWrite, Join, Uncovered, Uninstall, Install, InstallFailed,
                      Continue, Open
  <2>7. CASE UNCHANGED vars
    BY <2>7
  <2> QED
    BY <1>1, <2>1, <2>3, <2>4, <2>5, <2>6, <2>7, RemovalWrapper, RemovalDeliver,
       RemovalDispatcher DEF Next, OwnerStep
<1>2. Init => RemovalInv
  BY RemovalInit
<1> QED
  BY <1>1, <1>2, RemovalStep, LiveInit, LiveStep, TypesHold, PTL DEF Spec, Keeps

\* An application that handles or ignores every managed signal keeps whatever it
\* registers later: no forwarding, continuation or removal overwrites it.
THEOREM RegistrationTheorem == ASSUME Handled = Signals PROVE Spec => RegistrationsKept
<1>1. HandledStops
  BY DEF HandledStops, Signals
<1>2. Spec => Keeps
  BY <1>1, KeptTheorem
<1>3. [\A s \in Handled : Registered(s)]_vars => [\A s \in Signals : Registered(s)]_vars
  OBVIOUS
<1> QED
  BY <1>2, <1>3, PTL DEF Keeps, RegistrationsKept
=============================================================================
