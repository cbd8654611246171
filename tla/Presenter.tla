----------------------------- MODULE Presenter -----------------------------
(***************************************************************************)
(* The adaptive presenter's transaction: a frame is held back, planned as  *)
(* glass text or painted fullscreen, written with backpressure, and only   *)
(* then committed.  The terminal may be released, lost to the shell and    *)
(* given back between any two steps.                                       *)
(*                                                                         *)
(* What the planner finds in a frame is part of the frame: whether rows    *)
(* are being copied (scroll), whether the change fits glass text (fit) and *)
(* what recovery looks at (trace).  The caller serializes its calls; a     *)
(* call that writes has a step at the I/O gate and one for every write.    *)
(***************************************************************************)
EXTENDS Naturals, Integers, Sequences, FiniteSets, FiniteSetsExt, SequencesExt

CONSTANTS Adaptive, Reversible,           \* the configuration
          Frames,                         \* the frames a run may submit
          Confirm, BlankHold, ScrollHold, \* 100, 200 and 500 ms in ticks of 1/2100 s
          MaxTicks,                       \* the longest frame's ticks: 42 at 50 Hz
          MaxUnits,                       \* the longest output, in units
          MaxEpoch, MaxFlips,             \* bounds on releases and changes of the foreground
          Ids, Capacity, Recent, MaxAge,  \* operations; 32, 64 and 2000 ms in the code
          MaxTaken                        \* bound on the notifications counted

FrameTypes ==
  [ticks : 1..MaxTicks, disabled : BOOLEAN, changed : BOOLEAN,
   scroll : {"none", "copying", "done"}, fit : BOOLEAN,
   trace : [clear : BOOLEAN, foreign : BOOLEAN, advanced : BOOLEAN, text : BOOLEAN,
            frontier : BOOLEAN]]
ASSUME FramesAssumption == Frames \subseteq FrameTypes
ASSUME BoundsAssumption ==
  /\ {Confirm, BlankHold, ScrollHold, MaxTicks, Capacity, Recent, MaxAge} \subseteq Nat \ {0}
  /\ {MaxUnits, MaxEpoch, MaxFlips, MaxTaken} \subseteq Nat
  /\ {Adaptive, Reversible} \subseteq BOOLEAN

VARIABLES p,            \* the presenter
          pc, nonblocking,              \* the call in progress: "idle", "gate", "write"
          foreground, epoch, flips,     \* the terminal: in the foreground, generation
          pending_fullscreen,           \* its count of pending fullscreen outputs
          wire,         \* history: what the terminal has of the output in hand
          result,       \* what the last call returned
          hist          \* history, see Past
pvars == <<p, pc, nonblocking, foreground, epoch, flips, pending_fullscreen, wire, result, hist>>
terminal == <<foreground, epoch, flips>>

NoRecovery == [boundary |-> FALSE, text |-> FALSE, confirming |-> FALSE, ticks |-> 0]
NoStats == [consumed |-> 0, discarded |-> 0, expired |-> 0]
NoNext == [fullscreen |-> FALSE, plan |-> FALSE, recovered |-> FALSE, inside |-> TRUE,
           image |-> 0, queue |-> <<>>, stats |-> NoStats, total |-> 0]
Fresh == [error |-> "ok", initialized |-> FALSE, image |-> 0,
          fullscreen |-> FALSE, fullscreen_resume |-> FALSE, foreground_fullscreen |-> FALSE,
          recovery |-> NoRecovery, pending |-> FALSE, pending_ticks |-> 0,
          disabled_ticks |-> 0, released |-> FALSE, holding |-> FALSE, scroll_ticks |-> 0,
          generation |-> epoch, background |-> ~foreground, cursor_known |-> FALSE,
          echo |-> FALSE, echo_failed |-> FALSE,
          queue |-> <<>>, stats |-> NoStats, recent |-> <<>>,
          output_pending |-> FALSE, next |-> NoNext, written |-> 0, registered |-> FALSE]
Past == [shown |-> 0, dirty |-> FALSE, policy |-> FALSE, overtaken |-> FALSE, taken |-> 0,
         copies |-> -1, blanks |-> 0, wait |-> -1, seen |-> "none", calm |-> -1]

-----------------------------------------------------------------------------
(* Operations on the presenter, as functions of it.                        *)

(* What is left of a queue when only these places of it stay, in order.    *)
Remaining(queue, places) ==
  LET order == CHOOSE o \in [1..Cardinality(places) -> places] :
                 \A i, j \in 1..Cardinality(places) : i < j => o[i] < o[j]
  IN [i \in 1..Cardinality(places) |-> queue[order[i]]]
Discarded(q) == [q EXCEPT !.stats.discarded = @ + Len(q.queue), !.queue = <<>>]

ObservedRemembering(q, background) == q.fullscreen     \* whatever it was before
Remembered(q, background) ==
  IF background /\ ~q.background THEN q.fullscreen ELSE q.foreground_fullscreen

(* observe_terminal: the foreground or the generation has changed. *)
Observed(q) ==
  LET resumes == foreground /\ (q.fullscreen \/ q.foreground_fullscreen)
      r == [q EXCEPT !.foreground_fullscreen = Remembered(q, ~foreground),
                     !.background = ~foreground, !.generation = epoch, !.cursor_known = FALSE]
  IN IF q.background = ~foreground /\ q.generation = epoch THEN q
     ELSE IF q.output_pending /\ q.next.fullscreen THEN [r EXCEPT !.error = "BACKGROUND"]
     ELSE IF q.fullscreen \/ resumes
     THEN Discarded([r EXCEPT !.fullscreen = resumes, !.fullscreen_resume = resumes,
                              !.foreground_fullscreen = @ /\ ~resumes,
                              !.recovery = NoRecovery, !.pending = FALSE, !.pending_ticks = 0,
                              !.echo = FALSE])
     ELSE r

Aged(q, ticks) ==
  LET older == [i \in DOMAIN q.queue |-> [q.queue[i] EXCEPT !.age = @ + ticks]]
      left == Remaining(older, {i \in DOMAIN older : older[i].age < MaxAge})
  IN [q EXCEPT !.queue = left, !.stats.expired = @ + Len(older) - Len(left)]

(* Hardware-disabled video is held back unless its memory changes. *)
Blanked(q, f) ==
  LET changed == q.released \/ f.changed
      ticks == q.disabled_ticks + (IF changed THEN 0 ELSE f.ticks)
  IN IF f.disabled
     THEN [q EXCEPT !.disabled_ticks = ticks, !.released = changed \/ ticks >= BlankHold]
     ELSE [q EXCEPT !.disabled_ticks = 0, !.released = FALSE]

Copying(f) == f.scroll = "copying" \/ (f.disabled /\ f.scroll = "done")

HeldAnew(q, f) == [q EXCEPT !.holding = TRUE, !.scroll_ticks = 0]  \* progress renews it
Held(q, f) ==
  IF ~q.holding THEN [q EXCEPT !.holding = TRUE, !.scroll_ticks = 0]
  ELSE IF q.scroll_ticks < ScrollHold THEN [q EXCEPT !.scroll_ticks = @ + f.ticks]
  ELSE q

Scrolled(q, f) ==
  LET h == Held(q, f)
  IN IF ~Copying(f) THEN [q EXCEPT !.holding = FALSE, !.scroll_ticks = 0]
     ELSE IF h.scroll_ticks >= ScrollHold /\ ~f.disabled
     THEN [h EXCEPT !.pending = TRUE, !.pending_ticks = Confirm]
     ELSE h

(* Every valid frame, before it is planned. *)
Seen(q, f) == Scrolled(Blanked(Aged(q, f.ticks), f), f)
Withheld(q, f) == \/ Copying(f) /\ q.scroll_ticks < ScrollHold
                  \/ f.disabled /\ ~q.released

(* A disabled frame is shown black, whatever its cells say. *)
Masked(f) == IF f.disabled
             THEN [f EXCEPT !.scroll = "none", !.fit = TRUE, !.trace.clear = TRUE] ELSE f
Fits(q, g) == g.scroll # "copying" /\ g.fit /\ (q.echo_failed => g.trace.clear)

-----------------------------------------------------------------------------
recoveringAnywhere(r, g) ==            \* text on the same line is evidence enough
  [boundary |-> TRUE, text |-> r.text \/ g.trace.text, confirming |-> g.trace.frontier,
   ticks |-> IF g.trace.frontier /\ r.confirming THEN Min({r.ticks + g.ticks, Confirm}) ELSE 0]

(* Recovery from fullscreen: new lines of text at the output's frontier.   *)
recovering(r, g) ==
  LET boundary == r.boundary \/ g.trace.advanced
      text == r.text \/ (boundary /\ g.trace.text)
      calm == text /\ g.trace.frontier
  IN IF g.trace.clear THEN [NoRecovery EXCEPT !.boundary = TRUE]
     ELSE IF g.trace.foreign THEN NoRecovery
     ELSE [boundary |-> boundary, text |-> text, confirming |-> calm,
           ticks |-> IF calm /\ r.confirming THEN Min({r.ticks + g.ticks, Confirm}) ELSE 0]
Recovered(r) == r.confirming /\ r.ticks >= Confirm

(* A trial of the queue: what a plan would confirm and discard.            *)
Trials(q, plan, clear) ==
  LET n == 1..Len(q.queue)
      Trial(fate) ==
        LET With(end) == {i \in n : fate[i] = end}
        IN [queue |-> Remaining(q.queue, With("stays")),
            stats |-> [q.stats EXCEPT !.consumed = @ + Cardinality(With("consumed")),
                                      !.discarded = @ + Cardinality(With("discarded"))]]
  IN {Trial(fate) : fate \in [n -> IF ~plan \/ clear THEN {"discarded"}
                                   ELSE {"stays", "consumed", "discarded"}]}

-----------------------------------------------------------------------------
(* Past: the committed image is what the terminal shows (shown), whether   *)
(* fullscreen bytes are on it (dirty), the fullscreen policy, a glass      *)
(* output that was pending when fullscreen came back (overtaken), the      *)
(* notifications taken, and how long the frames have been saying the same. *)
Told(h, q) == [h EXCEPT
                 !.overtaken = @ \/ (q.output_pending /\ ~q.next.fullscreen /\ q.fullscreen),
                 !.wait = IF q.fullscreen THEN -1 ELSE @]

Returns(q, r) == /\ p' = q /\ result' = r /\ pc' = "idle" /\ nonblocking' = FALSE
                 /\ hist' = Told(hist, q)
                 /\ UNCHANGED <<terminal, pending_fullscreen, wire>>

(* How long, in a row, rows have been copied, video has been disabled      *)
(* unchanged, and text has not fitted; and what recovery has seen.         *)
Longer(duration, f, hold) == IF duration < 0 THEN 0 ELSE Min({duration + f.ticks, hold})
Watched(h, q, f) ==
  LET g == Masked(f)
      shown == ~Withheld(q, f)
      planned == shown /\ q.fullscreen /\ Reversible /\ Fits(q, g)
      line == h.seen # "none" \/ g.trace.advanced
      seen == IF g.trace.clear THEN "line"
              ELSE IF g.trace.foreign \/ ~line THEN "none"
              ELSE IF h.seen = "text" \/ g.trace.text THEN "text" ELSE "line"
      calm == seen = "text" /\ g.trace.frontier /\ ~g.trace.clear /\ ~g.trace.foreign
  IN [h EXCEPT !.copies = IF Copying(f) THEN Longer(@, f, ScrollHold) ELSE -1,
               !.blanks = IF ~f.disabled THEN 0
                          ELSE IF f.changed THEN BlankHold ELSE Min({@ + f.ticks, BlankHold}),
               !.wait = IF ~shown \/ q.fullscreen THEN @
                        ELSE IF Fits(q, g) THEN -1 ELSE Longer(@, f, Confirm),
               !.seen = IF planned THEN seen ELSE IF shown THEN "none" ELSE @,
               !.calm = IF planned /\ calm THEN Longer(@, f, Confirm) ELSE IF shown THEN -1 ELSE @]

-----------------------------------------------------------------------------
(* begin_output: the trial's queue waits for the commit. *)
PlannedEarly(q, t) == [q EXCEPT !.queue = t.queue, !.stats = t.stats]
Planned(q, t) == q
Begins(q, f, fullscreen, plan, recovered) ==
  \E t \in Trials(q, plan, Masked(f).trace.clear), total \in 0..MaxUnits, inside \in BOOLEAN :
    /\ fullscreen \/ inside
    /\ p' = [Planned(q, t) EXCEPT !.output_pending = TRUE, !.written = 0, !.registered = fullscreen,
                      !.next = [fullscreen |-> fullscreen, plan |-> plan, recovered |-> recovered,
                                inside |-> inside, image |-> 1 - q.image,
                                queue |-> t.queue, stats |-> t.stats, total |-> total]]
    /\ pc' = "gate" /\ nonblocking' \in BOOLEAN              \* by the call that is made
    /\ pending_fullscreen' = pending_fullscreen + (IF fullscreen THEN 1 ELSE 0)
    /\ wire' = [total |-> total, delivered |-> 0, ended |-> "none", epoch |-> epoch]
    /\ hist' = Told(Watched(hist, q, f), q)
    /\ UNCHANGED <<terminal, result>>

Answers(q, f, r) == /\ p' = q /\ result' = r /\ hist' = Told(Watched(hist, q, f), q)
                    /\ UNCHANGED <<pc, nonblocking, terminal, pending_fullscreen, wire>>
Failing(q, f, r) == Answers([q EXCEPT !.error = r], f, r)

(* draw_fullscreen *)
Draws(q, f, entering, plan, recovered) ==
  LET enters == entering \/ q.fullscreen_resume
  IN \/ ~foreground /\ Failing(q, f, "UNREPRESENTABLE")
     \/ foreground /\ Failing(q, f, "TERMINAL")          \* its size cannot be read
     \/ foreground /\ enters /\ Answers(q, f, "NEEDS_CURSOR")   \* or it has changed
     \/ /\ foreground /\ (enters => q.cursor_known)
        /\ Begins(q, f, TRUE, plan, recovered /\ ~q.fullscreen_resume)

ShowsFullscreen(q, f) ==
  LET g == Masked(f)
      planned == Reversible /\ Fits(q, g)
      r == [q EXCEPT !.recovery = IF planned THEN recovering(q.recovery, g) ELSE NoRecovery]
  IN Draws(r, f, FALSE, planned, planned /\ Recovered(r.recovery))

ShowsGlass(q, f) ==
  LET w == [q EXCEPT !.pending = TRUE, !.pending_ticks = IF q.pending THEN Min({@ + f.ticks, Confirm}) ELSE 0]
  IN \/ Fits(q, Masked(f)) /\ Begins(q, f, FALSE, TRUE, FALSE)
     \/ ~Fits(q, Masked(f)) /\ w.pending_ticks < Confirm /\ Answers(w, f, "PENDING")
     \/ /\ ~Fits(q, Masked(f)) /\ w.pending_ticks >= Confirm
        /\ IF Adaptive /\ ~q.background THEN Draws(w, f, TRUE, FALSE, FALSE)
           ELSE Failing(w, f, "UNREPRESENTABLE")

Present(f) ==
  /\ pc = "idle"
  /\ LET o == Observed(p)
     IN \/ o.error # "ok" /\ Returns(o, o.error)
        \/ o.error = "ok" /\ o.output_pending /\ Returns(o, "BUSY")
        \/ o.error = "ok" /\ ~o.output_pending /\ Returns(o, "ARGUMENT")
        \/ /\ o.error = "ok" /\ ~o.output_pending
           /\ LET q == Seen(o, f)
              IN IF Withheld(q, f) THEN Answers(q, f, "PENDING")
                 ELSE IF q.fullscreen THEN ShowsFullscreen(q, f) ELSE ShowsGlass(q, f)

(* finish_output, the commit: all of the frame, its plan and its queue.    *)
Entering(q) == ~q.fullscreen \/ q.fullscreen_resume
Finished(q) ==
  LET n == q.next
      out == [q EXCEPT !.initialized = TRUE, !.image = n.image, !.output_pending = FALSE,
                       !.registered = FALSE, !.pending = FALSE, !.pending_ticks = 0,
                       !.echo_failed = FALSE, !.queue = n.queue, !.stats = n.stats,
                       !.next = NoNext, !.written = 0]        \* read no more
      fullscreen == ~(n.recovered /\ n.inside)
  IN IF n.fullscreen
     THEN [out EXCEPT !.cursor_known = TRUE, !.fullscreen_resume = FALSE, !.echo = FALSE,
                      !.fullscreen = fullscreen,
                      !.recovery = IF Entering(q) \/ ~fullscreen THEN NoRecovery ELSE @]
     ELSE [out EXCEPT !.fullscreen = FALSE]

(* Glass text confirms some or all of the local echo; where it left the    *)
(* cursor is known as long as the terminal's modes can be read.            *)
Confirmed(q, echo, known) ==
  IF q.next.fullscreen THEN Finished(q)
  ELSE [Finished(q) EXCEPT !.echo = @ /\ echo, !.cursor_known = @ /\ known]
Commits(r) ==
  LET afresh == p.next.fullscreen /\ (Entering(p) \/ ~r.fullscreen)
  IN /\ p' = r
     /\ result' = IF r.fullscreen THEN "FULLSCREEN" ELSE "OK"
     /\ wire' = [wire EXCEPT !.ended = "whole", !.epoch = 0]
     /\ hist' = [Told(hist, r) EXCEPT
                   !.shown = IF wire.delivered = wire.total THEN p.next.image ELSE -1,
                   !.dirty = r.fullscreen \/ (@ /\ ~p.next.fullscreen),
                   !.policy = r.fullscreen \/ (@ /\ ~p.next.fullscreen),
                   !.wait = -1, !.seen = IF afresh THEN "none" ELSE @,
                   !.calm = IF afresh THEN -1 ELSE @]
Commit ==
  /\ pc = "write" /\ p.written = p.next.total
  /\ \E echo \in BOOLEAN, known \in BOOLEAN : Commits(Confirmed(p, echo, known))
  /\ pc' = "idle" /\ nonblocking' = FALSE
  /\ pending_fullscreen' = pending_fullscreen - (IF p.registered THEN 1 ELSE 0)
  /\ UNCHANGED terminal

Fails(q, r) == Returns([q EXCEPT !.error = r], r)

(* finish_output, the gate: it may refuse; behind it the terminal is       *)
(* looked at once more.                                                    *)
Rechecked(q) == Observed(q)
Gate ==
  /\ pc = "gate"
  /\ LET q == Rechecked(p)
         lost == q.next.fullscreen /\ ~foreground
     IN \/ p.next.fullscreen /\ Fails(p, "BACKGROUND")                 \* refused
        \/ Fails(p, "SYSTEM")                \* the buffer ran out of memory
        \/ ~p.next.fullscreen /\ Returns(p, "BUSY")
        \/ q.error # "ok" /\ Fails(q, q.error)
        \/ q.error = "ok" /\ lost /\ Fails(q, "BACKGROUND")
        \/ /\ q.error = "ok" /\ ~lost
           /\ p' = q /\ pc' = "write" /\ hist' = Told(hist, q)
           /\ UNCHANGED <<nonblocking, terminal, pending_fullscreen, wire, result>>

(* write_output, one write: for fullscreen the foreground is looked at     *)
(* again before each; a nonblocking call makes only one.                   *)
WroteAll(n) == p.next.total                             \* a short write passes for a whole one
Wrote(n) == p.written + n
Write ==
  /\ pc = "write" /\ p.written < p.next.total
  /\ LET lost == p.next.fullscreen /\ ~foreground
     IN \/ lost /\ Fails(p, "BACKGROUND")
        \/ ~lost /\ Fails(p, "SYSTEM")
        \/ ~lost /\ Returns(p, "WOULD_BLOCK")
        \/ /\ ~lost
           /\ \E n \in 1..(p.next.total - p.written) :
                LET blocks == nonblocking /\ Wrote(n) < p.next.total
                IN /\ p' = [p EXCEPT !.written = Wrote(n)]
                   /\ wire' = [wire EXCEPT !.delivered = @ + n]
                   /\ pc' = IF blocks THEN "idle" ELSE "write"
                   /\ result' = IF blocks THEN "WOULD_BLOCK" ELSE result
                   /\ nonblocking' = (nonblocking /\ ~blocks)
           /\ hist' = [hist EXCEPT !.dirty = @ \/ p.next.fullscreen]
           /\ UNCHANGED <<terminal, pending_fullscreen>>

Resume ==
  /\ pc = "idle"
  /\ LET q == Observed(p)
     IN \/ q.error # "ok" /\ Returns(q, q.error)
        \/ q.error = "ok" /\ ~q.output_pending /\ Returns(q, "BUSY")
        \/ q.error = "ok" /\ q.output_pending /\ Returns(q, "ARGUMENT")   \* not O_NONBLOCK
        \/ /\ q.error = "ok" /\ q.output_pending
           /\ p' = q /\ pc' = "gate" /\ nonblocking' = TRUE /\ hist' = Told(hist, q)
           /\ UNCHANGED <<terminal, pending_fullscreen, wire, result>>

(* Reset keeps the statistics; a new presenter after destroy does not.     *)
Anew(q, taken) ==
  /\ pc = "idle"
  /\ p' = q /\ result' = "OK"
  /\ pending_fullscreen' = pending_fullscreen - (IF p.registered THEN 1 ELSE 0)
  /\ wire' = IF p.output_pending THEN [wire EXCEPT !.ended = "partial", !.epoch = 0] ELSE wire
  /\ hist' = [Past EXCEPT !.taken = taken]
  /\ UNCHANGED <<pc, nonblocking, terminal>>
KeptUnregistered(q) ==                                  \* forgets to unregister
  [Fresh EXCEPT !.stats = Discarded(q).stats, !.registered = q.registered]
Kept(q) == [Fresh EXCEPT !.stats = Discarded(q).stats]

(* tigt_presenter_fullscreen_output_started *)
Started == p.fullscreen \/ (p.output_pending /\ p.next.fullscreen /\ p.written # 0)
Reset == Anew(Kept(p), hist.taken)
Destroy == Anew(Fresh, 0)

-----------------------------------------------------------------------------
(* The calls that do not write.  While an output is pending they are busy. *)
Call(q, r) == pc = "idle" /\ Returns(q, r)
Quiet == ~p.output_pending
Busy == p.output_pending /\ Call(p, "BUSY")

ObserveCursor == \/ Busy
                 \/ Quiet /\ Call(Observed(p), "ARGUMENT")
                 \/ Quiet /\ Call([Observed(p) EXCEPT !.cursor_known = TRUE], "OK")
ForgetCursor == Busy \/ (Quiet /\ Call([p EXCEPT !.cursor_known = FALSE], "OK"))

(* tigt_presenter_local_echo: more than fits is not kept but remembered.   *)
LocalEcho ==
  \/ Busy
  \/ Quiet /\ (~p.initialized \/ p.fullscreen) /\ Call(p, "ARGUMENT")
  \/ /\ Quiet /\ p.initialized /\ ~p.fullscreen
     /\ Call(p, IF p.error # "ok" THEN p.error
                ELSE IF p.echo_failed THEN "UNREPRESENTABLE" ELSE "ARGUMENT")
  \/ /\ Quiet /\ p.initialized /\ ~p.fullscreen /\ p.error = "ok" /\ ~p.echo_failed
     /\ \/ Call([p EXCEPT !.echo = TRUE, !.cursor_known = FALSE], "OK")
        \/ Call([p EXCEPT !.echo_failed = TRUE, !.cursor_known = FALSE], "UNREPRESENTABLE")

Queued(q) == {q.queue[i].id : i \in DOMAIN q.queue}
Remember(q, id) == [q EXCEPT !.recent = IF Len(@) < Recent THEN Append(@, id) ELSE Append(Tail(@), id)]

KnownRecently(q, id) == id \in ToSet(q.recent)          \* the queue itself is not asked
Known(q, id) == id \in Queued(q) \cup ToSet(q.recent)

Drops(q) == LET d == Discarded(q) IN [d EXCEPT !.stats.discarded = @ + 1]
Counting == /\ hist.taken < MaxTaken
            /\ hist' = [hist EXCEPT !.taken = @ + 1]
            /\ pc = "idle" /\ UNCHANGED <<pc, nonblocking, terminal, pending_fullscreen, wire>>
Notify(id) ==
  \/ p.error # "ok" /\ Call(p, p.error)
  \/ p.error = "ok" /\ Busy
  \/ p.error = "ok" /\ Quiet /\ Call(p, IF Known(p, id) THEN "OK" ELSE "ARGUMENT")
  \/ /\ p.error = "ok" /\ Quiet /\ ~Known(p, id) /\ Counting
     /\ \/ p' = Drops(p) /\ result' = "DROPPED"       \* oversized, or the queue is full
        \/ /\ Len(p.queue) < Capacity
           /\ p' = Remember([p EXCEPT !.queue = Append(@, [id |-> id, age |-> 0])], id)
           /\ result' = "OK"

Without(q, id) ==
  IF id \in Queued(q)
  THEN [q EXCEPT !.queue = Remaining(@, {i \in DOMAIN @ : @[i].id # id}), !.stats.discarded = @ + 1]
  ELSE q
Cancel(id) ==
  \/ Busy
  \/ /\ Quiet
     /\ LET q == Without(p, id)
        IN Call(IF id \in ToSet(q.recent) THEN q ELSE Remember(q, id), "OK")

-----------------------------------------------------------------------------
(* The terminal: a release and restoration, for which the gate must be     *)
(* free, and the shell's changes of the foreground, at any time.           *)
Released == /\ pc # "write" /\ epoch < MaxEpoch /\ epoch' = epoch + 1
            /\ UNCHANGED <<p, pc, nonblocking, foreground, flips, pending_fullscreen, wire, result, hist>>
Flipped == /\ flips < MaxFlips /\ flips' = flips + 1 /\ foreground' = ~foreground
           /\ UNCHANGED <<p, pc, nonblocking, epoch, pending_fullscreen, wire, result, hist>>

PInit == /\ foreground \in BOOLEAN /\ epoch = 0 /\ flips = 0
         /\ p = Fresh /\ pc = "idle" /\ nonblocking = FALSE
         /\ pending_fullscreen = 0 /\ result = "OK" /\ hist = Past
         /\ wire = [total |-> 0, delivered |-> 0, ended |-> "none", epoch |-> 0]
PNext == \/ \E f \in Frames : Present(f)
         \/ Gate \/ Write \/ Commit \/ Resume \/ Reset \/ Destroy
         \/ ObserveCursor \/ ForgetCursor \/ LocalEcho
         \/ \E id \in Ids : Notify(id) \/ Cancel(id)
         \/ Released \/ Flipped
PSpec == PInit /\ [][PNext]_pvars
=============================================================================
