--------------------------- MODULE PresenterProofs ---------------------------
(***************************************************************************)
(* What holds of the presenter's transaction for all frames, outputs,      *)
(* holds and changes of the terminal.                                      *)
(***************************************************************************)
EXTENDS PresenterProperties, TLAPS

Fields == {"error", "initialized", "image", "fullscreen", "fullscreen_resume",
           "foreground_fullscreen", "recovery", "pending", "pending_ticks", "disabled_ticks",
           "released", "holding", "scroll_ticks", "generation", "background", "cursor_known",
           "echo", "echo_failed", "queue", "stats", "recent", "output_pending", "next",
           "written", "registered"}
IsPresenter(q) == q = [x \in Fields |-> q[x]]
\* r is q as far as its transaction goes.
SameOutput(q, r) == /\ IsPresenter(r)
                    /\ r.output_pending = q.output_pending /\ r.next = q.next
                    /\ r.registered = q.registered /\ r.image = q.image /\ r.written = q.written
SameStanding(q, r) == r.error = q.error /\ r.generation = q.generation

\* What observing the terminal changes: a pending fullscreen output survives
\* it only if nothing has changed.
LEMMA ObservedOutput ==
  ASSUME NEW q, IsPresenter(q)
  PROVE  /\ SameOutput(q, Observed(q))
         /\ Observed(q).generation = epoch
         /\ Observed(q).error \in {q.error, "BACKGROUND"}
         /\ q.output_pending /\ q.next.fullscreen /\ Observed(q).error # "BACKGROUND"
              => Observed(q) = q
<1> DEFINE r == [q EXCEPT !.foreground_fullscreen = Remembered(q, ~foreground),
                          !.background = ~foreground, !.generation = epoch, !.cursor_known = FALSE]
           resumes == foreground /\ (q.fullscreen \/ q.foreground_fullscreen)
           s == [r EXCEPT !.fullscreen = resumes, !.fullscreen_resume = resumes,
                          !.foreground_fullscreen = @ /\ ~resumes,
                          !.recovery = NoRecovery, !.pending = FALSE, !.pending_ticks = 0,
                          !.echo = FALSE]
<1>1. SameOutput(q, r) /\ r.error = q.error /\ r.generation = epoch
  BY DEF IsPresenter, SameOutput, Fields
<1>2. SameOutput(q, s) /\ s.error = q.error /\ s.generation = epoch
  <2> HIDE DEF r
  <2>. QED
    BY <1>1 DEF IsPresenter, SameOutput, Fields
<1>3. SameOutput(q, Discarded(s)) /\ Discarded(s).error = q.error /\ Discarded(s).generation = epoch
  <2> HIDE DEF s
  <2>. QED
    BY <1>2 DEF IsPresenter, SameOutput, Fields, Discarded
<1>4. /\ SameOutput(q, [r EXCEPT !.error = "BACKGROUND"])
      /\ [r EXCEPT !.error = "BACKGROUND"].error = "BACKGROUND"
      /\ [r EXCEPT !.error = "BACKGROUND"].generation = epoch
  <2> HIDE DEF r
  <2>. QED
    BY <1>1 DEF IsPresenter, SameOutput, Fields
<1>5. SameOutput(q, q)
  BY DEF SameOutput
<1>6. \/ Observed(q) = q /\ q.generation = epoch
      \/ Observed(q) = [r EXCEPT !.error = "BACKGROUND"]
      \/ Observed(q) \in {Discarded(s), r} /\ ~(q.output_pending /\ q.next.fullscreen)
  <2> DEFINE same == q.background = ~foreground /\ q.generation = epoch
             lost == q.output_pending /\ q.next.fullscreen
  <2>1. CASE same
    BY <2>1, Zenon DEF Observed
  <2>2. CASE ~same /\ lost
    <3>1. Observed(q) = [r EXCEPT !.error = "BACKGROUND"]
      BY <2>2 DEF Observed
    <3>. QED
      BY <3>1
  <2>3. CASE ~same /\ ~lost /\ (q.fullscreen \/ resumes)
    <3>1. Observed(q) = Discarded(s)
      BY <2>3 DEF Observed
    <3>. QED
      BY <2>3, <3>1
  <2>4. CASE ~same /\ ~lost /\ ~(q.fullscreen \/ resumes)
    <3>1. Observed(q) = r
      BY <2>4 DEF Observed
    <3>. QED
      BY <2>4, <3>1
  <2>. QED
    BY <2>1, <2>2, <2>3, <2>4
<1>. QED
  BY <1>1, <1>3, <1>4, <1>5, <1>6

\* Nothing that is done to every valid frame touches the transaction.
LEMMA SeenOutput ==
  ASSUME NEW q, IsPresenter(q), NEW f
  PROVE  SameOutput(q, Seen(q, f)) /\ SameStanding(q, Seen(q, f))
<1> USE DEF IsPresenter, SameOutput, SameStanding, Fields
<1>1. ASSUME NEW r, IsPresenter(r) PROVE SameOutput(r, Aged(r, f.ticks)) /\ SameStanding(r, Aged(r, f.ticks))
  BY <1>1 DEF Aged
<1>2. ASSUME NEW r, IsPresenter(r) PROVE SameOutput(r, Blanked(r, f)) /\ SameStanding(r, Blanked(r, f))
  <2>1. \E ticks, released :
          Blanked(r, f) = [r EXCEPT !.disabled_ticks = ticks, !.released = released]
    BY Zenon DEF Blanked
  <2>. QED
    BY <1>2, <2>1
<1>3. ASSUME NEW r, IsPresenter(r) PROVE SameOutput(r, Held(r, f)) /\ SameStanding(r, Held(r, f))
  BY <1>3 DEF Held
<1>4. ASSUME NEW r, IsPresenter(r)
      PROVE  SameOutput(r, Scrolled(r, f)) /\ SameStanding(r, Scrolled(r, f))
  <2> DEFINE h == Held(r, f)
  <2>1. SameOutput(r, h) /\ SameStanding(r, h)
    BY <1>3, <1>4
  <2>2. \/ Scrolled(r, f) = [r EXCEPT !.holding = FALSE, !.scroll_ticks = 0]
        \/ Scrolled(r, f) = [h EXCEPT !.pending = TRUE, !.pending_ticks = Confirm]
        \/ Scrolled(r, f) = h
    BY DEF Scrolled
  <2> HIDE DEF h
  <2>. QED
    BY <1>4, <2>1, <2>2
<1> HIDE DEF IsPresenter, Fields
<1>. QED
  BY <1>1, <1>2, <1>4 DEF Seen

-----------------------------------------------------------------------------
(***************************************************************************)
(* What a call makes of the presenter before it writes.                    *)
(***************************************************************************)
Marks == {"shown", "dirty", "policy", "overtaken", "taken", "copies", "blanks", "wait", "seen", "calm"}
IsPast(h) == h = [x \in Marks |-> h[x]]

\* The history's other fields say nothing of the committed image.
LEMMA PastKept ==
  ASSUME NEW h, IsPast(h), NEW q, NEW f
  PROVE  /\ IsPast(Told(h, q)) /\ Told(h, q).shown = h.shown
         /\ IsPast(Watched(h, q, f)) /\ Watched(h, q, f).shown = h.shown
         /\ IsPast(Told(Watched(h, q, f), q)) /\ Told(Watched(h, q, f), q).shown = h.shown
<1> USE DEF IsPast, Marks
<1>1. ASSUME NEW g, IsPast(g) PROVE IsPast(Told(g, q)) /\ Told(g, q).shown = g.shown
  BY <1>1 DEF Told
<1>2. IsPast(Watched(h, q, f)) /\ Watched(h, q, f).shown = h.shown
  BY DEF Watched
<1> HIDE DEF IsPast
<1>. QED
  BY <1>1, <1>2

\* A frame that is not withheld is answered or begins an output; neither has
\* touched the transaction before.
Judged(q, f) ==
  \E r : /\ SameOutput(q, r) /\ r.generation = q.generation
         /\ \/ \E e : Answers(r, f, e)
            \/ /\ r.error = q.error
               /\ \E fullscreen \in BOOLEAN : \E plan, recovered :
                    Begins(r, f, fullscreen, plan, recovered)

\* A frame that the presenter is free to show is judged in one of these ways.
LEMMA ShowsOutput ==
  ASSUME NEW q, IsPresenter(q), NEW f, ShowsFullscreen(q, f) \/ ShowsGlass(q, f)
  PROVE  Judged(q, f)
<1>0. ASSUME NEW r, IsPresenter(r), NEW e
      PROVE  SameOutput(r, [r EXCEPT !.error = e]) /\ [r EXCEPT !.error = e].generation = r.generation
  BY <1>0 DEF IsPresenter, SameOutput, Fields
<1>1. ASSUME NEW r, SameOutput(q, r), SameStanding(q, r), NEW entering, NEW plan, NEW recovered,
             Draws(r, f, entering, plan, recovered)
      PROVE  Judged(q, f)
  <2>1. IsPresenter(r)
    BY <1>1 DEF SameOutput
  <2>2. ASSUME NEW e, Failing(r, f, e) PROVE Judged(q, f)
    <3>1. Answers([r EXCEPT !.error = e], f, e)
      BY <2>2 DEF Failing
    <3>2. SameOutput(q, [r EXCEPT !.error = e]) /\ [r EXCEPT !.error = e].generation = q.generation
      BY <1>0, <1>1, <2>1 DEF SameOutput, SameStanding
    <3>. QED
      BY <3>1, <3>2 DEF Judged
  <2>3. \/ Failing(r, f, "UNREPRESENTABLE") \/ Failing(r, f, "TERMINAL")
        \/ Answers(r, f, "NEEDS_CURSOR")
        \/ \E again : Begins(r, f, TRUE, plan, again)
    BY <1>1 DEF Draws
  <2>. QED
    BY <1>1, <2>2, <2>3 DEF Judged, SameStanding
<1>2. CASE ShowsFullscreen(q, f)
  <2>1. PICK recovery, plan, recovered :
          Draws([q EXCEPT !.recovery = recovery], f, FALSE, plan, recovered)
    BY <1>2 DEF ShowsFullscreen
  <2>2. SameOutput(q, [q EXCEPT !.recovery = recovery])
        /\ SameStanding(q, [q EXCEPT !.recovery = recovery])
    BY DEF IsPresenter, SameOutput, SameStanding, Fields
  <2>. QED
    BY <1>1, <2>1, <2>2
<1>3. CASE ShowsGlass(q, f)
  <2>1. PICK ticks :
          LET w == [q EXCEPT !.pending = TRUE, !.pending_ticks = ticks]
          IN \/ Begins(q, f, FALSE, TRUE, FALSE)
             \/ Answers(w, f, "PENDING")
             \/ Draws(w, f, TRUE, FALSE, FALSE)
             \/ Failing(w, f, "UNREPRESENTABLE")
    BY <1>3 DEF ShowsGlass
  <2> DEFINE w == [q EXCEPT !.pending = TRUE, !.pending_ticks = ticks]
  <2>2. SameOutput(q, w) /\ SameStanding(q, w)
    BY DEF IsPresenter, SameOutput, SameStanding, Fields
  <2>3. SameOutput(q, q)
    BY DEF SameOutput
  <2>4. CASE Begins(q, f, FALSE, TRUE, FALSE)
    BY <2>3, <2>4 DEF Judged
  <2> HIDE DEF w
  <2>5. CASE Answers(w, f, "PENDING")
    BY <2>2, <2>5 DEF Judged, SameStanding
  <2>6. CASE Draws(w, f, TRUE, FALSE, FALSE)
    BY <1>1, <2>2, <2>6
  <2>7. CASE Failing(w, f, "UNREPRESENTABLE")
    <3>1. Answers([w EXCEPT !.error = "UNREPRESENTABLE"], f, "UNREPRESENTABLE")
      BY <2>7 DEF Failing
    <3>2. /\ SameOutput(q, [w EXCEPT !.error = "UNREPRESENTABLE"])
          /\ [w EXCEPT !.error = "UNREPRESENTABLE"].generation = q.generation
      BY <1>0, <2>2 DEF SameOutput, SameStanding
    <3>. QED
      BY <3>1, <3>2 DEF Judged
  <2>. QED
    BY <2>1, <2>4, <2>5, <2>6, <2>7 DEF w
<1>. QED
  BY <1>2, <1>3

-----------------------------------------------------------------------------
(***************************************************************************)
(* The inductive invariant.  Under way: a call that writes has a sound     *)
(* presenter and a pending output.  In step: what is written is what the   *)
(* terminal has.  In its epoch: a pending fullscreen output belongs to the *)
(* generation that the presenter has seen last.                            *)
(***************************************************************************)
IsWire == wire = [x \in {"total", "delivered", "ended", "epoch"} |-> wire[x]]
UnderWay == pc # "idle" => p.output_pending /\ p.error = "ok"
InStep == p.output_pending => wire.delivered = p.written /\ wire.total = p.next.total
InEpoch == /\ p.output_pending /\ p.next.fullscreen /\ p.error = "ok" => p.generation = wire.epoch
           /\ pc = "write" /\ p.next.fullscreen => epoch = wire.epoch
TInv == /\ IsPresenter(p) /\ IsPast(hist) /\ IsWire
        /\ UnderWay /\ InStep /\ InEpoch /\ RegisteredWhilePending /\ ImageIsShown

\* A step that leaves the output as it is and makes no call keeps it.
LEMMA Stays ==
  ASSUME TInv, SameOutput(p, p'), UNCHANGED <<pending_fullscreen, wire>>,
         IsPast(hist'), hist'.shown = hist.shown,
         p.output_pending /\ p.next.fullscreen /\ p'.error = "ok"
           => p.error = "ok" /\ p'.generation = p.generation,
         pc' = "idle"
  PROVE  TInv'
BY DEF TInv, SameOutput, IsWire, UnderWay, InStep, InEpoch, RegisteredWhilePending, ImageIsShown

\* What Returns does, of a presenter whose output is as it was.
LEMMA ReturnsStays ==
  ASSUME TInv, NEW q, NEW r, Returns(q, r), SameOutput(p, q),
         p.output_pending /\ p.next.fullscreen /\ q.error = "ok"
           => p.error = "ok" /\ q.generation = p.generation
  PROVE  TInv'
<1>1. /\ p' = q /\ pc' = "idle" /\ hist' = Told(hist, q) /\ UNCHANGED <<pending_fullscreen, wire>>
  BY DEF Returns
<1>2. IsPast(hist') /\ hist'.shown = hist.shown
  BY <1>1, PastKept DEF TInv
<1>. QED
  BY <1>1, <1>2, Stays

\* Returns after the terminal has been observed.
LEMMA ObservedStays ==
  ASSUME TInv, NEW r, Returns(Observed(p), r)
  PROVE  TInv'
<1>1. IsPresenter(p)
  BY DEF TInv
<1>2. SameOutput(p, Observed(p))
  BY <1>1, ObservedOutput
<1>3. p.output_pending /\ p.next.fullscreen /\ Observed(p).error = "ok" => Observed(p) = p
  BY <1>1, ObservedOutput
<1>. QED
  BY <1>2, <1>3, ReturnsStays

\* A failure is remembered and changes nothing that was output.
LEMMA FailsStays ==
  ASSUME TInv, NEW q, SameOutput(p, q), NEW r, r # "ok", Fails(q, r)
  PROVE  TInv'
<1>1. SameOutput(p, [q EXCEPT !.error = r]) /\ [q EXCEPT !.error = r].error = r
  BY DEF SameOutput, IsPresenter, Fields
<1>2. Returns([q EXCEPT !.error = r], r)
  BY DEF Fails
<1>. QED
  BY <1>1, <1>2, ReturnsStays

\* Nothing changes the output of a presenter that stays as it is.
LEMMA Reflexive == ASSUME TInv PROVE SameOutput(p, p)
BY DEF TInv, SameOutput

\* A frame.
LEMMA PresentStep == ASSUME TInv, NEW f, Present(f) PROVE TInv'
<1> DEFINE o == Observed(p)
           q == Seen(o, f)
<1>0. IsPresenter(p) /\ pc = "idle"
  BY DEF TInv, Present
<1>1. SameOutput(p, o) /\ o.generation = epoch
  BY <1>0, ObservedOutput
<1>2. CASE \E r : Returns(o, r)
  BY <1>2, ObservedStays
<1>3. ASSUME o.error = "ok", ~o.output_pending,
             (\E e : Answers(q, f, e)) \/ ShowsFullscreen(q, f) \/ ShowsGlass(q, f)
      PROVE  TInv'
  <2> HIDE DEF o
  <2>0. IsPresenter(o)
    BY <1>1 DEF SameOutput
  <2>1. SameOutput(o, q) /\ SameStanding(o, q)
    BY <2>0, SeenOutput
  <2> HIDE DEF q
  <2>2. IsPresenter(q) /\ SameOutput(q, q)
    BY <2>1 DEF SameOutput
  <2>3. Judged(q, f)
    <3>1. CASE \E e : Answers(q, f, e)
      BY <2>2, <3>1 DEF Judged
    <3>. QED
      BY <1>3, <2>2, <3>1, ShowsOutput
  <2>4. PICK r : /\ SameOutput(q, r) /\ r.generation = q.generation
                 /\ \/ \E e : Answers(r, f, e)
                    \/ /\ r.error = q.error
                       /\ \E fullscreen \in BOOLEAN : \E plan, recovered :
                            Begins(r, f, fullscreen, plan, recovered)
    BY <2>3 DEF Judged
  <2>5. /\ SameOutput(p, r) /\ r.generation = epoch /\ ~r.output_pending /\ ~p.output_pending
    BY <1>1, <1>3, <2>1, <2>4 DEF SameOutput, SameStanding
  <2>6. IsPast(Told(Watched(hist, r, f), r)) /\ Told(Watched(hist, r, f), r).shown = hist.shown
    BY PastKept DEF TInv
  <2>7. ASSUME NEW e, Answers(r, f, e) PROVE TInv'
    <3>1. /\ p' = r /\ pc' = "idle" /\ hist' = Told(Watched(hist, r, f), r)
          /\ UNCHANGED <<pending_fullscreen, wire>>
      BY <1>0, <2>7 DEF Answers
    <3>. QED
      BY <2>5, <2>6, <3>1, Stays
  <2>8. ASSUME r.error = q.error, NEW fullscreen \in BOOLEAN, NEW plan, NEW recovered,
               Begins(r, f, fullscreen, plan, recovered)
        PROVE  TInv'
    <3>1. PICK t, total, inside :
            /\ p' = [r EXCEPT !.output_pending = TRUE, !.written = 0, !.registered = fullscreen,
                       !.next = [fullscreen |-> fullscreen, plan |-> plan, recovered |-> recovered,
                                 inside |-> inside, image |-> 1 - r.image,
                                 queue |-> t.queue, stats |-> t.stats, total |-> total]]
            /\ pc' = "gate"
            /\ pending_fullscreen' = pending_fullscreen + (IF fullscreen THEN 1 ELSE 0)
            /\ wire' = [total |-> total, delivered |-> 0, ended |-> "none", epoch |-> epoch]
            /\ hist' = Told(Watched(hist, r, f), r)
      BY <2>8 DEF Begins, Planned
    <3>2. /\ IsPresenter(p') /\ p'.output_pending /\ p'.written = 0 /\ p'.registered = fullscreen
          /\ p'.next.fullscreen = fullscreen /\ p'.next.total = total
          /\ p'.image = p.image /\ p'.error = r.error /\ p'.generation = epoch
      BY <2>5, <3>1 DEF SameOutput, IsPresenter, Fields
    <3>3. /\ IsWire' /\ wire'.delivered = 0 /\ wire'.total = total /\ wire'.epoch = epoch
      BY <3>1 DEF IsWire
    <3>4. r.error = "ok"
      BY <1>3, <2>1, <2>8 DEF SameStanding
    <3>5. pending_fullscreen = 0
      BY <2>5 DEF TInv, RegisteredWhilePending
    <3>6. RegisteredWhilePending'
      BY <3>1, <3>2, <3>5 DEF RegisteredWhilePending
    <3>7. UnderWay' /\ InStep' /\ InEpoch' /\ ImageIsShown'
      BY <2>6, <3>1, <3>2, <3>3, <3>4 DEF TInv, UnderWay, InStep, InEpoch, ImageIsShown
    <3>. QED
      BY <2>6, <3>1, <3>2, <3>3, <3>6, <3>7 DEF TInv
  <2>. QED
    BY <2>4, <2>7, <2>8
<1>. QED
  BY <1>2, <1>3 DEF Present

\* Behind the gate.
LEMMA GateStep == ASSUME TInv, Gate PROVE TInv'
<1> DEFINE q == Observed(p)
<1>0. IsPresenter(p) /\ pc = "gate"
  BY DEF TInv, Gate
<1>1. /\ SameOutput(p, q) /\ q.generation = epoch
      /\ p.output_pending /\ p.next.fullscreen /\ q.error # "BACKGROUND" => q = p
  BY <1>0, ObservedOutput
<1>2. \/ Fails(p, "BACKGROUND") \/ Fails(p, "SYSTEM") \/ Returns(p, "BUSY")
      \/ q.error # "ok" /\ Fails(q, q.error)
      \/ Fails(q, "BACKGROUND")
      \/ /\ q.error = "ok"
         /\ p' = q /\ pc' = "write" /\ hist' = Told(hist, q)
         /\ UNCHANGED <<terminal, pending_fullscreen, wire>>
  BY DEF Gate, Rechecked
<1> HIDE DEF q
<1>3. CASE Fails(p, "BACKGROUND") \/ Fails(p, "SYSTEM")
  BY <1>3, Reflexive, FailsStays
<1>4. CASE Returns(p, "BUSY")
  BY <1>4, Reflexive, ReturnsStays
<1>5. CASE (q.error # "ok" /\ Fails(q, q.error)) \/ Fails(q, "BACKGROUND")
  BY <1>1, <1>5, FailsStays
<1>6. CASE /\ q.error = "ok"
           /\ p' = q /\ pc' = "write" /\ hist' = Told(hist, q)
           /\ UNCHANGED <<terminal, pending_fullscreen, wire>>
  <2>1. IsPast(hist') /\ hist'.shown = hist.shown
    BY <1>6, PastKept DEF TInv
  <2>2. p.output_pending /\ p.error = "ok"
    BY <1>0 DEF TInv, UnderWay
  <2>3. p.next.fullscreen => epoch = wire.epoch /\ q = p
    BY <1>1, <1>6, <2>2 DEF TInv, InEpoch
  <2>4. SameOutput(p, p')
    BY <1>1, <1>6
  <2>5. IsWire' /\ InStep' /\ RegisteredWhilePending' /\ ImageIsShown'
    BY <1>6, <2>1, <2>4 DEF TInv, SameOutput, IsWire, InStep, RegisteredWhilePending, ImageIsShown
  <2>6. UnderWay'
    BY <1>6, <2>2, <2>4 DEF SameOutput, UnderWay
  <2>7. InEpoch'
    <3>1. epoch' = epoch
      BY <1>6 DEF terminal
    <3>. QED
      BY <1>6, <2>2, <2>3, <2>4, <3>1 DEF TInv, SameOutput, InEpoch
  <2>. QED
    BY <2>1, <2>4, <2>5, <2>6, <2>7 DEF TInv, SameOutput
<1>. QED
  BY <1>2, <1>3, <1>4, <1>5, <1>6

\* One write.
LEMMA WriteStep == ASSUME TInv, Write PROVE TInv'
<1>1. CASE Fails(p, "BACKGROUND") \/ Fails(p, "SYSTEM")
  BY <1>1, Reflexive, FailsStays
<1>2. CASE Returns(p, "WOULD_BLOCK")
  BY <1>2, Reflexive, ReturnsStays
<1>3. ASSUME NEW n, pc = "write", p' = [p EXCEPT !.written = p.written + n],
             wire' = [wire EXCEPT !.delivered = wire.delivered + n], pc' \in {"idle", "write"},
             hist' = [hist EXCEPT !.dirty = hist.dirty \/ p.next.fullscreen],
             UNCHANGED <<epoch, pending_fullscreen>>
      PROVE  TInv'
  <2>1. /\ IsPresenter(p') /\ p'.output_pending = p.output_pending /\ p'.next = p.next
        /\ p'.registered = p.registered /\ p'.image = p.image /\ p'.error = p.error
        /\ p'.generation = p.generation /\ p'.written = p.written + n
    BY <1>3 DEF TInv, IsPresenter, Fields
  <2>2. IsPast(hist') /\ hist'.shown = hist.shown
    BY <1>3 DEF TInv, IsPast, Marks
  <2>3. /\ IsWire' /\ wire'.delivered = wire.delivered + n /\ wire'.total = wire.total
        /\ wire'.epoch = wire.epoch
    BY <1>3 DEF TInv, IsWire
  <2>4. UnderWay' /\ InStep'
    BY <1>3, <2>1, <2>3 DEF TInv, UnderWay, InStep
  <2>5. InEpoch'
    BY <1>3, <2>1, <2>3 DEF TInv, InEpoch
  <2>6. RegisteredWhilePending' /\ ImageIsShown'
    BY <1>3, <2>1, <2>2 DEF TInv, RegisteredWhilePending, ImageIsShown
  <2>. QED
    BY <2>1, <2>2, <2>3, <2>4, <2>5, <2>6 DEF TInv
<1>4. \/ Fails(p, "BACKGROUND") \/ Fails(p, "SYSTEM") \/ Returns(p, "WOULD_BLOCK")
      \/ \E n : /\ pc = "write" /\ p' = [p EXCEPT !.written = p.written + n]
                /\ wire' = [wire EXCEPT !.delivered = wire.delivered + n] /\ pc' \in {"idle", "write"}
                /\ hist' = [hist EXCEPT !.dirty = hist.dirty \/ p.next.fullscreen]
                /\ UNCHANGED <<epoch, pending_fullscreen>>
  BY DEF Write, Wrote, terminal
<1>. QED
  BY <1>1, <1>2, <1>3, <1>4

\* The commit: all of the output has reached the terminal.
LEMMA CommitStep == ASSUME TInv, Commit PROVE TInv'
<1>1. PICK echo, known : Commits(Confirmed(p, echo, known))
  BY DEF Commit
<1> DEFINE r == Confirmed(p, echo, known)
<1>2. /\ pc = "write" /\ p.written = p.next.total /\ pc' = "idle"
      /\ pending_fullscreen' = pending_fullscreen - (IF p.registered THEN 1 ELSE 0)
  BY DEF Commit
<1>3. /\ IsPresenter(Finished(p)) /\ ~Finished(p).output_pending /\ ~Finished(p).registered
      /\ Finished(p).image = p.next.image
  <2> DEFINE out == [p EXCEPT !.initialized = TRUE, !.image = p.next.image, !.output_pending = FALSE,
                       !.registered = FALSE, !.pending = FALSE, !.pending_ticks = 0,
                       !.echo_failed = FALSE, !.queue = p.next.queue, !.stats = p.next.stats,
                       !.next = NoNext, !.written = 0]
  <2>1. IsPresenter(out) /\ ~out.output_pending /\ ~out.registered /\ out.image = p.next.image
    BY DEF TInv, IsPresenter, Fields
  <2>2. \/ Finished(p) = [out EXCEPT !.fullscreen = FALSE]
        \/ \E fullscreen, recovery :
             Finished(p) = [out EXCEPT !.cursor_known = TRUE, !.fullscreen_resume = FALSE,
                              !.echo = FALSE, !.fullscreen = fullscreen, !.recovery = recovery]
    BY DEF Finished
  <2> HIDE DEF out
  <2>. QED
    BY <2>1, <2>2 DEF IsPresenter, Fields
<1>4. IsPresenter(r) /\ ~r.output_pending /\ ~r.registered /\ r.image = p.next.image
  BY <1>3 DEF Confirmed, IsPresenter, Fields
<1> HIDE DEF r
<1>5. IsPast(Told(hist, r))
  BY PastKept DEF TInv
<1>6. IsPast(hist') /\ hist'.shown = IF wire.delivered = wire.total THEN p.next.image ELSE -1
  BY <1>1, <1>5 DEF IsPast, Marks, Commits, r
<1>7. wire.delivered = wire.total
  BY <1>2 DEF TInv, UnderWay, InStep
<1>8. IsWire' /\ p' = r
  BY <1>1 DEF TInv, IsWire, Commits, r
<1>9. pending_fullscreen' = 0
  BY <1>2 DEF TInv, RegisteredWhilePending
<1>. QED
  BY <1>1, <1>2, <1>4, <1>6, <1>7, <1>8, <1>9
     DEF TInv, UnderWay, InStep, InEpoch, RegisteredWhilePending, ImageIsShown

\* A resume.
LEMMA ResumeStep == ASSUME TInv, Resume PROVE TInv'
<1> DEFINE q == Observed(p)
<1>0. IsPresenter(p)
  BY DEF TInv
<1>1. /\ SameOutput(p, q)
      /\ p.output_pending /\ p.next.fullscreen /\ q.error # "BACKGROUND" => q = p
  BY <1>0, ObservedOutput
<1>2. CASE \E r : Returns(q, r)
  BY <1>2, ObservedStays
<1>3. CASE /\ q.error = "ok" /\ q.output_pending
           /\ p' = q /\ pc' = "gate" /\ hist' = Told(hist, q)
           /\ UNCHANGED <<pending_fullscreen, wire>>
  <2>1. IsPast(hist') /\ hist'.shown = hist.shown
    BY <1>3, PastKept DEF TInv
  <2> HIDE DEF q
  <2>. QED
    BY <1>1, <1>3, <2>1
       DEF TInv, SameOutput, IsWire, UnderWay, InStep, InEpoch, RegisteredWhilePending, ImageIsShown
<1>. QED
  BY <1>2, <1>3 DEF Resume

\* A reset and a destruction.
LEMMA AnewStep == ASSUME TInv, Reset \/ Destroy PROVE TInv'
<1>1. PICK q, taken : q \in {Kept(p), Fresh} /\ Anew(q, taken)
  BY DEF Reset, Destroy
<1>2. /\ IsPresenter(q) /\ ~q.output_pending /\ ~q.registered /\ q.image = 0
  <2>1. IsPresenter(Fresh) /\ ~Fresh.output_pending /\ ~Fresh.registered /\ Fresh.image = 0
    BY DEF Fresh, IsPresenter, Fields
  <2>2. IsPresenter(Kept(p)) /\ ~Kept(p).output_pending /\ ~Kept(p).registered /\ Kept(p).image = 0
    BY <2>1 DEF Kept, IsPresenter, Fields
  <2>. QED
    BY <1>1, <2>1, <2>2
<1>3. /\ p' = q /\ pc = "idle" /\ pc' = pc
      /\ pending_fullscreen' = pending_fullscreen - (IF p.registered THEN 1 ELSE 0)
      /\ wire' \in {[wire EXCEPT !.ended = "partial", !.epoch = 0], wire}
      /\ hist' = [Past EXCEPT !.taken = taken]
  BY <1>1 DEF Anew
<1>4. pending_fullscreen' = 0
  BY <1>3 DEF TInv, RegisteredWhilePending
<1>5. IsPast(hist') /\ hist'.shown = 0
  BY <1>3 DEF Past, IsPast, Marks
<1>6. IsWire'
  BY <1>3 DEF TInv, IsWire
<1>. QED
  BY <1>2, <1>3, <1>4, <1>5, <1>6
     DEF TInv, UnderWay, InStep, InEpoch, RegisteredWhilePending, ImageIsShown

\* The cursor and the local echo.
LEMMA CursorStep == ASSUME TInv, ObserveCursor \/ ForgetCursor \/ LocalEcho PROVE TInv'
<1> DEFINE Edited(q) == /\ SameOutput(p, q)
                        /\ p.output_pending /\ p.next.fullscreen /\ q.error = "ok"
                             => p.error = "ok" /\ q.generation = p.generation
<1>1. PICK q, r : /\ Returns(q, r)
                  /\ \/ q = p \/ q = Observed(p)
                     \/ /\ ~p.output_pending
                        /\ \/ q = [Observed(p) EXCEPT !.cursor_known = TRUE]
                           \/ q = [p EXCEPT !.cursor_known = FALSE]
                           \/ q = [p EXCEPT !.echo = TRUE, !.cursor_known = FALSE]
                           \/ q = [p EXCEPT !.echo_failed = TRUE, !.cursor_known = FALSE]
  BY DEF ObserveCursor, ForgetCursor, LocalEcho, Busy, Call, Quiet
<1>2. IsPresenter(p) /\ IsPresenter(Observed(p)) /\ SameOutput(p, Observed(p))
  BY ObservedOutput DEF TInv, SameOutput
<1>3. CASE q = p
  BY <1>1, <1>3, Reflexive, ReturnsStays
<1>4. CASE q = Observed(p)
  BY <1>1, <1>4, ObservedStays
<1>5. CASE ~p.output_pending /\ q = [Observed(p) EXCEPT !.cursor_known = TRUE]
  <2>1. SameOutput(p, q)
    BY <1>2, <1>5 DEF SameOutput, IsPresenter, Fields
  <2>. QED
    BY <1>1, <1>5, <2>1, ReturnsStays
<1>6. CASE /\ ~p.output_pending
           /\ \/ q = [p EXCEPT !.cursor_known = FALSE]
              \/ q = [p EXCEPT !.echo = TRUE, !.cursor_known = FALSE]
              \/ q = [p EXCEPT !.echo_failed = TRUE, !.cursor_known = FALSE]
  <2>1. SameOutput(p, q)
    BY <1>2, <1>6 DEF SameOutput, IsPresenter, Fields
  <2>. QED
    BY <1>1, <1>6, <2>1, ReturnsStays
<1>. QED
  BY <1>1, <1>3, <1>4, <1>5, <1>6

\* The notifications.
LEMMA NotifyStep == ASSUME TInv, NEW id, Notify(id) \/ Cancel(id) PROVE TInv'
<1>0. IsPresenter(p) /\ IsPast(hist) /\ SameOutput(p, p)
  BY DEF TInv, SameOutput
<1>1. ASSUME NEW q, IsPresenter(q)
      PROVE  SameOutput(q, Remember(q, id)) /\ SameStanding(q, Remember(q, id))
  BY <1>1 DEF Remember, SameOutput, SameStanding, IsPresenter, Fields
<1>2. SameOutput(p, Without(p, id)) /\ SameStanding(p, Without(p, id))
  BY <1>0 DEF Without, SameOutput, SameStanding, IsPresenter, Fields
<1>3. SameOutput(p, Drops(p)) /\ SameStanding(p, Drops(p))
  <2>1. SameOutput(p, Discarded(p)) /\ SameStanding(p, Discarded(p))
    BY <1>0 DEF Discarded, SameOutput, SameStanding, IsPresenter, Fields
  <2>2. ASSUME NEW q, IsPresenter(q)
        PROVE  LET d == [q EXCEPT !.stats.discarded = @ + 1] IN SameOutput(q, d) /\ SameStanding(q, d)
    BY <2>2 DEF SameOutput, SameStanding, IsPresenter, Fields
  <2>. QED
    BY <2>1, <2>2 DEF Drops, SameOutput, SameStanding
<1>4. ASSUME NEW queue
      PROVE  LET d == Remember([p EXCEPT !.queue = queue], id)
             IN SameOutput(p, d) /\ SameStanding(p, d)
  <2>1. /\ SameOutput(p, [p EXCEPT !.queue = queue]) /\ SameStanding(p, [p EXCEPT !.queue = queue])
    BY <1>0 DEF SameOutput, SameStanding, IsPresenter, Fields
  <2>. QED
    BY <1>1, <2>1 DEF SameOutput, SameStanding
<1>5. ASSUME NEW q, SameOutput(p, q), SameStanding(p, q), NEW r, Returns(q, r) PROVE TInv'
  BY <1>5, ReturnsStays DEF SameStanding
<1>6. ASSUME NEW q, SameOutput(p, q), SameStanding(p, q), Counting, p' = q PROVE TInv'
  <2>1. /\ hist' = [hist EXCEPT !.taken = hist.taken + 1] /\ pc' = "idle"
        /\ UNCHANGED <<pending_fullscreen, wire>>
    BY <1>6 DEF Counting
  <2>2. IsPast(hist') /\ hist'.shown = hist.shown
    BY <1>0, <2>1 DEF IsPast, Marks
  <2>. QED
    BY <1>6, <2>1, <2>2, Stays DEF SameStanding
<1>7. CASE Notify(id)
  <2>1. \/ \E r : Returns(p, r)
        \/ Counting /\ p' = Drops(p)
        \/ Counting /\ \E queue : p' = Remember([p EXCEPT !.queue = queue], id)
    BY <1>7 DEF Notify, Busy, Call
  <2>. QED
    BY <1>0, <1>3, <1>4, <1>5, <1>6, <2>1 DEF SameStanding
<1>8. CASE Cancel(id)
  <2>1. \E r : Returns(p, r) \/ Returns(Without(p, id), r) \/ Returns(Remember(Without(p, id), id), r)
    BY <1>8 DEF Cancel, Busy, Call
  <2>2. SameOutput(p, Remember(Without(p, id), id)) /\ SameStanding(p, Remember(Without(p, id), id))
    BY <1>1, <1>2 DEF SameOutput, SameStanding
  <2>. QED
    BY <1>0, <1>2, <1>5, <2>1, <2>2 DEF SameStanding
<1>. QED
  BY <1>7, <1>8

-----------------------------------------------------------------------------
\* The initial state is sound.
LEMMA InitTInv == ASSUME PInit PROVE TInv
<1>1. IsPresenter(p) /\ ~p.output_pending /\ ~p.registered /\ p.image = 0
  BY DEF PInit, Fresh, IsPresenter, Fields
<1>2. IsPast(hist) /\ hist.shown = 0
  BY DEF PInit, Past, IsPast, Marks
<1>3. IsWire /\ pc = "idle" /\ pending_fullscreen = 0
  BY DEF PInit, IsWire
<1>. QED
  BY <1>1, <1>2, <1>3 DEF TInv, UnderWay, InStep, InEpoch, RegisteredWhilePending, ImageIsShown

\* Every step keeps it sound.
LEMMA TInvStep == TInv /\ [PNext]_pvars => TInv'
<1> SUFFICES ASSUME TInv, [PNext]_pvars PROVE TInv'
  OBVIOUS
<1>1. ASSUME NEW f \in Frames, Present(f) PROVE TInv'
  BY <1>1, PresentStep
<1>2. CASE Gate \/ Write \/ Commit \/ Resume \/ Reset \/ Destroy
  BY <1>2, GateStep, WriteStep, CommitStep, ResumeStep, AnewStep
<1>3. CASE ObserveCursor \/ ForgetCursor \/ LocalEcho
  BY <1>3, CursorStep
<1>4. ASSUME NEW id \in Ids, Notify(id) \/ Cancel(id) PROVE TInv'
  BY <1>4, NotifyStep
<1>5. CASE Released \/ Flipped
  BY <1>5 DEF Released, Flipped, TInv, IsWire, UnderWay, InStep, InEpoch, RegisteredWhilePending,
     ImageIsShown
<1>6. CASE UNCHANGED pvars
  BY <1>6 DEF pvars, terminal, TInv, IsWire, UnderWay, InStep, InEpoch, RegisteredWhilePending,
     ImageIsShown
<1>. QED
  BY <1>1, <1>2, <1>3, <1>4, <1>5, <1>6 DEF PNext

\* The transaction stays sound in every run.
THEOREM TransactionTheorem == PSpec => []TInv
BY InitTInv, TInvStep, PTL DEF PSpec

\* The committed image is always the one that the terminal shows, for any
\* output and any cut, resumption or surrender of it.
THEOREM ImageTheorem == PSpec => []ImageIsShown
<1>1. TInv => ImageIsShown
  BY DEF TInv
<1>. QED
  BY <1>1, TransactionTheorem, PTL

\* A fullscreen output is registered with the terminal exactly while it is
\* pending.
THEOREM RegistrationTheorem == PSpec => []RegisteredWhilePending
<1>1. TInv => RegisteredWhilePending
  BY DEF TInv
<1>. QED
  BY <1>1, TransactionTheorem, PTL

\* No unit of a fullscreen output reaches the terminal in a later generation
\* than the one it was begun in.
THEOREM RepaintTheorem == PSpec => NoStaleRepaint
<1>1. ASSUME TInv, [PNext]_pvars, wire'.delivered # wire.delivered, p.next.fullscreen, pc # "idle"
      PROVE  epoch = wire.epoch
  <2>1. CASE Write
    <3>1. pc = "write"
      BY <2>1 DEF Write
    <3>. QED
      BY <1>1, <3>1 DEF TInv, InEpoch
  <2>2. CASE Commit
    <3>1. wire' = [wire EXCEPT !.ended = "whole", !.epoch = 0]
      BY <2>2 DEF Commit, Commits
    <3>2. wire'.delivered = wire.delivered
      BY <1>1, <3>1 DEF TInv, IsWire
    <3>. QED
      BY <1>1, <3>2
  <2>3. CASE Gate
    BY <1>1, <2>3 DEF Gate, Fails, Returns
  <2>4. CASE UNCHANGED wire
    BY <1>1, <2>4
  <2>5. CASE pc = "idle"
    BY <1>1, <2>5
  <2>. QED
    BY <1>1, <2>1, <2>2, <2>3, <2>4, <2>5
       DEF PNext, Present, Resume, Reset, Destroy, Anew, ObserveCursor, ForgetCursor, LocalEcho,
           Busy, Call, Notify, Counting, Cancel, Released, Flipped, pvars
<1>2. TInv /\ [PNext]_pvars
        => [wire'.delivered # wire.delivered /\ p.next.fullscreen /\ pc # "idle"
              => epoch = wire.epoch]_pvars
  BY <1>1
<1>. QED
  BY <1>2, TransactionTheorem, PTL DEF PSpec, NoStaleRepaint
=============================================================================
