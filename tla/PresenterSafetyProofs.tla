------------------------ MODULE PresenterSafetyProofs ------------------------
(***************************************************************************)
(* What the presenter promises of holds, recovery, the fullscreen policy   *)
(* and the outputs, for all frames, bounds and changes of the terminal.    *)
(* Each step is first summed up by what it may change; every invariant is  *)
(* then proved from these summaries.                                       *)
(***************************************************************************)
EXTENDS PresenterProofs, FiniteSetTheorems

\* r is q but for the fields in S.
Differs(q, r, S) == IsPresenter(r) /\ \A x \in Fields \ S : r[x] = q[x]
Repaints(q) == q.output_pending /\ q.next.fullscreen
Resumes(q) == foreground /\ (q.fullscreen \/ q.foreground_fullscreen)

\* What observing the terminal changes, field by field.
Sighted == {"foreground_fullscreen", "background", "generation", "cursor_known"}
FellBack == Sighted \cup {"fullscreen", "fullscreen_resume", "recovery", "pending",
                          "pending_ticks", "echo", "queue", "stats"}

\* What observing the terminal does to a presenter: nothing, the end of a fullscreen
\* output, a change of the policy, or a note of the change.
LEMMA ObservedFields ==
  ASSUME NEW q, IsPresenter(q)
  PROVE  LET r == Observed(q)
         IN \/ r = q /\ q.background = ~foreground
            \/ /\ Repaints(q) /\ Differs(q, r, Sighted \cup {"error"})
               /\ r.error = "BACKGROUND" /\ r.background = ~foreground /\ r.cursor_known = FALSE
               /\ r.foreground_fullscreen = Remembered(q, ~foreground)
            \/ /\ ~Repaints(q) /\ (q.fullscreen \/ Resumes(q)) /\ Differs(q, r, FellBack)
               /\ r.background = ~foreground /\ r.cursor_known = FALSE
               /\ r.fullscreen = Resumes(q) /\ r.fullscreen_resume = Resumes(q)
               /\ r.foreground_fullscreen = (Remembered(q, ~foreground) /\ ~Resumes(q))
               /\ r.recovery = NoRecovery /\ r.pending = FALSE /\ r.pending_ticks = 0
               /\ r.echo = FALSE /\ r.queue = <<>>
               /\ r.stats = [q.stats EXCEPT !.discarded = @ + Len(q.queue)]
            \/ /\ ~Repaints(q) /\ ~q.fullscreen /\ ~Resumes(q) /\ Differs(q, r, Sighted)
               /\ r.background = ~foreground /\ r.cursor_known = FALSE
               /\ r.foreground_fullscreen = Remembered(q, ~foreground)
<1> DEFINE r == [q EXCEPT !.foreground_fullscreen = Remembered(q, ~foreground),
                          !.background = ~foreground, !.generation = epoch, !.cursor_known = FALSE]
           s == [r EXCEPT !.fullscreen = Resumes(q), !.fullscreen_resume = Resumes(q),
                          !.foreground_fullscreen = @ /\ ~Resumes(q),
                          !.recovery = NoRecovery, !.pending = FALSE, !.pending_ticks = 0,
                          !.echo = FALSE]
           same == q.background = ~foreground /\ q.generation = epoch
<1>1. /\ Differs(q, r, Sighted) /\ r.background = ~foreground /\ r.cursor_known = FALSE
      /\ r.foreground_fullscreen = Remembered(q, ~foreground)
  BY DEF IsPresenter, Differs, Sighted, Fields
<1>2. /\ Differs(q, [r EXCEPT !.error = "BACKGROUND"], Sighted \cup {"error"})
      /\ [r EXCEPT !.error = "BACKGROUND"].error = "BACKGROUND"
      /\ [r EXCEPT !.error = "BACKGROUND"].background = ~foreground /\ [r EXCEPT !.error = "BACKGROUND"].cursor_known = FALSE
      /\ [r EXCEPT !.error = "BACKGROUND"].foreground_fullscreen = Remembered(q, ~foreground)
  <2> HIDE DEF r
  <2>. QED
    BY <1>1 DEF IsPresenter, Differs, Sighted, Fields
<1>3. /\ Differs(q, s, FellBack \ {"queue", "stats"}) /\ s.background = ~foreground /\ s.cursor_known = FALSE
      /\ s.fullscreen = Resumes(q) /\ s.fullscreen_resume = Resumes(q)
      /\ s.foreground_fullscreen = (Remembered(q, ~foreground) /\ ~Resumes(q))
      /\ s.recovery = NoRecovery /\ s.pending = FALSE /\ s.pending_ticks = 0 /\ s.echo = FALSE
  <2> HIDE DEF r
  <2>. QED
    BY <1>1 DEF IsPresenter, Differs, FellBack, Sighted, Fields
<1>4. /\ Differs(s, Discarded(s), {"queue", "stats"})
      /\ Discarded(s).queue = <<>>
      /\ Discarded(s).stats = [s.stats EXCEPT !.discarded = @ + Len(s.queue)]
  <2> HIDE DEF s
  <2>. QED
    BY <1>3 DEF IsPresenter, Differs, Discarded, Fields
<1>5. s.stats = q.stats /\ s.queue = q.queue
  <2> HIDE DEF s
  <2>. QED
    BY <1>3 DEF Differs, FellBack, Sighted, Fields
<1>6. CASE same
  BY <1>6, Zenon DEF Observed
<1>7. CASE ~same /\ Repaints(q)
  <2>1. Observed(q) = [r EXCEPT !.error = "BACKGROUND"]
    BY <1>7 DEF Observed, Repaints
  <2>. QED
    BY <1>2, <1>7, <2>1
<1>8. CASE ~same /\ ~Repaints(q) /\ (q.fullscreen \/ Resumes(q))
  <2>1. Observed(q) = Discarded(s)
    BY <1>8 DEF Observed, Repaints, Resumes
  <2> HIDE DEF s
  <2> DEFINE d == Discarded(s)
  <2>2. d.stats = [q.stats EXCEPT !.discarded = @ + Len(q.queue)]
    BY <1>4, <1>5
  <2>3. Differs(s, d, {"queue", "stats"}) /\ d.queue = <<>>
    BY <1>4
  <2> HIDE DEF d
  <2>4. Differs(q, d, FellBack) /\ d.background = ~foreground /\ d.cursor_known = FALSE
    BY <1>3, <2>3 DEF Differs, FellBack, Sighted, Fields
  <2>5. /\ d.fullscreen = Resumes(q) /\ d.fullscreen_resume = Resumes(q)
        /\ d.foreground_fullscreen = (Remembered(q, ~foreground) /\ ~Resumes(q))
        /\ d.recovery = NoRecovery /\ d.pending = FALSE /\ d.pending_ticks = 0 /\ d.echo = FALSE
    BY <1>3, <2>3 DEF Differs, Fields
  <2>. QED
    BY <1>8, <2>1, <2>2, <2>3, <2>4, <2>5 DEF d
<1>9. CASE ~same /\ ~Repaints(q) /\ ~q.fullscreen /\ ~Resumes(q)
  <2>1. Observed(q) = r
    BY <1>9 DEF Observed, Repaints, Resumes
  <2>. QED
    BY <1>1, <1>9, <2>1
<1>. QED
  BY <1>6, <1>7, <1>8, <1>9

\* What every valid frame changes before it is judged, field by field.
Seeing == {"queue", "stats", "disabled_ticks", "released", "holding", "scroll_ticks",
           "pending", "pending_ticks"}
\* A frame that is seen ages the queue, and renews or prolongs its holds.
LEMMA SeenFields ==
  ASSUME NEW q, IsPresenter(q), NEW f
  PROVE  LET r == Seen(q, f)
             changed == q.released \/ f.changed
             ticks == q.disabled_ticks + (IF changed THEN 0 ELSE f.ticks)
             held == IF ~q.holding THEN 0
                     ELSE IF q.scroll_ticks < ScrollHold THEN q.scroll_ticks + f.ticks
                     ELSE q.scroll_ticks
         IN /\ Differs(q, r, Seeing)
            /\ r.queue = Aged(q, f.ticks).queue /\ r.stats = Aged(q, f.ticks).stats
            /\ r.disabled_ticks = IF f.disabled THEN ticks ELSE 0
            /\ r.released = (f.disabled /\ (changed \/ ticks >= BlankHold))
            /\ r.holding = Copying(f)
            /\ r.scroll_ticks = IF Copying(f) THEN held ELSE 0
            /\ IF Copying(f) /\ held >= ScrollHold /\ ~f.disabled
               THEN r.pending = TRUE /\ r.pending_ticks = Confirm
               ELSE r.pending = q.pending /\ r.pending_ticks = q.pending_ticks
<1> DEFINE a == Aged(q, f.ticks)
           b == Blanked(a, f)
           h == Held(b, f)
           changed == q.released \/ f.changed
           ticks == q.disabled_ticks + (IF changed THEN 0 ELSE f.ticks)
           held == IF ~q.holding THEN 0
                   ELSE IF q.scroll_ticks < ScrollHold THEN q.scroll_ticks + f.ticks
                   ELSE q.scroll_ticks
<1>1. Differs(q, a, {"queue", "stats"})
  BY DEF IsPresenter, Differs, Aged, Fields
<1>2. /\ Differs(a, b, {"disabled_ticks", "released"})
      /\ LET c == a.released \/ f.changed
             t == a.disabled_ticks + (IF c THEN 0 ELSE f.ticks)
         IN b.disabled_ticks = (IF f.disabled THEN t ELSE 0)
            /\ b.released = (f.disabled /\ (c \/ t >= BlankHold))
  <2>0. IsPresenter(a)
    BY <1>1 DEF Differs
  <2> HIDE DEF a
  <2>. QED
    BY <2>0 DEF IsPresenter, Differs, Blanked, Fields
<1>3. /\ Differs(b, h, {"holding", "scroll_ticks"}) /\ h.holding = TRUE
      /\ h.scroll_ticks = IF ~b.holding THEN 0
                          ELSE IF b.scroll_ticks < ScrollHold THEN b.scroll_ticks + f.ticks
                          ELSE b.scroll_ticks
  <2>0. IsPresenter(b)
    BY <1>2 DEF Differs
  <2> HIDE DEF b
  <2>1. CASE ~b.holding
    BY <2>0, <2>1 DEF IsPresenter, Differs, Held, Fields
  <2>2. CASE b.holding /\ b.scroll_ticks < ScrollHold
    BY <2>0, <2>2 DEF IsPresenter, Differs, Held, Fields
  <2>3. CASE b.holding /\ ~(b.scroll_ticks < ScrollHold)
    BY <2>0, <2>3 DEF IsPresenter, Differs, Held, Fields
  <2>. QED
    BY <2>1, <2>2, <2>3
<1>4. LET r == Scrolled(b, f)
      IN /\ Differs(b, r, {"holding", "scroll_ticks", "pending", "pending_ticks"})
         /\ r.holding = Copying(f) /\ r.scroll_ticks = (IF Copying(f) THEN h.scroll_ticks ELSE 0)
         /\ IF Copying(f) /\ h.scroll_ticks >= ScrollHold /\ ~f.disabled
            THEN r.pending = TRUE /\ r.pending_ticks = Confirm
            ELSE r.pending = b.pending /\ r.pending_ticks = b.pending_ticks
  <2>0. IsPresenter(b) /\ IsPresenter(h)
    BY <1>2, <1>3 DEF Differs
  <2>1. \/ ~Copying(f) /\ Scrolled(b, f) = [b EXCEPT !.holding = FALSE, !.scroll_ticks = 0]
        \/ /\ Copying(f) /\ h.scroll_ticks >= ScrollHold /\ ~f.disabled
           /\ Scrolled(b, f) = [h EXCEPT !.pending = TRUE, !.pending_ticks = Confirm]
        \/ Copying(f) /\ ~(h.scroll_ticks >= ScrollHold /\ ~f.disabled) /\ Scrolled(b, f) = h
    BY DEF Scrolled
  <2> HIDE DEF b, h
  <2>2. CASE ~Copying(f) /\ Scrolled(b, f) = [b EXCEPT !.holding = FALSE, !.scroll_ticks = 0]
    BY <2>0, <2>2 DEF IsPresenter, Differs, Fields, Copying
  <2>3. CASE /\ Copying(f) /\ h.scroll_ticks >= ScrollHold /\ ~f.disabled
             /\ Scrolled(b, f) = [h EXCEPT !.pending = TRUE, !.pending_ticks = Confirm]
    BY <1>3, <2>0, <2>3 DEF IsPresenter, Differs, Fields
  <2>4. CASE Copying(f) /\ ~(h.scroll_ticks >= ScrollHold /\ ~f.disabled) /\ Scrolled(b, f) = h
    BY <1>3, <2>0, <2>4 DEF IsPresenter, Differs, Fields
  <2>. QED
    BY <2>1, <2>2, <2>3, <2>4
<1>5. /\ a.released = q.released /\ a.disabled_ticks = q.disabled_ticks
      /\ b.holding = q.holding /\ b.scroll_ticks = q.scroll_ticks
      /\ b.pending = q.pending /\ b.pending_ticks = q.pending_ticks
  BY <1>1, <1>2 DEF Differs, Fields
<1> DEFINE r == Scrolled(b, f)
<1>6. Seen(q, f) = r
  BY DEF Seen
<1>7. h.scroll_ticks = held
  BY <1>3, <1>5
<1>8. /\ r.holding = Copying(f) /\ r.scroll_ticks = (IF Copying(f) THEN held ELSE 0)
      /\ IF Copying(f) /\ held >= ScrollHold /\ ~f.disabled
         THEN r.pending = TRUE /\ r.pending_ticks = Confirm
         ELSE r.pending = q.pending /\ r.pending_ticks = q.pending_ticks
  BY <1>4, <1>5, <1>7
<1>9. Differs(b, r, {"holding", "scroll_ticks", "pending", "pending_ticks"})
  BY <1>4
<1>10. /\ b.disabled_ticks = (IF f.disabled THEN ticks ELSE 0)
       /\ b.released = (f.disabled /\ (changed \/ ticks >= BlankHold))
  BY <1>2, <1>5
<1> HIDE DEF a, b, r, h
<1>11. /\ r.disabled_ticks = (IF f.disabled THEN ticks ELSE 0)
       /\ r.released = (f.disabled /\ (changed \/ ticks >= BlankHold))
  BY <1>9, <1>10 DEF Differs, Fields
<1>12. Differs(q, r, Seeing) /\ r.queue = a.queue /\ r.stats = a.stats
  BY <1>1, <1>2, <1>9 DEF Differs, Seeing, Fields
<1>. QED
  BY <1>6, <1>8, <1>11, <1>12 DEF a

\* What the history remembers of a call that returns.
LEMMA ToldFields ==
  ASSUME NEW h, IsPast(h), NEW q
  PROVE  LET t == Told(h, q)
         IN /\ IsPast(t) /\ \A x \in Marks \ {"overtaken", "wait"} : t[x] = h[x]
            /\ t.overtaken = (h.overtaken \/ (q.output_pending /\ ~q.next.fullscreen /\ q.fullscreen))
            /\ t.wait = IF q.fullscreen THEN -1 ELSE h.wait
BY DEF Told, IsPast, Marks

\* What it remembers of a frame.
Planning(q, f) == ~Withheld(q, f) /\ q.fullscreen /\ Reversible /\ Fits(q, Masked(f))
SeenNext(seen, g) ==
  IF g.trace.clear THEN "line"
  ELSE IF g.trace.foreign \/ ~(seen # "none" \/ g.trace.advanced) THEN "none"
  ELSE IF seen = "text" \/ g.trace.text THEN "text" ELSE "line"
CalmNext(seen, g) ==
  SeenNext(seen, g) = "text" /\ g.trace.frontier /\ ~g.trace.clear /\ ~g.trace.foreign

\* The durations and the trace of a frame, field by field.
LEMMA WatchedFields ==
  ASSUME NEW h, IsPast(h), NEW q, NEW f
  PROVE  LET w == Watched(h, q, f)
             g == Masked(f)
         IN /\ IsPast(w)
            /\ \A x \in {"shown", "dirty", "policy", "overtaken", "taken"} : w[x] = h[x]
            /\ w.copies = IF Copying(f) THEN Longer(h.copies, f, ScrollHold) ELSE -1
            /\ w.blanks = IF ~f.disabled THEN 0
                          ELSE IF f.changed THEN BlankHold ELSE Min({h.blanks + f.ticks, BlankHold})
            /\ w.wait = IF Withheld(q, f) \/ q.fullscreen THEN h.wait
                        ELSE IF Fits(q, g) THEN -1 ELSE Longer(h.wait, f, Confirm)
            /\ w.seen = IF Planning(q, f) THEN SeenNext(h.seen, g)
                        ELSE IF ~Withheld(q, f) THEN "none" ELSE h.seen
            /\ w.calm = IF Planning(q, f) /\ CalmNext(h.seen, g) THEN Longer(h.calm, f, Confirm)
                        ELSE IF ~Withheld(q, f) THEN -1 ELSE h.calm
BY DEF Watched, IsPast, Marks, Planning, SeenNext, CalmNext

-----------------------------------------------------------------------------
(***************************************************************************)
(* What a step can do to the presenter.  Looks: a call that ends without a *)
(* frame, or goes on to write.  Judges: a frame that is withheld, answered *)
(* or begun.                                                               *)
(***************************************************************************)
Minor == {"error", "cursor_known", "echo", "echo_failed", "queue", "stats", "recent"}
Touches(q, r) ==
  Differs(q, r, Minor) /\ \A x \in {"cursor_known", "echo", "echo_failed"} : r[x] \in {q[x], TRUE, FALSE}
Looks == \E q \in {p, Observed(p)} :
  /\ Touches(q, p') /\ p'.error \in Errors /\ (p'.error = "ok" => q.error = "ok")
  /\ hist' = Told(hist, p') \/ (q = p /\ hist' = [hist EXCEPT !.taken = @ + 1])
  /\ pc' \in {"idle", "gate", "write"} /\ (pc' # "idle" => p.output_pending)
  /\ pc' = "idle" => result' # "PENDING"

Starting == {"output_pending", "written", "registered", "next"}
Begun(q, f, fullscreen) ==
  /\ Differs(q, p', Starting) /\ pc' = "gate"
  /\ p'.output_pending = TRUE /\ p'.written = 0 /\ p'.registered = fullscreen
  /\ p'.next.fullscreen = fullscreen /\ p'.next.total \in 0..MaxUnits
  /\ \E plan, clear : \E t \in Trials(q, plan, clear) :
       p'.next.queue = t.queue /\ p'.next.stats = t.stats
  /\ hist' = Told(Watched(hist, q, f), q)
  /\ wire' = [total |-> p'.next.total, delivered |-> 0, ended |-> "none", epoch |-> epoch]
Answered(q, f) ==
  /\ Differs(q, p', {"error"}) /\ p'.error \in {q.error, "UNREPRESENTABLE", "TERMINAL"}
  /\ pc' = pc /\ result' # "PENDING"
  /\ hist' = Told(Watched(hist, q, f), q) /\ UNCHANGED wire

JudgesFullscreen(q, f) ==
  LET planned == Reversible /\ Fits(q, Masked(f))
      r == [q EXCEPT !.recovery = IF planned THEN recovering(q.recovery, Masked(f)) ELSE NoRecovery]
  IN \/ Answered(r, f)
     \/ /\ Begun(r, f, TRUE)
        /\ p'.next.recovered => planned /\ Recovered(r.recovery) /\ ~q.fullscreen_resume
JudgesGlass(q, f) ==
  LET w == [q EXCEPT !.pending = TRUE,
                     !.pending_ticks = IF q.pending THEN Min({q.pending_ticks + f.ticks, Confirm}) ELSE 0]
  IN \/ Fits(q, Masked(f)) /\ Begun(q, f, FALSE)
     \/ /\ ~Fits(q, Masked(f)) /\ w.pending_ticks < Confirm
        /\ p' = w /\ pc' = pc /\ result' = "PENDING" /\ hist' = Told(Watched(hist, w, f), w)
        /\ UNCHANGED wire
     \/ ~Fits(q, Masked(f)) /\ Answered(w, f)
     \/ ~Fits(q, Masked(f)) /\ ~q.background /\ Begun(w, f, TRUE) /\ p'.next.recovered = FALSE
Judges(f) ==
  LET q == Seen(Observed(p), f)
  IN /\ pc = "idle" /\ ~p.output_pending /\ Observed(p).error = "ok" /\ IsPresenter(q)
     /\ \/ /\ Withheld(q, f) /\ p' = q /\ pc' = pc /\ result' = "PENDING"
           /\ hist' = Told(Watched(hist, q, f), q) /\ UNCHANGED wire
        \/ ~Withheld(q, f) /\ q.fullscreen /\ JudgesFullscreen(q, f)
        \/ ~Withheld(q, f) /\ ~q.fullscreen /\ JudgesGlass(q, f)

\* The history of a frame says nothing of the error, the recovery and the wait.
Unwatched == {"error", "recovery", "pending", "pending_ticks"}

\* Presenters that differ only there leave the same history.
LEMMA SameWatch ==
  ASSUME NEW q, NEW r, IsPresenter(r), \A x \in Fields \ Unwatched : r[x] = q[x], NEW f
  PROVE  Told(Watched(hist, r, f), r) = Told(Watched(hist, q, f), q)
<1>1. /\ r.fullscreen = q.fullscreen /\ r.output_pending = q.output_pending /\ r.next = q.next
      /\ r.scroll_ticks = q.scroll_ticks /\ r.released = q.released /\ r.echo_failed = q.echo_failed
  BY DEF Unwatched, Fields
<1>2. Withheld(r, f) = Withheld(q, f) /\ Fits(r, Masked(f)) = Fits(q, Masked(f))
  BY <1>1, Zenon DEF Withheld, Fits
<1>3. Watched(hist, r, f) = Watched(hist, q, f)
  BY <1>1, <1>2, Zenon DEF Watched
<1>4. \A h : Told(h, r) = Told(h, q)
  BY <1>1, Zenon DEF Told
<1>. QED
  BY <1>3, <1>4, Zenon

\* An output that begins.
LEMMA BeginsBegun ==
  ASSUME NEW q, IsPresenter(q), NEW f, NEW fullscreen \in BOOLEAN, NEW plan, NEW recovered,
         Begins(q, f, fullscreen, plan, recovered)
  PROVE  Begun(q, f, fullscreen) /\ p'.next.recovered = recovered
<1>1. PICK t \in Trials(q, plan, Masked(f).trace.clear), total \in 0..MaxUnits, inside \in BOOLEAN :
        /\ p' = [q EXCEPT !.output_pending = TRUE, !.written = 0, !.registered = fullscreen,
                   !.next = [fullscreen |-> fullscreen, plan |-> plan, recovered |-> recovered,
                             inside |-> inside, image |-> 1 - q.image,
                             queue |-> t.queue, stats |-> t.stats, total |-> total]]
        /\ pc' = "gate" /\ hist' = Told(Watched(hist, q, f), q)
        /\ wire' = [total |-> total, delivered |-> 0, ended |-> "none", epoch |-> epoch]
  BY DEF Begins, Planned
<1>2. /\ Differs(q, p', Starting)
      /\ p'.output_pending = TRUE /\ p'.written = 0 /\ p'.registered = fullscreen
      /\ p'.next = [fullscreen |-> fullscreen, plan |-> plan, recovered |-> recovered,
                    inside |-> inside, image |-> 1 - q.image,
                    queue |-> t.queue, stats |-> t.stats, total |-> total]
  BY <1>1 DEF IsPresenter, Differs, Starting, Fields
<1>. QED
  BY <1>1, <1>2 DEF Begun

\* draw_fullscreen begins one, or answers.
LEMMA DrawsOrAnswers ==
  ASSUME NEW q, IsPresenter(q), NEW f, NEW entering, NEW plan, NEW recovered,
         Draws(q, f, entering, plan, recovered)
  PROVE  \/ Answered(q, f)
         \/ Begun(q, f, TRUE) /\ p'.next.recovered = (recovered /\ ~q.fullscreen_resume)
<1>1. CASE Begins(q, f, TRUE, plan, recovered /\ ~q.fullscreen_resume)
  BY <1>1, BeginsBegun
<1>2. CASE Answers(q, f, "NEEDS_CURSOR")
  BY <1>2 DEF Answers, Answered, IsPresenter, Differs
<1>3. ASSUME NEW e \in {"UNREPRESENTABLE", "TERMINAL"}, Failing(q, f, e)
      PROVE  Answered(q, f)
  <2> DEFINE r == [q EXCEPT !.error = e]
  <2>1. Differs(q, r, {"error"}) /\ r.error = e
    BY DEF IsPresenter, Differs, Fields
  <2> HIDE DEF r
  <2>2. /\ p' = r /\ pc' = pc /\ result' = e /\ hist' = Told(Watched(hist, r, f), r)
        /\ UNCHANGED wire
    BY <1>3 DEF Failing, Answers, r
  <2>3. Told(Watched(hist, r, f), r) = Told(Watched(hist, q, f), q)
    BY <2>1, SameWatch DEF Differs, Unwatched
  <2>. QED
    BY <2>1, <2>2, <2>3 DEF Answered
<1>. QED
  BY <1>1, <1>2, <1>3 DEF Draws

\* A frame is refused after the terminal has been observed, or judged.
LEMMA PresentJudges ==
  ASSUME IsPresenter(p), p.error \in Errors, NEW f, Present(f)
  PROVE  (\E e : e # "PENDING" /\ Returns(Observed(p), e)) \/ Judges(f)
<1> DEFINE o == Observed(p)
           q == Seen(o, f)
<1>0. IsPresenter(o) /\ o.error \in Errors /\ o.output_pending = p.output_pending
  BY ObservedOutput DEF SameOutput, Errors
<1>1. ASSUME NEW e, Returns(o, e), e \in Errors \cup {"BUSY", "ARGUMENT"}
      PROVE  \E r : r # "PENDING" /\ Returns(o, r)
  BY <1>1 DEF Errors
<1>2. ASSUME o.error = "ok", ~o.output_pending,
             IF Withheld(q, f) THEN Answers(q, f, "PENDING")
             ELSE IF q.fullscreen THEN ShowsFullscreen(q, f) ELSE ShowsGlass(q, f)
      PROVE  Judges(f)
  <2> HIDE DEF o
  <2>0. IsPresenter(q) /\ pc = "idle" /\ ~p.output_pending
    BY <1>0, <1>2, SeenFields DEF Differs, Present
  <2> HIDE DEF q
  <2>1. CASE Withheld(q, f)
    BY <1>2, <2>0, <2>1 DEF Answers, Judges, q, o
  <2>2. CASE ~Withheld(q, f) /\ q.fullscreen
    <3> DEFINE planned == Reversible /\ Fits(q, Masked(f))
               r == [q EXCEPT !.recovery = IF planned THEN recovering(q.recovery, Masked(f))
                                           ELSE NoRecovery]
    <3>1. Draws(r, f, FALSE, planned, planned /\ Recovered(r.recovery))
      BY <1>2, <2>2 DEF ShowsFullscreen
    <3>2. IsPresenter(r) /\ r.fullscreen_resume = q.fullscreen_resume
      BY <2>0 DEF IsPresenter, Fields
    <3>3. \/ Answered(r, f)
          \/ /\ Begun(r, f, TRUE)
             /\ p'.next.recovered = (planned /\ Recovered(r.recovery) /\ ~q.fullscreen_resume)
      <4> HIDE DEF r, planned
      <4>. QED
        BY <3>1, <3>2, DrawsOrAnswers
    <3>4. JudgesFullscreen(q, f)
      BY <3>3 DEF JudgesFullscreen
    <3>. QED
      BY <1>2, <2>0, <2>2, <3>4 DEF Judges, q, o
  <2>3. CASE ~Withheld(q, f) /\ ~q.fullscreen
    <3> DEFINE w == [q EXCEPT !.pending = TRUE,
                       !.pending_ticks = IF q.pending THEN Min({q.pending_ticks + f.ticks, Confirm}) ELSE 0]
    <3>1. IsPresenter(w) /\ w.background = q.background
      BY <2>0 DEF IsPresenter, Fields
    <3>2. \/ Fits(q, Masked(f)) /\ Begins(q, f, FALSE, TRUE, FALSE)
          \/ ~Fits(q, Masked(f)) /\ w.pending_ticks < Confirm /\ Answers(w, f, "PENDING")
          \/ ~Fits(q, Masked(f)) /\ ~q.background /\ Draws(w, f, TRUE, FALSE, FALSE)
          \/ ~Fits(q, Masked(f)) /\ Failing(w, f, "UNREPRESENTABLE")
      BY <1>2, <2>3 DEF ShowsGlass
    <3>3. CASE Fits(q, Masked(f)) /\ Begins(q, f, FALSE, TRUE, FALSE)
      <4>1. JudgesGlass(q, f)
        BY <2>0, <3>3, BeginsBegun DEF JudgesGlass
      <4>. QED
        BY <1>2, <2>0, <2>3, <4>1 DEF Judges, q, o
    <3>4. CASE ~Fits(q, Masked(f)) /\ w.pending_ticks < Confirm /\ Answers(w, f, "PENDING")
      <4>1. JudgesGlass(q, f)
        BY <3>4 DEF JudgesGlass, Answers
      <4>. QED
        BY <1>2, <2>0, <2>3, <4>1 DEF Judges, q, o
    <3>5. CASE ~Fits(q, Masked(f)) /\ ~q.background /\ Draws(w, f, TRUE, FALSE, FALSE)
      <4>1. Answered(w, f) \/ (Begun(w, f, TRUE) /\ p'.next.recovered = FALSE)
        <5> HIDE DEF w
        <5>. QED
          BY <3>1, <3>5, DrawsOrAnswers
      <4>2. JudgesGlass(q, f)
        BY <3>5, <4>1 DEF JudgesGlass
      <4>. QED
        BY <1>2, <2>0, <2>3, <4>2 DEF Judges, q, o
    <3>6. CASE ~Fits(q, Masked(f)) /\ Failing(w, f, "UNREPRESENTABLE")
      <4>1. Answered(w, f)
        <5> HIDE DEF w
        <5> DEFINE r == [w EXCEPT !.error = "UNREPRESENTABLE"]
        <5>1. Differs(w, r, {"error"}) /\ r.error = "UNREPRESENTABLE"
          BY <3>1 DEF IsPresenter, Differs, Fields
        <5> HIDE DEF r
        <5>2. /\ p' = r /\ pc' = pc /\ result' = "UNREPRESENTABLE"
              /\ hist' = Told(Watched(hist, r, f), r) /\ UNCHANGED wire
          BY <3>6 DEF Failing, Answers, r
        <5>3. Told(Watched(hist, r, f), r) = Told(Watched(hist, w, f), w)
          BY <5>1, SameWatch DEF Differs, Unwatched
        <5>. QED
          BY <5>1, <5>2, <5>3 DEF Answered
      <4>2. JudgesGlass(q, f)
        BY <3>6, <4>1 DEF JudgesGlass
      <4>. QED
        BY <1>2, <2>0, <2>3, <4>2 DEF Judges, q, o
    <3>. QED
      BY <3>2, <3>3, <3>4, <3>5, <3>6
  <2>. QED
    BY <2>1, <2>2, <2>3
<1>. QED
  BY <1>0, <1>1, <1>2 DEF Present


-----------------------------------------------------------------------------
(***************************************************************************)
(* The steps that are no frames.                                           *)
(***************************************************************************)
\* A call that returns, with little more changed than what it has observed.
LEMMA ReturnLooks ==
  ASSUME NEW q \in {p, Observed(p)}, NEW r, Touches(q, r), r.error \in Errors,
         r.error = "ok" => q.error = "ok", NEW e, e # "PENDING", Returns(r, e)
  PROVE  Looks
BY DEF Looks, Returns

\* The error of a presenter replaced.
LEMMA FailedDiffers ==
  ASSUME NEW q, IsPresenter(q), NEW e
  PROVE  Touches(q, [q EXCEPT !.error = e]) /\ [q EXCEPT !.error = e].error = e
BY DEF IsPresenter, Touches, Differs, Minor, Fields

\* Observing keeps the errors known.
LEMMA ObservedErrors ==
  ASSUME IsPresenter(p), p.error \in Errors
  PROVE  /\ IsPresenter(Observed(p)) /\ Observed(p).error \in Errors
         /\ Observed(p).output_pending = p.output_pending
         /\ Touches(p, p) /\ Touches(Observed(p), Observed(p))
BY ObservedOutput DEF SameOutput, Errors, Touches, Differs

\* Behind the gate nothing but the terminal is looked at.
LEMMA GateLooks == ASSUME IsPresenter(p), p.error \in Errors, UnderWay, Gate PROVE Looks
<1> DEFINE q == Observed(p)
<1>1. \/ Fails(p, "BACKGROUND") \/ Fails(p, "SYSTEM") \/ Returns(p, "BUSY")
      \/ (Fails(q, q.error) /\ q.error # "ok") \/ Fails(q, "BACKGROUND")
      \/ /\ p.output_pending /\ p' = q /\ pc' = "write" /\ hist' = Told(hist, q)
  BY DEF Gate, Rechecked, UnderWay
<1>2. ASSUME NEW r \in {p, q}, NEW e, e \in Errors \ {"ok"}, Fails(r, e) PROVE Looks
  <2>1. Touches(r, [r EXCEPT !.error = e]) /\ [r EXCEPT !.error = e].error = e
    BY <1>2, ObservedErrors, FailedDiffers
  <2>2. Returns([r EXCEPT !.error = e], e)
    BY <1>2 DEF Fails
  <2>. QED
    BY <1>2, <2>1, <2>2, ReturnLooks DEF Errors
<1>3. CASE Returns(p, "BUSY")
  BY <1>3, ObservedErrors, ReturnLooks
<1>4. CASE p.output_pending /\ p' = q /\ pc' = "write" /\ hist' = Told(hist, q)
  <2>1. IsPresenter(q) /\ q.error \in Errors /\ Touches(q, q)
    BY ObservedErrors
  <2> HIDE DEF q
  <2>2. /\ Touches(q, p') /\ p'.error \in Errors /\ hist' = Told(hist, p')
        /\ p'.output_pending
    BY <1>4, <2>1, ObservedErrors DEF q
  <2>. QED
    BY <1>4, <2>1, <2>2 DEF Looks, q
<1>. QED
  BY <1>1, <1>2, <1>3, <1>4, ObservedErrors DEF Errors

\* A resume does no more.
LEMMA ResumeLooks == ASSUME IsPresenter(p), p.error \in Errors, Resume PROVE Looks
<1> DEFINE q == Observed(p)
<1>1. \/ \E e \in Errors \cup {"BUSY", "ARGUMENT"} : Returns(q, e)
      \/ /\ q.output_pending /\ p' = q /\ pc' = "gate" /\ hist' = Told(hist, q)
  BY ObservedErrors DEF Resume
<1>2. CASE \E e \in Errors \cup {"BUSY", "ARGUMENT"} : Returns(q, e)
  <2>1. PICK e \in Errors \cup {"BUSY", "ARGUMENT"} : Returns(q, e)
    BY <1>2
  <2>. QED
    BY <2>1, ObservedErrors, ReturnLooks DEF Errors
<1>3. CASE q.output_pending /\ p' = q /\ pc' = "gate" /\ hist' = Told(hist, q)
  <2>1. IsPresenter(q) /\ q.error \in Errors /\ Touches(q, q) /\ p.output_pending
    BY <1>3, ObservedErrors
  <2> HIDE DEF q
  <2>. QED
    BY <1>3, <2>1 DEF Looks, q
<1>. QED
  BY <1>1, <1>2, <1>3

\* Nor do the calls about the cursor, the local echo and the notifications.
LEMMA CallLooks ==
  ASSUME IsPresenter(p), p.error \in Errors, NEW id,
         ObserveCursor \/ ForgetCursor \/ LocalEcho \/ Notify(id) \/ Cancel(id)
  PROVE  Looks
<1> DEFINE o == Observed(p)
<1>0. /\ IsPresenter(o) /\ o.error \in Errors /\ Touches(p, p) /\ Touches(o, o)
  BY ObservedErrors
<1>1. ASSUME NEW q, NEW r, NEW s, Touches(q, r), Touches(r, s)
      PROVE  Touches(q, s)
  BY <1>1 DEF Touches, Differs
<1>2. ASSUME NEW q, IsPresenter(q)
      PROVE  /\ Touches(q, Discarded(q)) /\ Discarded(q).error = q.error
             /\ Touches(q, Drops(q)) /\ Drops(q).error = q.error
  <2>1. Touches(q, Discarded(q)) /\ Discarded(q).error = q.error
    BY <1>2 DEF Discarded, IsPresenter, Touches, Differs, Minor, Fields
  <2>2. IsPresenter(Discarded(q))
    BY <2>1 DEF Touches, Differs
  <2> DEFINE d == Discarded(q)
             e == [d EXCEPT !.stats.discarded = @ + 1]
  <2>3. Drops(q) = e
    BY DEF Drops
  <2> HIDE DEF d
  <2>4. Touches(d, e) /\ e.error = d.error
    BY <2>2 DEF d, IsPresenter, Touches, Differs, Minor, Fields
  <2>. QED
    BY <1>1, <2>1, <2>3, <2>4 DEF d
<1>3. ASSUME NEW q, IsPresenter(q)
      PROVE  Touches(q, Remember(q, id)) /\ Remember(q, id).error = q.error
  BY <1>3 DEF Remember, IsPresenter, Touches, Differs, Minor, Fields
<1>4. Touches(p, Without(p, id)) /\ Without(p, id).error = p.error
  BY <1>0 DEF Without, IsPresenter, Touches, Differs, Minor, Fields
<1>5. ASSUME NEW q \in {p, o}, NEW r, Touches(q, r), r.error = q.error, NEW e, e # "PENDING",
             Returns(r, e)
      PROVE  Looks
  BY <1>0, <1>5, ReturnLooks
<1>6. ASSUME NEW r, Touches(p, r), r.error = p.error, p' = r, Counting, result' # "PENDING"
      PROVE  Looks
  BY <1>6 DEF Looks, Counting
<1> HIDE DEF o
<1>7. CASE ObserveCursor \/ ForgetCursor \/ LocalEcho
  <2>1. \/ \E e : e # "PENDING" /\ (Returns(p, e) \/ Returns(o, e))
        \/ Returns([o EXCEPT !.cursor_known = TRUE], "OK")
        \/ Returns([p EXCEPT !.cursor_known = FALSE], "OK")
        \/ Returns([p EXCEPT !.echo = TRUE, !.cursor_known = FALSE], "OK")
        \/ Returns([p EXCEPT !.echo_failed = TRUE, !.cursor_known = FALSE], "UNREPRESENTABLE")
    BY <1>7 DEF ObserveCursor, ForgetCursor, LocalEcho, Busy, Call, Errors, o
  <2>2. ASSUME NEW r, \/ r = [o EXCEPT !.cursor_known = TRUE]
                      \/ r = [p EXCEPT !.cursor_known = FALSE]
                      \/ r = [p EXCEPT !.echo = TRUE, !.cursor_known = FALSE]
                      \/ r = [p EXCEPT !.echo_failed = TRUE, !.cursor_known = FALSE]
        PROVE  \E q \in {p, o} : Touches(q, r) /\ r.error = q.error
    BY <1>0, <2>2 DEF IsPresenter, Touches, Differs, Minor, Fields
  <2>. QED
    BY <1>0, <1>5, <2>1, <2>2
<1>8. CASE Notify(id)
  <2>1. \/ \E e : e # "PENDING" /\ Returns(p, e)
        \/ /\ Counting /\ result' # "PENDING"
           /\ p' = Drops(p) \/ \E queue : p' = Remember([p EXCEPT !.queue = queue], id)
    BY <1>8 DEF Notify, Busy, Call, Errors
  <2>2. ASSUME NEW queue
        PROVE  LET r == Remember([p EXCEPT !.queue = queue], id)
               IN Touches(p, r) /\ r.error = p.error
    <3>1. Touches(p, [p EXCEPT !.queue = queue]) /\ [p EXCEPT !.queue = queue].error = p.error
      BY DEF IsPresenter, Touches, Differs, Minor, Fields
    <3> DEFINE d == [p EXCEPT !.queue = queue]
    <3>2. IsPresenter(d) /\ Touches(p, d) /\ d.error = p.error
      BY <3>1 DEF Touches, Differs
    <3> HIDE DEF d
    <3>3. Touches(d, Remember(d, id)) /\ Remember(d, id).error = d.error
      BY <1>3, <3>2
    <3>. QED
      BY <1>1, <3>2, <3>3 DEF d
  <2>. QED
    BY <1>0, <1>2, <1>5, <1>6, <2>1, <2>2
<1>9. CASE Cancel(id)
  <2> DEFINE w == Without(p, id)
             r == Remember(w, id)
  <2>1. \E e : e # "PENDING" /\ (Returns(p, e) \/ Returns(w, e) \/ Returns(r, e))
    BY <1>9 DEF Cancel, Busy, Call
  <2>2. Touches(p, w) /\ w.error = p.error
    BY <1>4
  <2>3. Touches(p, r) /\ r.error = p.error
    <3> HIDE DEF w
    <3>. QED
      BY <1>1, <1>3, <2>2 DEF Touches, Differs
  <2>. QED
    BY <1>0, <1>5, <2>1, <2>2, <2>3
<1>. QED
  BY <1>7, <1>8, <1>9

\* A write of some units, the commit, and a reset or a destruction.
WritesUnit ==
  /\ Differs(p, p', {"written"}) /\ p'.written \in (p.written + 1)..p.next.total
  /\ p.output_pending /\ p.error = "ok"
  /\ IsPast(hist') /\ hist'.dirty = (hist.dirty \/ p.next.fullscreen)
  /\ \A x \in Marks \ {"dirty"} : hist'[x] = hist[x]
  /\ pc' = "idle" => result' # "PENDING"

Committed == {"initialized", "image", "output_pending", "registered", "pending", "pending_ticks",
              "echo_failed", "queue", "stats", "next", "written", "cursor_known",
              "fullscreen_resume", "echo", "fullscreen", "recovery"}
CommitsOutput ==
  LET afresh == p.next.fullscreen /\ (Entering(p) \/ ~p'.fullscreen)
  IN /\ p.output_pending /\ p.error = "ok" /\ Differs(p, p', Committed)
     /\ p'.initialized = TRUE /\ p'.output_pending = FALSE /\ p'.registered = FALSE
     /\ p'.pending = FALSE /\ p'.pending_ticks = 0 /\ p'.echo_failed = FALSE
     /\ p'.cursor_known \in BOOLEAN /\ p'.echo \in BOOLEAN
     /\ p'.queue = p.next.queue /\ p'.stats = p.next.stats /\ p'.next = NoNext /\ p'.written = 0
     /\ p'.fullscreen = (p.next.fullscreen /\ ~(p.next.recovered /\ p.next.inside))
     /\ p'.fullscreen_resume = (p.fullscreen_resume /\ ~p.next.fullscreen)
     /\ p'.recovery = IF afresh THEN NoRecovery ELSE p.recovery
     /\ IsPast(hist') /\ \A x \in {"overtaken", "taken", "copies", "blanks"} : hist'[x] = hist[x]
     /\ hist'.dirty = (p'.fullscreen \/ (hist.dirty /\ ~p.next.fullscreen))
     /\ hist'.policy = (p'.fullscreen \/ (hist.policy /\ ~p.next.fullscreen))
     /\ hist'.wait = -1 /\ hist'.seen = (IF afresh THEN "none" ELSE hist.seen)
     /\ hist'.calm = (IF afresh THEN -1 ELSE hist.calm)
     /\ pc' = "idle" /\ result' # "PENDING"

Renews ==
  \E stats, taken :
    /\ p' = [Fresh EXCEPT !.stats = stats] /\ hist' = [Past EXCEPT !.taken = taken]
    /\ pc' = "idle" /\ result' # "PENDING"
    /\ \/ stats = NoStats /\ taken = 0
       \/ stats = [p.stats EXCEPT !.discarded = @ + Len(p.queue)] /\ taken = hist.taken

Rests == UNCHANGED <<p, pc, result, hist>>

\* A write fails, would block, or hands over some units.
LEMMA WriteSummary ==
  ASSUME TInv, p.error \in Errors, p.written \in Nat, p.next.total \in Nat, Write
  PROVE  Looks \/ WritesUnit
<1>0. IsPresenter(p) /\ p.output_pending /\ p.error = "ok" /\ IsPast(hist)
  BY DEF TInv, UnderWay, Write
<1>1. ASSUME NEW e \in Errors \ {"ok"}, Fails(p, e) PROVE Looks
  <2>1. Touches(p, [p EXCEPT !.error = e]) /\ [p EXCEPT !.error = e].error = e
    BY <1>0, FailedDiffers
  <2>2. Returns([p EXCEPT !.error = e], e)
    BY <1>1 DEF Fails
  <2>. QED
    BY <2>1, <2>2, ReturnLooks DEF Errors
<1>2. CASE Returns(p, "WOULD_BLOCK")
  BY <1>0, <1>2, ObservedErrors, ReturnLooks
<1>3. ASSUME NEW n \in 1..(p.next.total - p.written), p' = [p EXCEPT !.written = p.written + n],
             hist' = [hist EXCEPT !.dirty = hist.dirty \/ p.next.fullscreen],
             \/ pc' = "idle" /\ result' = "WOULD_BLOCK"
             \/ pc' = "write"
      PROVE  WritesUnit
  <2>1. Differs(p, p', {"written"}) /\ p'.written = p.written + n
    BY <1>0, <1>3 DEF IsPresenter, Differs, Fields
  <2>2. /\ IsPast(hist') /\ hist'.dirty = (hist.dirty \/ p.next.fullscreen)
        /\ \A x \in Marks \ {"dirty"} : hist'[x] = hist[x]
    BY <1>0, <1>3 DEF IsPast, Marks
  <2>3. p'.written \in (p.written + 1)..p.next.total
    BY <2>1, <1>3
  <2>. QED
    BY <1>0, <1>3, <2>1, <2>2, <2>3 DEF WritesUnit
<1>4. \/ Fails(p, "BACKGROUND") \/ Fails(p, "SYSTEM") \/ Returns(p, "WOULD_BLOCK")
      \/ \E n \in 1..(p.next.total - p.written) :
           /\ p' = [p EXCEPT !.written = p.written + n]
           /\ hist' = [hist EXCEPT !.dirty = hist.dirty \/ p.next.fullscreen]
           /\ (pc' = "idle" /\ result' = "WOULD_BLOCK") \/ pc' = "write"
  BY DEF Write, Wrote
<1>. QED
  BY <1>1, <1>2, <1>3, <1>4 DEF Errors

\* The commit leaves nothing pending.
LEMMA CommitSummary == ASSUME TInv, Flags(p) \subseteq BOOLEAN, hist.overtaken \in BOOLEAN, Commit
                       PROVE  CommitsOutput
<1>0. /\ IsPresenter(p) /\ p.output_pending /\ p.error = "ok" /\ IsPast(hist)
      /\ {p.cursor_known, p.echo, p.fullscreen_resume} \subseteq BOOLEAN
  BY DEF TInv, UnderWay, Commit, Flags
<1>1. PICK echo \in BOOLEAN, known \in BOOLEAN : Commits(Confirmed(p, echo, known))
  BY DEF Commit
<1> DEFINE n == p.next
           out == [p EXCEPT !.initialized = TRUE, !.image = n.image, !.output_pending = FALSE,
                       !.registered = FALSE, !.pending = FALSE, !.pending_ticks = 0,
                       !.echo_failed = FALSE, !.queue = n.queue, !.stats = n.stats,
                       !.next = NoNext, !.written = 0]
           fullscreen == ~(n.recovered /\ n.inside)
           r == Confirmed(p, echo, known)
           Out(q) == /\ q.initialized = TRUE /\ q.output_pending = FALSE /\ q.registered = FALSE
                     /\ q.pending = FALSE /\ q.pending_ticks = 0 /\ q.echo_failed = FALSE
                     /\ q.queue = n.queue /\ q.stats = n.stats /\ q.next = NoNext /\ q.written = 0
<1>2. Out(out) /\ Differs(p, out, Committed \ {"cursor_known", "fullscreen_resume", "echo",
                                               "fullscreen", "recovery"})
  BY <1>0 DEF IsPresenter, Differs, Committed, Fields
<1>3. /\ out.recovery = p.recovery /\ out.fullscreen_resume = p.fullscreen_resume
      /\ out.cursor_known = p.cursor_known /\ out.echo = p.echo
  <2> HIDE DEF out
  <2>. QED
    BY <1>2 DEF Differs, Committed, Fields
<1>4. IsPresenter(out)
  BY <1>2 DEF Differs
<1> DEFINE Ends(q) ==
             /\ Out(q) /\ Differs(p, q, Committed) /\ q.cursor_known \in BOOLEAN /\ q.echo \in BOOLEAN
             /\ q.fullscreen = (n.fullscreen /\ fullscreen)
             /\ q.fullscreen_resume = (p.fullscreen_resume /\ ~n.fullscreen)
             /\ q.recovery = IF n.fullscreen /\ (Entering(p) \/ ~q.fullscreen) THEN NoRecovery
                             ELSE p.recovery
<1>5. ASSUME n.fullscreen PROVE Ends(r)
  <2> DEFINE recovery == IF Entering(p) \/ ~fullscreen THEN NoRecovery ELSE out.recovery
             s == [out EXCEPT !.cursor_known = TRUE, !.fullscreen_resume = FALSE, !.echo = FALSE,
                     !.fullscreen = fullscreen, !.recovery = recovery]
  <2>1. r = s
    BY <1>5 DEF Confirmed, Finished
  <2>2. recovery = IF Entering(p) \/ ~fullscreen THEN NoRecovery ELSE p.recovery
    BY <1>3
  <2> HIDE DEF out, recovery
  <2>3. /\ Differs(out, s, {"cursor_known", "fullscreen_resume", "echo", "fullscreen", "recovery"})
        /\ s.fullscreen = fullscreen /\ s.fullscreen_resume = FALSE /\ s.cursor_known = TRUE
        /\ s.echo = FALSE /\ s.recovery = recovery
    BY <1>4 DEF IsPresenter, Differs, Fields
  <2> HIDE DEF s
  <2>4. Out(s) /\ Differs(p, s, Committed)
    BY <1>2, <2>3 DEF Differs, Committed, Fields
  <2> HIDE DEF Out, r
  <2>. QED
    BY <1>0, <1>5, <2>1, <2>2, <2>3, <2>4
<1>6. ASSUME ~n.fullscreen PROVE Ends(r)
  <2> DEFINE g == [out EXCEPT !.fullscreen = FALSE]
             s == [g EXCEPT !.echo = p.echo /\ echo, !.cursor_known = p.cursor_known /\ known]
  <2>1. /\ Differs(out, g, {"fullscreen"}) /\ g.fullscreen = FALSE
    <3> HIDE DEF out
    <3>. QED
      BY <1>4 DEF IsPresenter, Differs, Fields
  <2>2. r = [g EXCEPT !.echo = @ /\ echo, !.cursor_known = @ /\ known]
    BY <1>6 DEF Confirmed, Finished
  <2>3. IsPresenter(g) /\ g.echo = p.echo /\ g.cursor_known = p.cursor_known
    <3> HIDE DEF out, g
    <3>. QED
      BY <1>3, <2>1 DEF Differs, Fields
  <2>4. r = s
    <3> HIDE DEF g
    <3>. QED
      BY <2>2, <2>3
  <2>5. Differs(g, s, {"echo", "cursor_known"}) /\ s.echo \in BOOLEAN /\ s.cursor_known \in BOOLEAN
    <3> HIDE DEF g
    <3>. QED
      BY <2>3 DEF IsPresenter, Differs, Fields
  <2>6. Differs(out, s, {"fullscreen", "echo", "cursor_known"}) /\ s.fullscreen = FALSE
    <3> HIDE DEF out, g, s
    <3>. QED
      BY <2>1, <2>5 DEF Differs, Fields
  <2> HIDE DEF out, s
  <2>7. Out(s) /\ Differs(p, s, Committed) /\ s.recovery = p.recovery
        /\ s.fullscreen_resume = p.fullscreen_resume
    BY <1>2, <1>3, <2>6 DEF Differs, Committed, Fields
  <2> HIDE DEF Out, r
  <2>. QED
    BY <1>0, <1>6, <2>4, <2>5, <2>6, <2>7
<1>7. Ends(r)
  <2> HIDE DEF Ends
  <2>. QED
    BY <1>5, <1>6
<1> HIDE DEF r, out
<1>8. /\ p' = r /\ pc' = "idle" /\ result' # "PENDING"
      /\ hist' = [Told(hist, r) EXCEPT
                    !.shown = IF wire.delivered = wire.total THEN p.next.image ELSE -1,
                    !.dirty = r.fullscreen \/ (@ /\ ~p.next.fullscreen),
                    !.policy = r.fullscreen \/ (@ /\ ~p.next.fullscreen),
                    !.wait = -1,
                    !.seen = IF p.next.fullscreen /\ (Entering(p) \/ ~r.fullscreen) THEN "none" ELSE @,
                    !.calm = IF p.next.fullscreen /\ (Entering(p) \/ ~r.fullscreen) THEN -1 ELSE @]
  BY <1>1 DEF Commit, Commits, r
<1> DEFINE t == Told(hist, r)
<1>9. /\ IsPast(t) /\ \A x \in Marks \ {"overtaken", "wait"} : t[x] = hist[x]
      /\ t.overtaken = (hist.overtaken \/ (r.output_pending /\ ~r.next.fullscreen /\ r.fullscreen))
  BY <1>0, ToldFields
<1> HIDE DEF t
<1>10. /\ t.dirty = hist.dirty /\ t.policy = hist.policy /\ t.seen = hist.seen /\ t.calm = hist.calm
       /\ t.taken = hist.taken /\ t.copies = hist.copies /\ t.blanks = hist.blanks
  BY <1>9 DEF Marks
<1>11. /\ IsPast(hist') /\ hist'.overtaken = t.overtaken
       /\ \A x \in {"taken", "copies", "blanks"} : hist'[x] = t[x]
       /\ hist'.dirty = (r.fullscreen \/ (t.dirty /\ ~p.next.fullscreen))
       /\ hist'.policy = (r.fullscreen \/ (t.policy /\ ~p.next.fullscreen))
       /\ hist'.wait = -1
       /\ hist'.seen = (IF p.next.fullscreen /\ (Entering(p) \/ ~r.fullscreen) THEN "none" ELSE t.seen)
       /\ hist'.calm = (IF p.next.fullscreen /\ (Entering(p) \/ ~r.fullscreen) THEN -1 ELSE t.calm)
  BY <1>8, <1>9 DEF IsPast, Marks, t
<1>12. /\ hist'.overtaken = hist.overtaken /\ hist'.taken = hist.taken
       /\ hist'.copies = hist.copies /\ hist'.blanks = hist.blanks
  BY <1>7, <1>9, <1>10, <1>11
<1>. QED
  BY <1>0, <1>7, <1>8, <1>10, <1>11, <1>12 DEF CommitsOutput

\* A reset keeps the statistics only, a destruction nothing.
LEMMA AnewSummary == ASSUME IsPresenter(p), Reset \/ Destroy PROVE Renews
<1>1. CASE Reset
  <2>1. Discarded(p).stats = [p.stats EXCEPT !.discarded = @ + Len(p.queue)]
    BY DEF Discarded, IsPresenter, Fields
  <2>. QED
    BY <1>1, <2>1 DEF Reset, Anew, Kept, Renews
<1>2. CASE Destroy
  <2>1. IsPresenter(Fresh) /\ Fresh.stats = NoStats
    BY DEF Fresh, IsPresenter, Fields
  <2>2. Fresh = [Fresh EXCEPT !.stats = NoStats]
    BY <2>1 DEF IsPresenter, Fields
  <2>. QED
    BY <1>2, <2>2 DEF Destroy, Anew, Renews
<1>. QED
  BY <1>1, <1>2

\* Every step is of one of these kinds.
LEMMA StepSummary ==
  ASSUME TInv, p.error \in Errors, p.written \in Nat, p.next.total \in Nat,
         Flags(p) \subseteq BOOLEAN, hist.overtaken \in BOOLEAN, [PNext]_pvars
  PROVE  Looks \/ (\E f \in Frames : Judges(f)) \/ WritesUnit \/ CommitsOutput \/ Renews \/ Rests
<1>0. IsPresenter(p) /\ UnderWay
  BY DEF TInv
<1>1. ASSUME NEW f \in Frames, Present(f) PROVE Looks \/ Judges(f)
  <2>1. Judges(f) \/ \E e : e # "PENDING" /\ Returns(Observed(p), e)
    BY <1>0, <1>1, PresentJudges
  <2>. QED
    BY <1>0, <2>1, ObservedErrors, ReturnLooks
<1>2. CASE Released \/ Flipped \/ UNCHANGED pvars
  BY <1>2 DEF Released, Flipped, pvars, Rests
<1>3. ASSUME NEW id, ObserveCursor \/ ForgetCursor \/ LocalEcho \/ Notify(id) \/ Cancel(id) PROVE Looks
  BY <1>0, <1>3, CallLooks
<1>4. CASE Gate \/ Write \/ Commit \/ Resume \/ Reset \/ Destroy
  BY <1>0, <1>4, GateLooks, WriteSummary, CommitSummary, ResumeLooks, AnewSummary
<1>. QED
  BY <1>1, <1>2, <1>3, <1>4 DEF PNext

-----------------------------------------------------------------------------
(***************************************************************************)
(* What holds of a presenter and of its history, whatever the step.        *)
(* The durations that hold output back, and the flags of its policy, are   *)
(* tied to how long and how the frames have said so.                       *)
(***************************************************************************)
Glass(q) == q.output_pending /\ ~q.next.fullscreen
Lost(q) == Repaints(q) /\ q.error # "ok"
Typed(q) ==
  /\ IsPresenter(q) /\ q.error \in Errors /\ Flags(q) \subseteq BOOLEAN /\ q.recovery \in Recoveries
  /\ q.pending_ticks \in 0..Confirm /\ q.scroll_ticks \in 0..(ScrollHold + MaxTicks)
  /\ q.disabled_ticks \in 0..(BlankHold + MaxTicks) /\ (q.released \/ q.disabled_ticks < BlankHold)
  /\ q.next.fullscreen \in BOOLEAN /\ q.next.total \in 0..MaxUnits /\ q.written \in 0..q.next.total
  /\ (q.fullscreen \/ q.foreground_fullscreen \/ q.fullscreen_resume => q.initialized)
Durations(h) ==
  /\ IsPast(h) /\ {h.dirty, h.policy, h.overtaken} \subseteq BOOLEAN /\ h.seen \in {"none", "line", "text"}
  /\ h.copies \in -1..ScrollHold /\ h.blanks \in 0..BlankHold
  /\ h.wait \in -1..Confirm /\ h.calm \in -1..Confirm

\* Two values have a least one.
LEMMA LeastOfTwo ==
  ASSUME NEW a \in Int, NEW b \in Int PROVE Min({a, b}) = IF a <= b THEN a ELSE b
BY DEF Min

\* A duration that grows stays within its hold.
LEMMA LongerDuration ==
  ASSUME NEW d \in Int, NEW f \in FrameTypes, NEW hold \in Nat
  PROVE  Longer(d, f, hold) = IF d < 0 THEN 0 ELSE IF d + f.ticks <= hold THEN d + f.ticks ELSE hold
<1>1. f.ticks \in Int
  BY BoundsAssumption DEF FrameTypes
<1>. QED
  BY <1>1, LeastOfTwo DEF Longer

\* What a frame's mask leaves is a frame.
LEMMA MaskedFrame ==
  ASSUME NEW f \in FrameTypes
  PROVE  Masked(f) \in FrameTypes /\ Masked(f).ticks = f.ticks
BY DEF Masked, FrameTypes

\* Observing the terminal keeps the types.
LEMMA ObservedTyped == ASSUME NEW q, Typed(q) PROVE Typed(Observed(q))
<1> DEFINE r == Observed(q)
<1> SUFFICES Typed(r)
  OBVIOUS
<1>0. IsPresenter(q) /\ NoRecovery \in Recoveries /\ 0 \in 0..Confirm /\ "BACKGROUND" \in Errors
  BY BoundsAssumption DEF Typed, NoRecovery, Recoveries, Errors
<1>1. Remembered(q, ~foreground) \in {q.fullscreen, q.foreground_fullscreen}
  BY DEF Remembered
<1>2. Resumes(q) \in BOOLEAN /\ (Resumes(q) => q.initialized)
  BY DEF Resumes, Typed
<1>3. /\ Flags(q) \subseteq BOOLEAN /\ Remembered(q, ~foreground) \in BOOLEAN
      /\ q.initialized \in BOOLEAN /\ q.fullscreen \in BOOLEAN /\ q.fullscreen_resume \in BOOLEAN
      /\ q.pending \in BOOLEAN /\ q.released \in BOOLEAN /\ q.holding \in BOOLEAN
      /\ q.echo \in BOOLEAN /\ q.echo_failed \in BOOLEAN /\ q.output_pending \in BOOLEAN
      /\ q.registered \in BOOLEAN
  BY <1>1 DEF Typed, Flags
<1>4. CASE Differs(q, r, FellBack) /\ ~Repaints(q) /\ r.background = ~foreground /\ r.cursor_known = FALSE
           /\ r.fullscreen = Resumes(q) /\ r.fullscreen_resume = Resumes(q)
           /\ r.foreground_fullscreen = (Remembered(q, ~foreground) /\ ~Resumes(q))
           /\ r.recovery = NoRecovery /\ r.pending = FALSE /\ r.pending_ticks = 0
           /\ r.echo = FALSE
  <2> HIDE DEF r
  <2>1. \A x \in Fields \ FellBack : r[x] = q[x]
    BY <1>4 DEF Differs
  <2>2. /\ r.initialized \in BOOLEAN /\ r.released \in BOOLEAN /\ r.holding \in BOOLEAN
        /\ r.echo_failed \in BOOLEAN /\ r.output_pending \in BOOLEAN /\ r.registered \in BOOLEAN
    BY <1>3, <2>1 DEF FellBack, Sighted, Fields
  <2>3. /\ r.fullscreen \in BOOLEAN /\ r.fullscreen_resume \in BOOLEAN
        /\ r.foreground_fullscreen \in BOOLEAN /\ r.background \in BOOLEAN
    BY <1>2, <1>3, <1>4
  <2>4. Flags(r) \subseteq BOOLEAN
    BY <1>4, <2>2, <2>3 DEF Flags
  <2>. QED
    BY <1>0, <1>1, <1>2, <1>3, <1>4, <2>4 DEF Typed, Differs, FellBack, Sighted, Fields, Flags
<1>5. CASE Differs(q, r, Sighted \cup {"error"}) /\ r.error \in Errors /\ r.background = ~foreground
           /\ r.cursor_known = FALSE /\ r.foreground_fullscreen = Remembered(q, ~foreground)
  <2> HIDE DEF r
  <2>1. \A x \in Fields \ (Sighted \cup {"error"}) : r[x] = q[x]
    BY <1>5 DEF Differs
  <2>2. Flags(r) \subseteq BOOLEAN
    BY <1>3, <1>5, <2>1 DEF Sighted, Fields, Flags
  <2>. QED
    BY <1>0, <1>1, <1>3, <1>5, <2>2 DEF Typed, Differs, Sighted, Fields, Flags
<1>6. CASE r = q
  BY <1>6
<1>7. CASE Differs(q, r, Sighted) /\ r.background = ~foreground
           /\ r.cursor_known = FALSE /\ r.foreground_fullscreen = Remembered(q, ~foreground)
  <2>1. Differs(q, r, Sighted \cup {"error"}) /\ r.error = q.error
    BY <1>7 DEF Differs, Sighted, Fields
  <2>. QED
    BY <1>5, <1>7, <2>1 DEF Typed
<1> HIDE DEF r
<1>. QED
  BY <1>0, <1>4, <1>5, <1>6, <1>7, ObservedFields DEF r

\* So do the calls that look.
LEMMA TouchesTyped ==
  ASSUME NEW q, Typed(q), NEW r, Touches(q, r), r.error \in Errors
  PROVE  Typed(r)
<1>1. {q.cursor_known, q.echo, q.echo_failed, r.cursor_known, r.echo, r.echo_failed} \subseteq BOOLEAN
  BY DEF Typed, Flags, Touches
<1>. QED
  BY <1>1 DEF Typed, Touches, Differs, Minor, Fields, Flags

\* What is done to every valid frame keeps them.
LEMMA SeenTyped == ASSUME NEW q, Typed(q), NEW f \in FrameTypes PROVE Typed(Seen(q, f))
<1> DEFINE r == Seen(q, f)
           changed == q.released \/ f.changed
           ticks == q.disabled_ticks + (IF changed THEN 0 ELSE f.ticks)
           held == IF ~q.holding THEN 0
                   ELSE IF q.scroll_ticks < ScrollHold THEN q.scroll_ticks + f.ticks
                   ELSE q.scroll_ticks
<1>0. IsPresenter(q)
  BY DEF Typed
<1>1. /\ Differs(q, r, Seeing)
      /\ r.disabled_ticks = (IF f.disabled THEN ticks ELSE 0)
      /\ r.released = (f.disabled /\ (changed \/ ticks >= BlankHold))
      /\ r.holding = Copying(f)
      /\ r.scroll_ticks = (IF Copying(f) THEN held ELSE 0)
      /\ IF Copying(f) /\ held >= ScrollHold /\ ~f.disabled
         THEN r.pending = TRUE /\ r.pending_ticks = Confirm
         ELSE r.pending = q.pending /\ r.pending_ticks = q.pending_ticks
  BY <1>0, SeenFields
<1> HIDE DEF r
<1>2. /\ f.ticks \in 1..MaxTicks /\ MaxTicks \in Nat \ {0}
      /\ Confirm \in Nat \ {0} /\ BlankHold \in Nat \ {0} /\ ScrollHold \in Nat \ {0}
      /\ f.disabled \in BOOLEAN /\ changed \in BOOLEAN /\ q.holding \in BOOLEAN
      /\ q.released \in BOOLEAN /\ Copying(f) \in BOOLEAN
      /\ q.pending \in BOOLEAN /\ q.pending_ticks \in 0..Confirm
  BY BoundsAssumption DEF FrameTypes, Copying, Typed, Flags
<1>3. q.disabled_ticks \in 0..(BlankHold + MaxTicks) /\ (q.released \/ q.disabled_ticks < BlankHold)
      /\ q.scroll_ticks \in 0..(ScrollHold + MaxTicks)
  BY DEF Typed
<1>4. ticks \in 0..(BlankHold + MaxTicks) /\ held \in 0..(ScrollHold + MaxTicks)
  BY <1>2, <1>3
<1> HIDE DEF held, changed, ticks
<1>5. /\ r.disabled_ticks \in 0..(BlankHold + MaxTicks) /\ (r.released \/ r.disabled_ticks < BlankHold)
      /\ r.released \in BOOLEAN
  BY <1>1, <1>2, <1>4
<1>6. r.scroll_ticks \in 0..(ScrollHold + MaxTicks) /\ r.holding \in BOOLEAN
  BY <1>1, <1>2, <1>4 DEF Copying
<1>7. r.pending \in BOOLEAN /\ r.pending_ticks \in 0..Confirm
  <2>1. \/ r.pending = TRUE /\ r.pending_ticks = Confirm
        \/ r.pending = q.pending /\ r.pending_ticks = q.pending_ticks
    BY <1>1, Zenon
  <2>2. r.pending \in BOOLEAN
    BY <1>2, <2>1, Zenon
  <2>. QED
    BY <1>2, <2>1, <2>2
<1>8. IsPresenter(r) /\ \A x \in Fields \ Seeing : r[x] = q[x]
  BY <1>1 DEF Differs
<1>. QED
  BY <1>5, <1>6, <1>7, <1>8 DEF Typed, Seeing, Fields, Flags, r

\* A recovery stays one, and a duration of text that does not fit grows within
\* its hold.
LEMMA RecoveringTyped ==
  ASSUME NEW r \in Recoveries, NEW g \in FrameTypes PROVE recovering(r, g) \in Recoveries
<1>1. /\ r.ticks \in Int /\ g.ticks \in Int /\ Confirm \in Nat /\ r.ticks + g.ticks >= 0
      /\ {r.boundary, r.text, r.confirming} \subseteq BOOLEAN
      /\ {g.trace.advanced, g.trace.text, g.trace.frontier} \subseteq BOOLEAN
  BY BoundsAssumption DEF Recoveries, FrameTypes
<1> DEFINE m == Min({r.ticks + g.ticks, Confirm})
<1>2. m \in 0..Confirm
  BY <1>1, LeastOfTwo
<1> HIDE DEF m
<1>3. 0 \in 0..Confirm
  BY <1>1
<1>. QED
  BY <1>1, <1>2, <1>3 DEF recovering, Recoveries, NoRecovery, m

PendingFor(q, f) == IF q.pending THEN Min({q.pending_ticks + f.ticks, Confirm}) ELSE 0

\* The wait of a frame that does not fit is bounded.
LEMMA PendingForTyped ==
  ASSUME NEW q, Typed(q), NEW f \in FrameTypes
  PROVE  /\ PendingFor(q, f) \in 0..Confirm
         /\ PendingFor(q, f) = IF ~q.pending THEN 0
                               ELSE IF q.pending_ticks + f.ticks <= Confirm
                               THEN q.pending_ticks + f.ticks ELSE Confirm
<1>1. q.pending_ticks \in 0..Confirm /\ f.ticks \in 1..MaxTicks /\ Confirm \in Nat /\ MaxTicks \in Nat
  BY BoundsAssumption DEF Typed, FrameTypes
<1>. QED
  BY <1>1, LeastOfTwo DEF PendingFor

\* What a frame changes before its output begins.
LEMMA WaitingFields ==
  ASSUME NEW q, IsPresenter(q), NEW ticks, NEW recovery
  PROVE  /\ LET w == [q EXCEPT !.pending = TRUE, !.pending_ticks = ticks]
            IN Differs(q, w, {"pending", "pending_ticks"}) /\ w.pending = TRUE /\ w.pending_ticks = ticks
         /\ LET r == [q EXCEPT !.recovery = recovery]
            IN Differs(q, r, {"recovery"}) /\ r.recovery = recovery
BY DEF IsPresenter, Differs, Fields

\* A frame that is judged keeps the types.
LEMMA BegunTyped ==
  ASSUME NEW q, Typed(q), NEW f, NEW fullscreen \in BOOLEAN, Begun(q, f, fullscreen) PROVE Typed(p')
<1>0. /\ Differs(q, p', Starting) /\ p'.output_pending = TRUE /\ p'.registered = fullscreen
      /\ p'.next.fullscreen = fullscreen /\ p'.next.total \in 0..MaxUnits /\ p'.written = 0
  BY DEF Begun
<1>1. /\ Differs(q, p', Starting) /\ p'.output_pending \in BOOLEAN /\ p'.registered \in BOOLEAN
      /\ p'.next.fullscreen \in BOOLEAN /\ p'.next.total \in 0..MaxUnits /\ p'.written \in 0..p'.next.total
  <2>1. p'.output_pending \in BOOLEAN
    BY <1>0, Zenon
  <2>. QED
    BY <1>0, <2>1, BoundsAssumption
<1>2. IsPresenter(p') /\ \A x \in Fields \ Starting : p'[x] = q[x]
  BY <1>1 DEF Differs
<1>3. Flags(p') \subseteq BOOLEAN
  BY <1>1, <1>2 DEF Typed, Flags, Starting, Fields
<1>. QED
  BY <1>1, <1>2, <1>3 DEF Typed, Starting, Fields

\* An answer keeps them too.
LEMMA AnsweredTyped == ASSUME NEW q, Typed(q), NEW f, Answered(q, f) PROVE Typed(p')
<1>1. IsPresenter(p') /\ (\A x \in Fields \ {"error"} : p'[x] = q[x]) /\ p'.error \in Errors
  BY DEF Answered, Differs, Errors, Typed
<1>2. Flags(p') \subseteq BOOLEAN
  BY <1>1 DEF Typed, Flags, Fields
<1>. QED
  BY <1>1, <1>2 DEF Typed, Fields

\* So does every frame.
LEMMA JudgesTyped == ASSUME Typed(p), NEW f \in FrameTypes, Judges(f) PROVE Typed(p')
<1> DEFINE q == Seen(Observed(p), f)
           w == [q EXCEPT !.pending = TRUE, !.pending_ticks = PendingFor(q, f)]
<1>1. Typed(q)
  BY ObservedTyped, SeenTyped
<1> HIDE DEF q
<1>2. IsPresenter(q) /\ Flags(q) \subseteq BOOLEAN
  BY <1>1 DEF Typed
<1>3. CASE JudgesFullscreen(q, f)
  <2> DEFINE planned == Reversible /\ Fits(q, Masked(f))
             recovery == IF planned THEN recovering(q.recovery, Masked(f)) ELSE NoRecovery
             r == [q EXCEPT !.recovery = recovery]
  <2>1. recovery \in Recoveries
    BY <1>1, RecoveringTyped, MaskedFrame, BoundsAssumption DEF Typed, NoRecovery, Recoveries
  <2>2. Answered(r, f) \/ Begun(r, f, TRUE)
    BY <1>3 DEF JudgesFullscreen
  <2> HIDE DEF recovery
  <2>3. Differs(q, r, {"recovery"}) /\ r.recovery = recovery
    BY <1>2, WaitingFields
  <2> HIDE DEF r
  <2>4. IsPresenter(r) /\ \A x \in Fields \ {"recovery"} : r[x] = q[x]
    BY <2>3 DEF Differs
  <2>5. Flags(r) \subseteq BOOLEAN
    BY <1>2, <2>4 DEF Flags, Fields
  <2>6. Typed(r)
    BY <1>1, <2>1, <2>3, <2>4, <2>5 DEF Typed, Fields
  <2>. QED
    BY <2>2, <2>6, BegunTyped, AnsweredTyped
<1>4. CASE JudgesGlass(q, f)
  <2>1. Begun(q, f, FALSE) \/ p' = w \/ Answered(w, f) \/ Begun(w, f, TRUE)
    BY <1>4 DEF JudgesGlass, PendingFor
  <2>2. /\ Differs(q, w, {"pending", "pending_ticks"}) /\ w.pending = TRUE
        /\ w.pending_ticks = PendingFor(q, f)
    BY <1>2, WaitingFields
  <2> HIDE DEF w
  <2>3. PendingFor(q, f) \in 0..Confirm
    BY <1>1, PendingForTyped
  <2>4. IsPresenter(w) /\ \A x \in Fields \ {"pending", "pending_ticks"} : w[x] = q[x]
    BY <2>2 DEF Differs
  <2>5. Flags(w) \subseteq BOOLEAN
    BY <1>2, <2>2, <2>4 DEF Flags, Fields
  <2>6. Typed(w)
    BY <1>1, <2>2, <2>3, <2>4, <2>5 DEF Typed, Fields
  <2>. QED
    BY <1>1, <2>1, <2>6, BegunTyped, AnsweredTyped
<1>. QED
  BY <1>1, <1>3, <1>4 DEF Judges, q

\* And every other step.
LEMMA OthersTyped ==
  ASSUME Typed(p), WritesUnit \/ CommitsOutput \/ Renews \/ Rests \/ Looks PROVE Typed(p')
<1>0. IsPresenter(p) /\ Flags(p) \subseteq BOOLEAN
  BY DEF Typed
<1>1. CASE WritesUnit
  <2>1. IsPresenter(p') /\ (\A x \in Fields \ {"written"} : p'[x] = p[x])
        /\ p'.written \in (p.written + 1)..p.next.total
    BY <1>1 DEF WritesUnit, Differs
  <2>2. Flags(p') \subseteq BOOLEAN /\ p'.written \in 0..p'.next.total
    BY <1>0, <2>1 DEF Flags, Fields, Typed
  <2>. QED
    BY <2>1, <2>2 DEF Typed, Fields
<1>2. CASE CommitsOutput
  <2>1. /\ IsPresenter(p') /\ (\A x \in Fields \ Committed : p'[x] = p[x])
        /\ p'.initialized = TRUE /\ p'.output_pending = FALSE /\ p'.registered = FALSE
        /\ p'.pending = FALSE /\ p'.pending_ticks = 0 /\ p'.echo_failed = FALSE
        /\ p'.cursor_known \in BOOLEAN /\ p'.echo \in BOOLEAN
        /\ p'.next = NoNext /\ p'.written = 0
        /\ p'.fullscreen = (p.next.fullscreen /\ ~(p.next.recovered /\ p.next.inside))
        /\ p'.fullscreen_resume = (p.fullscreen_resume /\ ~p.next.fullscreen)
        /\ p'.recovery \in {NoRecovery, p.recovery}
    BY <1>2 DEF CommitsOutput, Differs
  <2>2. p'.initialized \in BOOLEAN
    BY <2>1, Zenon
  <2>3. Flags(p') \subseteq BOOLEAN
    <3>1. /\ p'.released \in BOOLEAN /\ p'.holding \in BOOLEAN /\ p'.background \in BOOLEAN
          /\ p'.foreground_fullscreen \in BOOLEAN
      BY <1>0, <2>1 DEF Flags, Fields, Committed
    <3>2. /\ p'.output_pending \in BOOLEAN /\ p'.registered \in BOOLEAN /\ p'.pending \in BOOLEAN
          /\ p'.echo_failed \in BOOLEAN
      BY <2>1, Zenon
    <3>3. p'.fullscreen \in BOOLEAN /\ p'.fullscreen_resume \in BOOLEAN
      BY <2>1
    <3>. QED
      BY <2>1, <2>2, <3>1, <3>2, <3>3 DEF Flags
  <2>4. /\ NoRecovery \in Recoveries /\ NoNext.total = 0 /\ NoNext.fullscreen \in BOOLEAN
        /\ 0 \in 0..Confirm /\ 0 \in 0..MaxUnits /\ 0 \in 0..0
    BY BoundsAssumption DEF NoRecovery, Recoveries, NoNext
  <2>5. p'.next.total \in 0..MaxUnits /\ p'.written \in 0..p'.next.total /\ p'.next.fullscreen \in BOOLEAN
    BY <2>1, <2>4
  <2>6. p'.initialized
    BY <2>1
  <2>7. p'.recovery \in Recoveries
    BY <2>1, <2>4 DEF Typed
  <2>. QED
    BY <2>1, <2>3, <2>4, <2>5, <2>6, <2>7 DEF Typed, Fields, Committed
<1>3. CASE Renews
  <2>1. IsPresenter(Fresh)
    BY DEF Fresh, IsPresenter, Fields
  <2>2. PICK stats : p' = [Fresh EXCEPT !.stats = stats]
    BY <1>3 DEF Renews
  <2>3. IsPresenter(p') /\ \A x \in Fields \ {"stats"} : p'[x] = Fresh[x]
    BY <2>1, <2>2 DEF IsPresenter, Fields
  <2>4. Typed(Fresh)
    <3>1. Flags(Fresh) \subseteq BOOLEAN
      BY DEF Fresh, Flags
    <3>2. /\ Fresh.error = "ok" /\ Fresh.recovery = NoRecovery /\ Fresh.pending_ticks = 0
          /\ Fresh.scroll_ticks = 0 /\ Fresh.disabled_ticks = 0 /\ Fresh.next = NoNext
          /\ Fresh.written = 0 /\ ~Fresh.fullscreen /\ ~Fresh.foreground_fullscreen
          /\ ~Fresh.fullscreen_resume
      BY DEF Fresh
    <3>3. /\ NoRecovery \in Recoveries /\ NoNext.total = 0 /\ NoNext.fullscreen \in BOOLEAN
          /\ 0 \in 0..Confirm /\ 0 \in 0..MaxUnits /\ 0 \in 0..0 /\ 0 \in 0..(ScrollHold + MaxTicks)
          /\ 0 \in 0..(BlankHold + MaxTicks) /\ 0 < BlankHold
      BY BoundsAssumption DEF NoRecovery, Recoveries, NoNext
    <3>. QED
      BY <2>1, <3>1, <3>2, <3>3 DEF Typed, Errors
  <2>5. Flags(p') = Flags(Fresh)
    BY <2>3 DEF Flags, Fields
  <2>. QED
    BY <2>3, <2>4, <2>5 DEF Typed, Fields
<1>4. CASE Rests
  BY <1>4 DEF Rests
<1>5. CASE Looks
  BY <1>5, ObservedTyped, TouchesTyped DEF Looks
<1>. QED
  BY <1>1, <1>2, <1>3, <1>4, <1>5

-----------------------------------------------------------------------------
(***************************************************************************)
(* What a frame leaves behind, field by field.                             *)
(***************************************************************************)
\* The flags of a presenter and of its history, one by one.
LEMMA TypedFlags ==
  ASSUME NEW q, Typed(q)
  PROVE  /\ IsPresenter(q) /\ q.fullscreen \in BOOLEAN /\ q.foreground_fullscreen \in BOOLEAN
         /\ q.background \in BOOLEAN /\ q.output_pending \in BOOLEAN /\ q.fullscreen_resume \in BOOLEAN
         /\ q.next.fullscreen \in BOOLEAN /\ q.pending \in BOOLEAN /\ q.holding \in BOOLEAN
         /\ q.released \in BOOLEAN
BY DEF Typed, Flags

\* The presenter that a frame has been judged by is the one it has seen, but for
\* an output that begins, a wait, a recovery and an error.
LEMMA JudgesFields ==
  ASSUME Typed(p), NEW f \in FrameTypes, Judges(f)
  PROVE  LET q == Seen(Observed(p), f)
         IN /\ Differs(q, p', Unwatched \cup Starting) /\ hist' = Told(Watched(hist, q, f), q)
            /\ p'.output_pending \/ p'.output_pending = q.output_pending
<1> DEFINE q == Seen(Observed(p), f)
           w == [q EXCEPT !.pending = TRUE, !.pending_ticks = PendingFor(q, f)]
<1>1. IsPresenter(q)
  BY DEF Judges
<1> HIDE DEF q
<1>2. ASSUME NEW r, Differs(q, r, {"recovery", "pending", "pending_ticks"}), NEW fullscreen,
             Answered(r, f) \/ Begun(r, f, fullscreen)
      PROVE  /\ Differs(q, p', Unwatched \cup Starting) /\ hist' = Told(Watched(hist, q, f), q)
             /\ p'.output_pending \/ p'.output_pending = q.output_pending
  <2>1. IsPresenter(r) /\ \A x \in Fields \ {"recovery", "pending", "pending_ticks"} : r[x] = q[x]
    BY <1>2 DEF Differs
  <2>2. Told(Watched(hist, r, f), r) = Told(Watched(hist, q, f), q)
    BY <2>1, SameWatch DEF Unwatched
  <2>3. /\ hist' = Told(Watched(hist, r, f), r)
        /\ \/ Differs(r, p', {"error"})
           \/ Differs(r, p', Starting) /\ p'.output_pending
    BY <1>2 DEF Answered, Begun
  <2>4. Differs(q, p', Unwatched \cup Starting)
    BY <2>1, <2>3 DEF Differs, Unwatched
  <2>5. p'.output_pending \/ p'.output_pending = q.output_pending
    BY <2>1, <2>3 DEF Differs, Fields
  <2>. QED
    BY <2>2, <2>3, <2>4, <2>5
<1>3. Differs(q, q, {"recovery", "pending", "pending_ticks"})
  BY <1>1 DEF Differs
<1>4. CASE JudgesFullscreen(q, f)
  <2>1. PICK recovery : LET r == [q EXCEPT !.recovery = recovery] IN Answered(r, f) \/ Begun(r, f, TRUE)
    BY <1>4 DEF JudgesFullscreen
  <2> DEFINE r == [q EXCEPT !.recovery = recovery]
  <2>2. Differs(q, r, {"recovery", "pending", "pending_ticks"})
    BY <1>1 DEF IsPresenter, Differs, Fields
  <2> HIDE DEF r
  <2>3. Answered(r, f) \/ Begun(r, f, TRUE)
    BY <2>1 DEF r
  <2>. QED
    BY <1>2, <2>2, <2>3 DEF q
<1>5. CASE JudgesGlass(q, f)
  <2>1. \/ Begun(q, f, FALSE) \/ Answered(w, f) \/ Begun(w, f, TRUE)
        \/ p' = w /\ hist' = Told(Watched(hist, w, f), w)
    BY <1>5 DEF JudgesGlass, PendingFor
  <2>2. Differs(q, w, {"pending", "pending_ticks"})
    BY <1>1, WaitingFields
  <2> HIDE DEF w
  <2>3. Differs(q, w, {"recovery", "pending", "pending_ticks"}) /\ w.output_pending = q.output_pending
    BY <2>2 DEF Differs, Fields
  <2>4. Told(Watched(hist, w, f), w) = Told(Watched(hist, q, f), q)
    BY <2>2, SameWatch DEF Differs, Unwatched
  <2>5. Differs(q, w, Unwatched \cup Starting)
    BY <2>3 DEF Differs, Unwatched
  <2>. QED
    BY <1>2, <1>3, <2>1, <2>3, <2>4, <2>5 DEF q
<1>6. CASE p' = q /\ hist' = Told(Watched(hist, q, f), q)
  BY <1>1, <1>6 DEF Differs, q
<1>. QED
  BY <1>4, <1>5, <1>6 DEF Judges, q

\* The history of a frame that is judged.
LEMMA JudgesHistory ==
  ASSUME Typed(p), Durations(hist), NEW f \in FrameTypes, Judges(f)
  PROVE  LET q == Seen(Observed(p), f)
             g == Masked(f)
         IN /\ IsPast(hist') /\ \A x \in {"dirty", "policy", "overtaken", "taken"} : hist'[x] = hist[x]
            /\ hist'.copies = IF Copying(f) THEN Longer(hist.copies, f, ScrollHold) ELSE -1
            /\ hist'.blanks = IF ~f.disabled THEN 0
                              ELSE IF f.changed THEN BlankHold
                              ELSE Min({hist.blanks + f.ticks, BlankHold})
            /\ hist'.wait = IF q.fullscreen THEN -1
                            ELSE IF Withheld(q, f) THEN hist.wait
                            ELSE IF Fits(q, g) THEN -1 ELSE Longer(hist.wait, f, Confirm)
            /\ hist'.seen = IF Planning(q, f) THEN SeenNext(hist.seen, g)
                            ELSE IF ~Withheld(q, f) THEN "none" ELSE hist.seen
            /\ hist'.calm = IF Planning(q, f) /\ CalmNext(hist.seen, g) THEN Longer(hist.calm, f, Confirm)
                            ELSE IF ~Withheld(q, f) THEN -1 ELSE hist.calm
<1> DEFINE q == Seen(Observed(p), f)
           w == Watched(hist, q, f)
<1>1. hist' = Told(w, q) /\ IsPast(hist) /\ hist.overtaken \in BOOLEAN
  BY JudgesFields DEF Durations
<1>2. ~q.output_pending
  <2>1. Differs(Observed(p), q, Seeing) /\ Observed(p).output_pending = p.output_pending /\ ~p.output_pending
    BY TypedFlags, ObservedTyped, ObservedOutput, SeenFields DEF Judges, SameOutput
  <2> HIDE DEF q
  <2>. QED
    BY <2>1 DEF Differs, Seeing, Fields
<1> HIDE DEF q
<1>3. /\ IsPast(w) /\ \A x \in {"shown", "dirty", "policy", "overtaken", "taken"} : w[x] = hist[x]
      /\ w.copies = (IF Copying(f) THEN Longer(hist.copies, f, ScrollHold) ELSE -1)
      /\ w.blanks = (IF ~f.disabled THEN 0
                     ELSE IF f.changed THEN BlankHold ELSE Min({hist.blanks + f.ticks, BlankHold}))
      /\ w.wait = (IF Withheld(q, f) \/ q.fullscreen THEN hist.wait
                   ELSE IF Fits(q, Masked(f)) THEN -1 ELSE Longer(hist.wait, f, Confirm))
      /\ w.seen = (IF Planning(q, f) THEN SeenNext(hist.seen, Masked(f))
                   ELSE IF ~Withheld(q, f) THEN "none" ELSE hist.seen)
      /\ w.calm = (IF Planning(q, f) /\ CalmNext(hist.seen, Masked(f)) THEN Longer(hist.calm, f, Confirm)
                   ELSE IF ~Withheld(q, f) THEN -1 ELSE hist.calm)
  BY <1>1, WatchedFields
<1> HIDE DEF w
<1>4. /\ IsPast(hist') /\ \A x \in Marks \ {"overtaken", "wait"} : hist'[x] = w[x]
      /\ hist'.overtaken = (w.overtaken \/ (q.output_pending /\ ~q.next.fullscreen /\ q.fullscreen))
      /\ hist'.wait = (IF q.fullscreen THEN -1 ELSE w.wait)
  BY <1>1, <1>3, ToldFields
<1>5. /\ hist'.copies = w.copies /\ hist'.blanks = w.blanks /\ hist'.seen = w.seen /\ hist'.calm = w.calm
      /\ hist'.dirty = hist.dirty /\ hist'.policy = hist.policy /\ hist'.taken = hist.taken
  BY <1>3, <1>4 DEF Marks
<1>6. hist'.overtaken = hist.overtaken
  BY <1>1, <1>2, <1>3, <1>4
<1>7. hist'.wait = IF q.fullscreen THEN -1
                   ELSE IF Withheld(q, f) THEN hist.wait
                   ELSE IF Fits(q, Masked(f)) THEN -1 ELSE Longer(hist.wait, f, Confirm)
  BY <1>3, <1>4, Zenon
<1>. QED
  BY <1>3, <1>4, <1>5, <1>6, <1>7 DEF q

\* The durations stay within their holds.
LEMMA DurationsStep ==
  ASSUME Typed(p), Durations(hist),
         Looks \/ (\E f \in Frames : Judges(f)) \/ WritesUnit \/ CommitsOutput \/ Renews \/ Rests
  PROVE  Durations(hist')
<1>0. IsPast(hist) /\ {hist.dirty, hist.policy, hist.overtaken} \subseteq BOOLEAN
      /\ Confirm \in Nat \ {0} /\ BlankHold \in Nat \ {0} /\ ScrollHold \in Nat \ {0}
      /\ hist.copies \in -1..ScrollHold /\ hist.blanks \in 0..BlankHold
      /\ hist.wait \in -1..Confirm /\ hist.calm \in -1..Confirm /\ hist.seen \in {"none", "line", "text"}
  BY BoundsAssumption DEF Durations
<1>1. ASSUME NEW q, Typed(q), hist' = Told(hist, q) PROVE Durations(hist')
  <2>1. /\ IsPast(hist') /\ \A x \in Marks \ {"overtaken", "wait"} : hist'[x] = hist[x]
        /\ hist'.overtaken = (hist.overtaken \/ (q.output_pending /\ ~q.next.fullscreen /\ q.fullscreen))
        /\ hist'.wait = (IF q.fullscreen THEN -1 ELSE hist.wait)
    BY <1>0, <1>1, ToldFields
  <2>. QED
    BY <1>0, <2>1 DEF Durations, Marks
<1>2. CASE Looks
  <2>1. CASE hist' = Told(hist, p')
    <3>1. Typed(p')
      BY <1>2, OthersTyped
    <3>. QED
      BY <1>1, <2>1, <3>1
  <2>2. CASE hist' = [hist EXCEPT !.taken = hist.taken + 1]
    <3>1. IsPast(hist') /\ \A x \in Marks \ {"taken"} : hist'[x] = hist[x]
      BY <1>0, <2>2 DEF IsPast, Marks
    <3>. QED
      BY <1>0, <3>1 DEF Durations, Marks
  <2>. QED
    BY <1>2, <2>1, <2>2 DEF Looks
<1>3. ASSUME NEW f \in Frames, Judges(f) PROVE Durations(hist')
  <2>0. f \in FrameTypes /\ f.ticks \in Nat
    BY FramesAssumption, BoundsAssumption DEF FrameTypes
  <2>1. /\ IsPast(hist') /\ \A x \in {"dirty", "policy", "overtaken", "taken"} : hist'[x] = hist[x]
        /\ hist'.copies \in {Longer(hist.copies, f, ScrollHold), -1}
        /\ hist'.blanks \in {0, BlankHold, Min({hist.blanks + f.ticks, BlankHold})}
        /\ hist'.wait \in {hist.wait, -1, Longer(hist.wait, f, Confirm)}
        /\ hist'.seen \in {hist.seen, "none", SeenNext(hist.seen, Masked(f))}
        /\ hist'.calm \in {hist.calm, -1, Longer(hist.calm, f, Confirm)}
    BY <1>3, <2>0, JudgesHistory
  <2>2. /\ Longer(hist.copies, f, ScrollHold) \in -1..ScrollHold
        /\ Longer(hist.wait, f, Confirm) \in -1..Confirm /\ Longer(hist.calm, f, Confirm) \in -1..Confirm
    BY <1>0, <2>0, LongerDuration
  <2>3. Min({hist.blanks + f.ticks, BlankHold}) \in 0..BlankHold
    BY <1>0, <2>0, LeastOfTwo
  <2>4. SeenNext(hist.seen, Masked(f)) \in {"none", "line", "text"}
    BY DEF SeenNext
  <2>5. /\ hist'.copies \in -1..ScrollHold /\ hist'.blanks \in 0..BlankHold
        /\ hist'.wait \in -1..Confirm /\ hist'.calm \in -1..Confirm /\ hist'.seen \in {"none", "line", "text"}
    BY <1>0, <2>1, <2>2, <2>3, <2>4
  <2>. QED
    BY <1>0, <2>1, <2>5 DEF Durations
<1>4. CASE WritesUnit
  <2>1. /\ hist'.dirty \in BOOLEAN
    BY <1>4 DEF WritesUnit
  <2>. QED
    BY <1>0, <1>4, <2>1 DEF WritesUnit, Durations, Marks
<1>5. CASE CommitsOutput
  <2>1. hist'.dirty \in BOOLEAN /\ hist'.policy \in BOOLEAN /\ IsPast(hist')
        /\ (\A x \in {"overtaken", "taken", "copies", "blanks"} : hist'[x] = hist[x])
        /\ hist'.wait = -1 /\ hist'.seen \in {"none", hist.seen} /\ hist'.calm \in {-1, hist.calm}
    BY <1>5 DEF CommitsOutput
  <2>. QED
    BY <1>0, <2>1 DEF Durations
<1>6. CASE Renews
  <2>1. PICK taken : hist' = [Past EXCEPT !.taken = taken]
    BY <1>6 DEF Renews
  <2>. QED
    BY <1>0, <2>1 DEF Durations, Past, IsPast, Marks
<1>7. CASE Rests
  BY <1>7 DEF Rests
<1>. QED
  BY <1>2, <1>3, <1>4, <1>5, <1>6, <1>7

-----------------------------------------------------------------------------
(***************************************************************************)
(* Output is held back no longer than its hold.                            *)
(***************************************************************************)
\* The presenter's counters say how long the frames have said the same.
HoldFollows(q, h) ==
  /\ h.copies = IF ~q.holding THEN -1 ELSE IF q.scroll_ticks <= ScrollHold THEN q.scroll_ticks ELSE ScrollHold
  /\ ~q.released => h.blanks = q.disabled_ticks
  /\ h.wait = -1 \/ (q.pending /\ h.wait \in 0..q.pending_ticks)
  /\ q.fullscreen => h.wait = -1

\* A frame that is judged keeps them so, and is held back no longer.
LEMMA JudgesHold ==
  ASSUME Typed(p), Durations(hist), HoldFollows(p, hist), NEW f \in FrameTypes, Judges(f)
  PROVE  HoldFollows(p', hist') /\ PendingIsBounded'
<1> DEFINE o == Observed(p)
           q == Seen(o, f)
           changed == o.released \/ f.changed
           ticks == o.disabled_ticks + (IF changed THEN 0 ELSE f.ticks)
           held == IF ~o.holding THEN 0
                   ELSE IF o.scroll_ticks < ScrollHold THEN o.scroll_ticks + f.ticks
                   ELSE o.scroll_ticks
<1>1. /\ Typed(o) /\ Typed(q) /\ Typed(p')
      /\ f.ticks \in 1..MaxTicks /\ MaxTicks \in Nat \ {0}
      /\ Confirm \in Nat \ {0} /\ BlankHold \in Nat \ {0} /\ ScrollHold \in Nat \ {0}
      /\ f.disabled \in BOOLEAN /\ f.changed \in BOOLEAN /\ Copying(f) \in BOOLEAN
  BY ObservedTyped, SeenTyped, JudgesTyped, BoundsAssumption DEF FrameTypes, Copying
<1>2. /\ o.holding = p.holding /\ o.scroll_ticks = p.scroll_ticks
      /\ o.released = p.released /\ o.disabled_ticks = p.disabled_ticks
      /\ \/ o.pending = p.pending /\ o.pending_ticks = p.pending_ticks /\ o.fullscreen = p.fullscreen
         \/ p.fullscreen \/ o.fullscreen
  <2> HIDE DEF o
  <2>1. \/ o = p \/ Differs(p, o, Sighted \cup {"error"}) \/ Differs(p, o, Sighted)
        \/ Differs(p, o, FellBack) /\ (p.fullscreen \/ o.fullscreen)
    BY TypedFlags, ObservedFields DEF o
  <2>. QED
    BY <2>1 DEF Differs, FellBack, Sighted, Fields
<1>3. /\ Differs(o, q, Seeing)
      /\ q.disabled_ticks = (IF f.disabled THEN ticks ELSE 0)
      /\ q.released = (f.disabled /\ (changed \/ ticks >= BlankHold))
      /\ q.holding = Copying(f)
      /\ q.scroll_ticks = (IF Copying(f) THEN held ELSE 0)
      /\ IF Copying(f) /\ held >= ScrollHold /\ ~f.disabled
         THEN q.pending = TRUE /\ q.pending_ticks = Confirm
         ELSE q.pending = o.pending /\ q.pending_ticks = o.pending_ticks
  BY <1>1, SeenFields, TypedFlags
<1>4. /\ hist'.copies = (IF Copying(f) THEN Longer(hist.copies, f, ScrollHold) ELSE -1)
      /\ hist'.blanks = (IF ~f.disabled THEN 0
                         ELSE IF f.changed THEN BlankHold
                         ELSE Min({hist.blanks + f.ticks, BlankHold}))
      /\ hist'.wait = (IF q.fullscreen THEN -1
                       ELSE IF Withheld(q, f) THEN hist.wait
                       ELSE IF Fits(q, Masked(f)) THEN -1 ELSE Longer(hist.wait, f, Confirm))
  BY JudgesHistory
<1>5. Differs(q, p', Unwatched \cup Starting)
  BY JudgesFields
<1>6. /\ p'.holding = q.holding /\ p'.scroll_ticks = q.scroll_ticks /\ p'.released = q.released
      /\ p'.disabled_ticks = q.disabled_ticks /\ p'.fullscreen = q.fullscreen
      /\ q.fullscreen = o.fullscreen
  <2> HIDE DEF q, o
  <2>. QED
    BY <1>3, <1>5 DEF Differs, Unwatched, Starting, Seeing, Fields
<1>7. /\ p.scroll_ticks \in Nat /\ p.disabled_ticks \in Nat /\ p.holding \in BOOLEAN /\ p.released \in BOOLEAN
      /\ hist.copies \in Int /\ hist.blanks \in Nat /\ hist.wait \in -1..Confirm
      /\ p.pending_ticks \in 0..Confirm /\ p.pending \in BOOLEAN /\ (p.released \/ p.disabled_ticks < BlankHold)
  BY <1>1, TypedFlags DEF Typed, Durations
<1>8. p'.holding = Copying(f) /\ p'.scroll_ticks = IF Copying(f) THEN held ELSE 0
  BY <1>3, <1>6
<1>9. p'.released = (f.disabled /\ (changed \/ ticks >= BlankHold))
      /\ p'.disabled_ticks = IF f.disabled THEN ticks ELSE 0
  BY <1>3, <1>6
<1> HIDE DEF q, o
<1>10. hist'.copies = IF ~p'.holding THEN -1
                      ELSE IF p'.scroll_ticks <= ScrollHold THEN p'.scroll_ticks ELSE ScrollHold
  <2>1. hist.copies = IF ~p.holding THEN -1 ELSE IF p.scroll_ticks <= ScrollHold THEN p.scroll_ticks ELSE ScrollHold
    BY DEF HoldFollows
  <2>2. Longer(hist.copies, f, ScrollHold) =
          IF hist.copies < 0 THEN 0
          ELSE IF hist.copies + f.ticks <= ScrollHold THEN hist.copies + f.ticks ELSE ScrollHold
    BY <1>1, <1>7, LongerDuration
  <2>3. CASE ~Copying(f)
    BY <1>4, <1>8, <2>3
  <2>4. CASE Copying(f)
    BY <1>1, <1>2, <1>4, <1>7, <1>8, <2>1, <2>2, <2>4
  <2>. QED
    BY <1>1, <2>3, <2>4
<1>11. ~p'.released => /\ hist'.blanks = p'.disabled_ticks /\ p'.disabled_ticks < BlankHold
                       /\ f.disabled => hist'.blanks >= 1
  <2>1. ~p.released => hist.blanks = p.disabled_ticks
    BY DEF HoldFollows
  <2>2. Min({hist.blanks + f.ticks, BlankHold}) =
          IF hist.blanks + f.ticks <= BlankHold THEN hist.blanks + f.ticks ELSE BlankHold
    BY <1>1, <1>7, LeastOfTwo
  <2>3. CASE ~f.disabled
    BY <1>1, <1>4, <1>9, <2>3
  <2>4. CASE f.disabled
    <3>1. SUFFICES ASSUME ~p'.released
                   PROVE  /\ hist'.blanks = p'.disabled_ticks /\ p'.disabled_ticks < BlankHold
                          /\ hist'.blanks >= 1
      OBVIOUS
    <3>2. ~changed /\ ~(ticks >= BlankHold)
      BY <1>9, <2>4, <3>1
    <3>3. ~p.released /\ ~f.changed /\ ticks = p.disabled_ticks + f.ticks
      BY <1>2, <3>2
    <3>. QED
      BY <1>1, <1>4, <1>7, <1>9, <2>1, <2>2, <2>4, <3>2, <3>3
  <2>. QED
    BY <1>1, <2>3, <2>4
<1>12. /\ hist'.wait = -1 \/ (p'.pending /\ hist'.wait \in 0..p'.pending_ticks)
       /\ p'.fullscreen => hist'.wait = -1
       /\ ~q.fullscreen /\ ~Withheld(q, f) /\ ~Fits(q, Masked(f))
            => hist'.wait \in 0..p'.pending_ticks
  <2>0. q.fullscreen => hist'.wait = -1
    BY <1>4
  <2>1. CASE q.fullscreen
    BY <1>6, <2>0, <2>1
  <2>2. ASSUME ~q.fullscreen
        PROVE  hist.wait = -1 \/ (q.pending /\ hist.wait \in 0..q.pending_ticks)
    <3>1. ~o.fullscreen
      BY <1>6, <2>2
    <3>2. hist.wait = -1 \/ (o.pending /\ hist.wait \in 0..o.pending_ticks)
      BY <1>2, <3>1 DEF HoldFollows
    <3>. QED
      BY <1>1, <1>3, <1>7, <3>2
  <2>3. CASE ~q.fullscreen /\ Withheld(q, f)
    <3>1. p' = q
      BY <2>3 DEF Judges, q, o
    <3>. QED
      BY <1>4, <1>6, <2>2, <2>3, <3>1
  <2>4. CASE ~q.fullscreen /\ ~Withheld(q, f) /\ Fits(q, Masked(f))
    BY <1>4, <1>6, <2>4
  <2>5. CASE ~q.fullscreen /\ ~Withheld(q, f) /\ ~Fits(q, Masked(f))
    <3> DEFINE w == [q EXCEPT !.pending = TRUE, !.pending_ticks = PendingFor(q, f)]
    <3>1. Answered(w, f) \/ Begun(w, f, TRUE) \/ p' = w
      BY <2>5 DEF Judges, JudgesGlass, PendingFor, q, o
    <3>2. w.pending /\ w.pending_ticks = PendingFor(q, f)
      <4>1. IsPresenter(q)
        BY <1>1, TypedFlags
      <4>. QED
        BY <4>1, WaitingFields
    <3> HIDE DEF w
    <3>3. p'.pending = w.pending /\ p'.pending_ticks = w.pending_ticks
      BY <3>1 DEF Answered, Begun, Differs, Starting, Fields
    <3>4. PendingFor(q, f) = IF ~q.pending THEN 0
                             ELSE IF q.pending_ticks + f.ticks <= Confirm
                             THEN q.pending_ticks + f.ticks ELSE Confirm
      BY <1>1, PendingForTyped
    <3>5. hist'.wait = IF hist.wait < 0 THEN 0
                       ELSE IF hist.wait + f.ticks <= Confirm THEN hist.wait + f.ticks ELSE Confirm
      BY <1>1, <1>4, <1>7, <2>5, LongerDuration
    <3>6. q.pending_ticks \in 0..Confirm /\ q.pending \in BOOLEAN
      BY <1>1, TypedFlags DEF Typed
    <3>7. hist'.wait \in 0..PendingFor(q, f)
      BY <1>1, <1>7, <2>2, <2>5, <3>4, <3>5, <3>6
    <3>. QED
      BY <1>6, <2>5, <3>2, <3>3, <3>7
  <2>. QED
    BY <2>1, <2>3, <2>4, <2>5
<1>13. HoldFollows(p', hist')
  BY <1>10, <1>11, <1>12 DEF HoldFollows
<1>14. PendingIsBounded'
  <2>1. SUFFICES ASSUME pc' = "idle", result' = "PENDING"
                 PROVE  \/ hist'.copies \in 0..(ScrollHold - 1)
                        \/ hist'.blanks \in 1..(BlankHold - 1)
                        \/ hist'.wait \in 0..(Confirm - 1)
    BY DEF PendingIsBounded
  <2>2. \/ Withheld(q, f)
        \/ ~Withheld(q, f) /\ ~q.fullscreen /\ ~Fits(q, Masked(f)) /\ p'.pending_ticks < Confirm
    <3>1. CASE ~Withheld(q, f) /\ q.fullscreen
      <4>1. JudgesFullscreen(q, f)
        BY <3>1 DEF Judges, q, o
      <4>. QED
        BY <2>1, <4>1 DEF JudgesFullscreen, Answered, Begun
    <3>2. CASE ~Withheld(q, f) /\ ~q.fullscreen
      <4>1. JudgesGlass(q, f)
        BY <3>2 DEF Judges, q, o
      <4>. QED
        BY <2>1, <3>2, <4>1 DEF JudgesGlass, Answered, Begun
    <3>. QED
      BY <3>1, <3>2
  <2>3. CASE Copying(f) /\ q.scroll_ticks < ScrollHold
    BY <1>1, <1>3, <1>6, <1>7, <1>10, <2>3 DEF Typed
  <2>4. CASE f.disabled /\ ~q.released
    <3>1. ~p'.released /\ hist'.blanks >= 1 /\ hist'.blanks < BlankHold /\ hist'.blanks = p'.disabled_ticks
      BY <1>6, <1>11, <2>4
    <3>2. p'.disabled_ticks \in Int
      BY <1>1 DEF Typed
    <3>. QED
      BY <1>1, <3>1, <3>2
  <2>5. CASE ~Withheld(q, f) /\ ~q.fullscreen /\ ~Fits(q, Masked(f)) /\ p'.pending_ticks < Confirm
    <3>1. hist'.wait \in 0..p'.pending_ticks /\ p'.pending_ticks \in Int
      BY <1>1, <1>12, <2>5 DEF Typed
    <3>. QED
      BY <1>1, <2>5, <3>1
  <2>. QED
    BY <2>2, <2>3, <2>4, <2>5 DEF Withheld
<1>. QED
  BY <1>13, <1>14

\* What a call has looked at, as far as the holds go.
LEMMA LooksHold ==
  ASSUME Typed(p), Durations(hist), HoldFollows(p, hist), Looks PROVE HoldFollows(p', hist')
<1>1. PICK q \in {p, Observed(p)} :
        /\ Touches(q, p')
        /\ hist' = Told(hist, p') \/ (q = p /\ hist' = [hist EXCEPT !.taken = hist.taken + 1])
  BY DEF Looks
<1>2. /\ q.holding = p.holding /\ q.scroll_ticks = p.scroll_ticks
      /\ q.released = p.released /\ q.disabled_ticks = p.disabled_ticks
      /\ \/ q.pending = p.pending /\ q.pending_ticks = p.pending_ticks /\ q.fullscreen = p.fullscreen
         \/ p.fullscreen \/ q.fullscreen
  <2>1. \/ q = p \/ Differs(p, q, Sighted \cup {"error"}) \/ Differs(p, q, Sighted)
        \/ Differs(p, q, FellBack) /\ (p.fullscreen \/ q.fullscreen)
    BY TypedFlags, ObservedFields
  <2>. QED
    BY <2>1 DEF Differs, FellBack, Sighted, Fields
<1>3. /\ p'.holding = q.holding /\ p'.scroll_ticks = q.scroll_ticks /\ p'.released = q.released
      /\ p'.disabled_ticks = q.disabled_ticks /\ p'.fullscreen = q.fullscreen
      /\ p'.pending = q.pending /\ p'.pending_ticks = q.pending_ticks
  <2>1. \A x \in Fields \ Minor : p'[x] = q[x]
    BY <1>1 DEF Touches, Differs
  <2>. QED
    BY <2>1 DEF Minor, Fields
<1>4. IsPast(hist)
  BY DEF Durations
<1>5. CASE hist' = Told(hist, p')
  <2>1. /\ \A x \in Marks \ {"overtaken", "wait"} : hist'[x] = hist[x]
        /\ hist'.wait = (IF p'.fullscreen THEN -1 ELSE hist.wait)
    BY <1>4, <1>5, ToldFields
  <2>2. hist'.copies = hist.copies /\ hist'.blanks = hist.blanks
    BY <2>1 DEF Marks
  <2>. QED
    BY <1>2, <1>3, <2>1, <2>2 DEF HoldFollows
<1>6. CASE q = p /\ hist' = [hist EXCEPT !.taken = hist.taken + 1]
  <2>1. hist'.copies = hist.copies /\ hist'.blanks = hist.blanks /\ hist'.wait = hist.wait
    BY <1>4, <1>6 DEF IsPast, Marks
  <2>. QED
    BY <1>3, <1>6, <2>1 DEF HoldFollows
<1>. QED
  BY <1>1, <1>5, <1>6

\* The other steps hold nothing back.
LEMMA OthersHold ==
  ASSUME Typed(p), Durations(hist), HoldFollows(p, hist), PendingIsBounded,
         Looks \/ WritesUnit \/ CommitsOutput \/ Renews \/ Rests
  PROVE  HoldFollows(p', hist') /\ PendingIsBounded'
<1>1. CASE Looks
  BY <1>1, LooksHold DEF Looks, PendingIsBounded
<1>2. CASE WritesUnit
  <2>1. /\ p'.holding = p.holding /\ p'.scroll_ticks = p.scroll_ticks /\ p'.released = p.released
        /\ p'.disabled_ticks = p.disabled_ticks /\ p'.fullscreen = p.fullscreen
        /\ p'.pending = p.pending /\ p'.pending_ticks = p.pending_ticks
    BY <1>2 DEF WritesUnit, Differs, Fields
  <2>2. hist'.copies = hist.copies /\ hist'.blanks = hist.blanks /\ hist'.wait = hist.wait
        /\ (pc' = "idle" => result' # "PENDING")
    BY <1>2 DEF WritesUnit, Marks
  <2>. QED
    BY <2>1, <2>2 DEF HoldFollows, PendingIsBounded
<1>3. CASE CommitsOutput
  <2>1. Differs(p, p', Committed) /\ hist'.wait = -1 /\ result' # "PENDING"
        /\ hist'.copies = hist.copies /\ hist'.blanks = hist.blanks
    BY <1>3 DEF CommitsOutput
  <2>2. /\ p'.holding = p.holding /\ p'.scroll_ticks = p.scroll_ticks /\ p'.released = p.released
        /\ p'.disabled_ticks = p.disabled_ticks
    BY <2>1 DEF Differs, Committed, Fields
  <2>. QED
    BY <2>1, <2>2 DEF HoldFollows, PendingIsBounded
<1>4. CASE Renews
  <2>1. PICK stats, taken : /\ p' = [Fresh EXCEPT !.stats = stats] /\ hist' = [Past EXCEPT !.taken = taken]
                            /\ result' # "PENDING"
    BY <1>4 DEF Renews
  <2>2. p'.holding = FALSE /\ p'.disabled_ticks = 0
    BY <2>1 DEF Fresh
  <2>3. hist'.copies = -1 /\ hist'.blanks = 0 /\ hist'.wait = -1
    BY <2>1 DEF Past
  <2>. QED
    BY <2>1, <2>2, <2>3 DEF HoldFollows, PendingIsBounded
<1>5. CASE Rests
  BY <1>5 DEF Rests, HoldFollows, PendingIsBounded
<1>. QED
  BY <1>1, <1>2, <1>3, <1>4, <1>5

-----------------------------------------------------------------------------
(***************************************************************************)
(* Fullscreen is left only when that has been earned.                      *)
(***************************************************************************)
\* Recovery is evidence that the frames have given since the last output
\* without any; there is none outside fullscreen.
RecoveryFollows(q, h) ==
  /\ q.recovery.boundary => h.seen # "none"
  /\ q.recovery.text => h.seen = "text"
  /\ q.recovery.confirming => q.recovery.text /\ q.recovery.ticks <= h.calm
  /\ ~q.fullscreen \/ Glass(q) => q.recovery = NoRecovery
Earned(q, h) == Repaints(q) /\ q.next.recovered =>
                  h.seen = "text" /\ h.calm >= Confirm /\ ~q.fullscreen_resume

\* What recovering takes as evidence, the history has seen.
LEMMA RecoveringFollows ==
  ASSUME NEW r \in Recoveries, NEW f \in FrameTypes, NEW h, Durations(h),
         r.boundary => h.seen # "none", r.text => h.seen = "text",
         r.confirming => r.text /\ r.ticks <= h.calm
  PROVE  LET g == Masked(f)
             s == recovering(r, g)
             seen == SeenNext(h.seen, g)
             calm == IF CalmNext(h.seen, g) THEN Longer(h.calm, f, Confirm) ELSE -1
         IN /\ s.boundary => seen # "none"
            /\ s.text => seen = "text"
            /\ s.confirming => s.text /\ s.ticks <= calm
<1> DEFINE g == Masked(f)
           boundary == r.boundary \/ g.trace.advanced
           text == r.text \/ (boundary /\ g.trace.text)
           calm == text /\ g.trace.frontier
<1>1. /\ g.ticks = f.ticks /\ f.ticks \in Nat /\ Confirm \in Nat
      /\ g.trace \in [clear : BOOLEAN, foreign : BOOLEAN, advanced : BOOLEAN, text : BOOLEAN,
                      frontier : BOOLEAN]
      /\ r.boundary \in BOOLEAN /\ r.text \in BOOLEAN /\ r.confirming \in BOOLEAN /\ r.ticks \in 0..Confirm
      /\ h.seen \in {"none", "line", "text"} /\ h.calm \in -1..Confirm
  BY MaskedFrame, BoundsAssumption DEF FrameTypes, Recoveries, Durations
<1> HIDE DEF g
<1>2. CASE g.trace.clear
  BY <1>2 DEF recovering, NoRecovery, SeenNext, g
<1>3. CASE ~g.trace.clear /\ g.trace.foreign
  BY <1>3 DEF recovering, NoRecovery, g
<1>4. CASE ~g.trace.clear /\ ~g.trace.foreign
  <2>1. recovering(r, g) = [boundary |-> boundary, text |-> text, confirming |-> calm,
                            ticks |-> IF calm /\ r.confirming THEN Min({r.ticks + g.ticks, Confirm}) ELSE 0]
    BY <1>4 DEF recovering
  <2>2. boundary => SeenNext(h.seen, g) # "none"
    BY <1>1, <1>4 DEF SeenNext
  <2>3. text => SeenNext(h.seen, g) = "text"
    BY <1>1, <1>4 DEF SeenNext
  <2>4. calm => CalmNext(h.seen, g)
    BY <1>1, <1>4, <2>3 DEF CalmNext
  <2>5. Longer(h.calm, f, Confirm) = IF h.calm < 0 THEN 0
                                     ELSE IF h.calm + f.ticks <= Confirm THEN h.calm + f.ticks ELSE Confirm
    BY <1>1, LongerDuration
  <2>6. Min({r.ticks + g.ticks, Confirm}) = IF r.ticks + g.ticks <= Confirm THEN r.ticks + g.ticks ELSE Confirm
    BY <1>1, LeastOfTwo
  <2>7. (IF calm /\ r.confirming THEN Min({r.ticks + g.ticks, Confirm}) ELSE 0) <= Longer(h.calm, f, Confirm)
    BY <1>1, <2>5, <2>6
  <2> HIDE DEF boundary, text
  <2>8. calm => text
    OBVIOUS
  <2> HIDE DEF calm
  <2> DEFINE s == recovering(r, g)
  <2>9. /\ s.boundary = boundary /\ s.text = text /\ s.confirming = calm
        /\ s.ticks = IF calm /\ r.confirming THEN Min({r.ticks + g.ticks, Confirm}) ELSE 0
    BY <2>1
  <2> HIDE DEF s
  <2>. QED
    BY <2>2, <2>3, <2>4, <2>7, <2>8, <2>9 DEF g, s
<1>. QED
  BY <1>1, <1>2, <1>3, <1>4 DEF g

\* A frame that is judged leaves evidence for its recovery, and an output that
\* leaves fullscreen has all of it.
LEMMA JudgesRecovery ==
  ASSUME Typed(p), Durations(hist), RecoveryFollows(Observed(p), hist), NEW f \in FrameTypes, Judges(f)
  PROVE  RecoveryFollows(p', hist') /\ Earned(p', hist')
<1> DEFINE o == Observed(p)
           q == Seen(o, f)
           g == Masked(f)
<1>1. Typed(o) /\ Typed(q) /\ ~o.output_pending /\ IsPresenter(q)
  BY ObservedTyped, SeenTyped, TypedFlags, ObservedOutput DEF Judges, SameOutput
<1>2. /\ q.recovery = o.recovery /\ q.fullscreen = o.fullscreen /\ ~q.output_pending
      /\ q.fullscreen_resume = o.fullscreen_resume
  <2>1. Differs(o, q, Seeing)
    BY <1>1, SeenFields, TypedFlags
  <2> HIDE DEF q, o
  <2>. QED
    BY <1>1, <2>1 DEF Differs, Seeing, Fields
<1>3. /\ hist'.seen = (IF Planning(q, f) THEN SeenNext(hist.seen, g)
                       ELSE IF ~Withheld(q, f) THEN "none" ELSE hist.seen)
      /\ hist'.calm = (IF Planning(q, f) /\ CalmNext(hist.seen, g) THEN Longer(hist.calm, f, Confirm)
                       ELSE IF ~Withheld(q, f) THEN -1 ELSE hist.calm)
  BY JudgesHistory
<1>4. \/ Withheld(q, f) /\ p' = q
      \/ ~Withheld(q, f) /\ q.fullscreen /\ JudgesFullscreen(q, f)
      \/ ~Withheld(q, f) /\ ~q.fullscreen /\ JudgesGlass(q, f)
  BY DEF Judges
<1>5. RecoveryFollows(o, hist)
  OBVIOUS
<1> HIDE DEF q, o, g
<1>6. CASE Withheld(q, f) /\ p' = q
  <2>1. hist'.seen = hist.seen /\ hist'.calm = hist.calm
    BY <1>3, <1>6 DEF Planning
  <2>. QED
    BY <1>2, <1>5, <1>6, <2>1 DEF RecoveryFollows, Earned, Glass, Repaints
<1>7. CASE ~Withheld(q, f) /\ q.fullscreen /\ JudgesFullscreen(q, f)
  <2> DEFINE planned == Reversible /\ Fits(q, Masked(f))
             recovery == IF planned THEN recovering(q.recovery, Masked(f)) ELSE NoRecovery
             r == [q EXCEPT !.recovery = recovery]
  <2>1. \/ Answered(r, f)
        \/ /\ Begun(r, f, TRUE)
           /\ p'.next.recovered => planned /\ Recovered(r.recovery) /\ ~q.fullscreen_resume
    BY <1>7 DEF JudgesFullscreen
  <2> HIDE DEF recovery
  <2>2. Differs(q, r, {"recovery"}) /\ r.recovery = recovery
    <3>1. IsPresenter(q)
      BY <1>1
    <3>. QED
      BY <3>1, WaitingFields
  <2> HIDE DEF r
  <2>3. /\ p'.recovery = recovery /\ p'.fullscreen /\ p'.fullscreen_resume = q.fullscreen_resume
        /\ ~Glass(p')
        /\ Repaints(p') /\ p'.next.recovered => planned /\ Recovered(recovery) /\ ~p'.fullscreen_resume
    <3>1. \A x \in Fields \ {"recovery"} : r[x] = q[x]
      BY <2>2 DEF Differs
    <3>2. CASE Answered(r, f)
      <4>1. \A x \in Fields \ {"error"} : p'[x] = r[x]
        BY <3>2 DEF Answered, Differs
      <4>. QED
        BY <1>2, <1>7, <2>2, <3>1, <4>1 DEF Fields, Glass, Repaints
    <3>3. CASE /\ Begun(r, f, TRUE)
               /\ p'.next.recovered => planned /\ Recovered(r.recovery) /\ ~q.fullscreen_resume
      <4>1. (\A x \in Fields \ Starting : p'[x] = r[x]) /\ p'.next.fullscreen = TRUE
        BY <3>3 DEF Begun, Differs
      <4>. QED
        BY <1>2, <1>7, <2>2, <3>1, <3>3, <4>1 DEF Fields, Starting, Glass
    <3>. QED
      BY <2>1, <3>2, <3>3
  <2>4. Planning(q, f) = planned
    BY <1>7, Zenon DEF Planning
  <2>5. CASE ~planned
    <3>1. recovery = NoRecovery
      BY <2>5 DEF recovery
    <3>. QED
      BY <2>3, <2>5, <3>1 DEF RecoveryFollows, Earned, NoRecovery
  <2>6. CASE planned
    <3>1. recovery = recovering(o.recovery, Masked(f))
      BY <1>2, <2>6 DEF recovery
    <3>2. /\ recovery.boundary => hist'.seen # "none"
          /\ recovery.text => hist'.seen = "text"
          /\ recovery.confirming => recovery.text /\ recovery.ticks <= hist'.calm
      <4>1. /\ hist'.seen = SeenNext(hist.seen, Masked(f))
            /\ hist'.calm = IF CalmNext(hist.seen, Masked(f)) THEN Longer(hist.calm, f, Confirm) ELSE -1
        BY <1>3, <1>7, <2>4, <2>6 DEF g
      <4>2. /\ o.recovery \in Recoveries /\ (o.recovery.boundary => hist.seen # "none")
            /\ (o.recovery.text => hist.seen = "text")
            /\ (o.recovery.confirming => o.recovery.text /\ o.recovery.ticks <= hist.calm)
        BY <1>1, <1>5 DEF RecoveryFollows, Typed
      <4>. QED
        BY <3>1, <4>1, <4>2, RecoveringFollows
    <3>3. Recovered(recovery) => hist'.seen = "text" /\ hist'.calm >= Confirm
      <4>1. recovery \in Recoveries
        <5>1. o.recovery \in Recoveries /\ Masked(f) \in FrameTypes
          BY <1>1, MaskedFrame DEF Typed
        <5>. QED
          BY <3>1, <5>1, RecoveringTyped
      <4>2. hist'.calm \in Int /\ Confirm \in Nat
        <5>1. hist.calm \in Int /\ Confirm \in Nat /\ f.ticks \in Nat
          BY BoundsAssumption DEF Durations, FrameTypes
        <5>2. Longer(hist.calm, f, Confirm) \in Int
          BY <5>1, LongerDuration
        <5>. QED
          BY <1>3, <5>1, <5>2
      <4>3. Recovered(recovery) => recovery.confirming /\ recovery.ticks >= Confirm
        BY DEF Recovered
      <4>4. recovery.ticks \in Int
        BY <4>1 DEF Recoveries
      <4>. QED
        BY <3>2, <4>2, <4>3, <4>4
    <3>. QED
      BY <2>3, <3>2, <3>3 DEF RecoveryFollows, Earned
  <2>. QED
    BY <2>5, <2>6
<1>8. CASE ~Withheld(q, f) /\ ~q.fullscreen /\ JudgesGlass(q, f)
  <2>1. o.recovery = NoRecovery
    BY <1>2, <1>5, <1>8 DEF RecoveryFollows
  <2> DEFINE w == [q EXCEPT !.pending = TRUE, !.pending_ticks = PendingFor(q, f)]
  <2>2. \/ Begun(q, f, FALSE)
        \/ p' = w \/ Answered(w, f)
        \/ Begun(w, f, TRUE) /\ p'.next.recovered = FALSE
    BY <1>8 DEF JudgesGlass, PendingFor
  <2>3. Differs(q, w, {"pending", "pending_ticks"})
    BY <1>1, WaitingFields
  <2> HIDE DEF w
  <2>4. \A x \in Fields \ {"pending", "pending_ticks"} : w[x] = q[x]
    BY <2>3 DEF Differs
  <2>5. p'.recovery = q.recovery /\ p'.fullscreen = q.fullscreen /\ ~(Repaints(p') /\ p'.next.recovered)
    <3>1. CASE Begun(q, f, FALSE)
      <4>1. (\A x \in Fields \ Starting : p'[x] = q[x]) /\ p'.next.fullscreen = FALSE
        BY <3>1 DEF Begun, Differs
      <4>. QED
        BY <4>1 DEF Fields, Starting, Repaints
    <3>2. CASE p' = w
      BY <1>2, <2>4, <3>2 DEF Fields, Repaints
    <3>3. CASE Answered(w, f)
      <4>1. \A x \in Fields \ {"error"} : p'[x] = w[x]
        BY <3>3 DEF Answered, Differs
      <4>. QED
        BY <1>2, <2>4, <4>1 DEF Fields, Repaints
    <3>4. CASE Begun(w, f, TRUE) /\ p'.next.recovered = FALSE
      <4>1. \A x \in Fields \ Starting : p'[x] = w[x]
        BY <3>4 DEF Begun, Differs
      <4>. QED
        BY <2>4, <3>4, <4>1 DEF Fields, Starting
    <3>. QED
      BY <2>2, <3>1, <3>2, <3>3, <3>4
  <2>. QED
    BY <1>2, <2>1, <2>5 DEF RecoveryFollows, Earned, NoRecovery
<1>. QED
  BY <1>4, <1>6, <1>7, <1>8

\* Observing the terminal gives up the evidence, or leaves it.
LEMMA ObservedRecovery ==
  ASSUME Typed(p), RecoveryFollows(p, hist), Earned(p, hist)
  PROVE  RecoveryFollows(Observed(p), hist) /\ Earned(Observed(p), hist)
<1> DEFINE r == Observed(p)
<1>1. r.output_pending = p.output_pending /\ r.next = p.next
  BY TypedFlags, ObservedOutput DEF SameOutput
<1>2. CASE Differs(p, r, Sighted \cup {"error"}) \/ Differs(p, r, Sighted) \/ r = p
  <2> HIDE DEF r
  <2>1. r.recovery = p.recovery /\ r.fullscreen = p.fullscreen /\ r.fullscreen_resume = p.fullscreen_resume
    BY <1>2 DEF Differs, Sighted, Fields
  <2>2. RecoveryFollows(r, hist) /\ Earned(r, hist)
    BY <1>1, <2>1 DEF RecoveryFollows, Earned, Repaints, Glass
  <2>. QED
    BY <2>2 DEF r
<1>3. CASE ~Repaints(p) /\ r.recovery = NoRecovery
  <2> HIDE DEF r
  <2>1. RecoveryFollows(r, hist) /\ Earned(r, hist)
    BY <1>1, <1>3 DEF RecoveryFollows, Earned, Repaints, NoRecovery
  <2>. QED
    BY <2>1 DEF r
<1> HIDE DEF r
<1>. QED
  BY <1>2, <1>3, ObservedFields, TypedFlags DEF r

\* The other steps keep the evidence as long as they keep the recovery.
LEMMA OthersRecovery ==
  ASSUME Typed(p), Durations(hist), RecoveryFollows(p, hist), Earned(p, hist),
         Looks \/ WritesUnit \/ CommitsOutput \/ Renews \/ Rests
  PROVE  RecoveryFollows(p', hist') /\ Earned(p', hist')
<1>0. IsPast(hist)
  BY DEF Durations
<1>1. CASE Looks
  <2>1. PICK q \in {p, Observed(p)} :
          /\ Touches(q, p') /\ hist' \in {Told(hist, p'), [hist EXCEPT !.taken = hist.taken + 1]}
    BY <1>1 DEF Looks
  <2>2. RecoveryFollows(q, hist) /\ Earned(q, hist)
    BY <2>1, ObservedRecovery
  <2>3. \A x \in Fields \ Minor : p'[x] = q[x]
    BY <2>1 DEF Touches, Differs
  <2>4. /\ p'.recovery = q.recovery /\ p'.fullscreen = q.fullscreen /\ p'.output_pending = q.output_pending
        /\ p'.next = q.next /\ p'.fullscreen_resume = q.fullscreen_resume
    BY <2>3 DEF Fields, Minor
  <2>5. hist'.seen = hist.seen /\ hist'.calm = hist.calm
    BY <1>0, <2>1 DEF Told, IsPast, Marks
  <2>. QED
    BY <2>2, <2>4, <2>5 DEF RecoveryFollows, Earned, Repaints, Glass
<1>2. CASE WritesUnit
  <2>1. /\ p'.recovery = p.recovery /\ p'.fullscreen = p.fullscreen /\ p'.output_pending = p.output_pending
        /\ p'.next = p.next /\ p'.fullscreen_resume = p.fullscreen_resume
    BY <1>2 DEF WritesUnit, Differs, Fields
  <2>2. hist'.seen = hist.seen /\ hist'.calm = hist.calm
    BY <1>2 DEF WritesUnit, Marks
  <2>. QED
    BY <2>1, <2>2 DEF RecoveryFollows, Earned, Repaints, Glass
<1>3. CASE CommitsOutput
  <2> DEFINE afresh == p.next.fullscreen /\ (Entering(p) \/ ~p'.fullscreen)
  <2>1. /\ p.output_pending /\ p'.output_pending = FALSE
        /\ p'.fullscreen = (p.next.fullscreen /\ ~(p.next.recovered /\ p.next.inside))
        /\ p'.recovery = (IF afresh THEN NoRecovery ELSE p.recovery)
        /\ hist'.seen = (IF afresh THEN "none" ELSE hist.seen)
        /\ hist'.calm = (IF afresh THEN -1 ELSE hist.calm)
    BY <1>3 DEF CommitsOutput
  <2>2. ~Repaints(p') /\ ~Glass(p')
    BY <2>1 DEF Repaints, Glass
  <2>3. CASE afresh
    BY <2>1, <2>2, <2>3 DEF RecoveryFollows, Earned, NoRecovery
  <2>4. CASE ~afresh
    <3>1. p.next.fullscreen \in BOOLEAN
      BY TypedFlags
    <3>2. ~p'.fullscreen => p.recovery = NoRecovery
      BY <2>1, <2>4, <3>1 DEF RecoveryFollows, Glass
    <3>. QED
      BY <2>1, <2>2, <2>4, <3>2 DEF RecoveryFollows, Earned
  <2>. QED
    BY <2>3, <2>4
<1>4. CASE Renews
  <2>1. p'.recovery = NoRecovery /\ p'.output_pending = FALSE
    BY <1>4 DEF Renews, Fresh
  <2>. QED
    BY <2>1 DEF RecoveryFollows, Earned, Repaints, NoRecovery
<1>5. CASE Rests
  BY <1>5 DEF Rests, RecoveryFollows, Earned
<1>. QED
  BY <1>1, <1>2, <1>3, <1>4, <1>5

-----------------------------------------------------------------------------
(***************************************************************************)
(* Fullscreen is remembered in the background and known in the foreground. *)
(***************************************************************************)
\* The presenter is fullscreen only in the foreground and remembers it only in
\* the background, but for a fullscreen output that is lost; whoever has
\* fullscreen bytes on the terminal can tell.
PolicyFollows(q, h) ==
  /\ ~Lost(q) => (q.background => ~q.fullscreen) /\ (~q.background => ~q.foreground_fullscreen)
  /\ Repaints(q) /\ ~Lost(q) => ~q.background
  /\ Glass(q) /\ q.fullscreen => h.overtaken
  /\ h.dirty /\ ~h.overtaken =>
       \/ q.fullscreen \/ (Repaints(q) /\ q.written # 0)
       \/ ~Repaints(q) /\ q.background /\ q.foreground_fullscreen
  /\ h.policy /\ q.error = "ok" => q.fullscreen \/ q.foreground_fullscreen \/ h.overtaken

\* What the history of the policy remembers of a call.
LEMMA ToldPolicy ==
  ASSUME NEW h, IsPast(h), NEW q
  PROVE  LET t == Told(h, q)
         IN /\ t.dirty = h.dirty /\ t.policy = h.policy
            /\ t.overtaken = (h.overtaken \/ (q.output_pending /\ ~q.next.fullscreen /\ q.fullscreen))
<1> DEFINE t == Told(h, q)
<1>1. /\ \A x \in Marks \ {"overtaken", "wait"} : t[x] = h[x]
      /\ t.overtaken = (h.overtaken \/ (q.output_pending /\ ~q.next.fullscreen /\ q.fullscreen))
  BY ToldFields
<1> HIDE DEF t
<1>2. t.dirty = h.dirty /\ t.policy = h.policy
  BY <1>1 DEF Marks
<1>. QED
  BY <1>1, <1>2 DEF t

\* Observing the terminal takes fullscreen to the background, or back.
LEMMA ObservedPolicy ==
  ASSUME Typed(p), Durations(hist), PolicyFollows(p, hist), NEW q \in {p, Observed(p)}
  PROVE  PolicyFollows(q, Told(hist, q))
<1> DEFINE h == Told(hist, q)
<1> SUFFICES PolicyFollows(q, h)
  OBVIOUS
<1>1. Typed(q) /\ IsPast(hist) /\ {hist.dirty, hist.policy, hist.overtaken} \subseteq BOOLEAN
  BY ObservedTyped DEF Durations
<1>2. /\ h.dirty = hist.dirty /\ h.policy = hist.policy
      /\ h.overtaken = (hist.overtaken \/ (q.output_pending /\ ~q.next.fullscreen /\ q.fullscreen))
  BY <1>1, ToldPolicy
<1> HIDE DEF h
<1>3. q.output_pending = p.output_pending /\ q.next = p.next
  BY TypedFlags, ObservedOutput DEF SameOutput
<1>4. Glass(q) /\ q.fullscreen => h.overtaken
  BY <1>2 DEF Glass
<1>5. /\ q.fullscreen \in BOOLEAN /\ q.foreground_fullscreen \in BOOLEAN /\ q.background \in BOOLEAN
      /\ p.fullscreen \in BOOLEAN /\ p.foreground_fullscreen \in BOOLEAN /\ p.background \in BOOLEAN
      /\ p.output_pending \in BOOLEAN /\ p.next.fullscreen \in BOOLEAN
      /\ hist.dirty \in BOOLEAN /\ hist.policy \in BOOLEAN /\ hist.overtaken \in BOOLEAN
  BY <1>1, TypedFlags
<1>6. CASE q = p
  BY <1>2, <1>4, <1>6 DEF PolicyFollows
<1>7. CASE /\ Repaints(p) /\ Differs(p, q, Sighted \cup {"error"}) /\ q.error = "BACKGROUND"
  <2>1. Repaints(q) /\ Lost(q) /\ q.fullscreen = p.fullscreen /\ q.written = p.written
    BY <1>3, <1>7 DEF Repaints, Lost, Differs, Sighted, Fields
  <2>2. Repaints(p) /\ q.error # "ok"
    BY <1>7
  <2>. QED
    BY <1>2, <1>4, <2>1, <2>2 DEF PolicyFollows
<1>8. CASE /\ ~Repaints(p) /\ Differs(p, q, FellBack) /\ q.background = ~foreground
           /\ q.fullscreen = Resumes(p)
           /\ q.foreground_fullscreen = (Remembered(p, ~foreground) /\ ~Resumes(p))
  <2>1. ~Repaints(q) /\ ~Lost(q) /\ ~Lost(p) /\ ~Repaints(p) /\ q.error = p.error
    BY <1>3, <1>8 DEF Repaints, Lost, Differs, FellBack, Sighted, Fields
  <2>2. /\ p.background => ~p.fullscreen
        /\ ~p.background => ~p.foreground_fullscreen
    BY <2>1 DEF PolicyFollows
  <2>3. CASE foreground
    <3>1. /\ ~q.background /\ (q.fullscreen <=> p.fullscreen \/ p.foreground_fullscreen)
          /\ ~q.foreground_fullscreen
      BY <1>5, <1>8, <2>3 DEF Resumes, Remembered
    <3>. QED
      BY <1>2, <1>4, <2>1, <2>2, <3>1 DEF PolicyFollows
  <2>4. CASE ~foreground
    <3>1. /\ q.background /\ ~q.fullscreen
          /\ q.foreground_fullscreen <=> p.fullscreen \/ p.foreground_fullscreen
      BY <1>5, <1>8, <2>2, <2>4 DEF Resumes, Remembered
    <3>. QED
      BY <1>2, <1>4, <2>1, <2>2, <3>1 DEF PolicyFollows
  <2>. QED
    BY <2>3, <2>4
<1>9. CASE /\ ~Repaints(p) /\ ~p.fullscreen /\ ~Resumes(p) /\ Differs(p, q, Sighted)
           /\ q.background = ~foreground /\ q.foreground_fullscreen = Remembered(p, ~foreground)
  <2>1. ~Repaints(q) /\ ~Lost(q) /\ ~Lost(p) /\ ~Repaints(p) /\ q.error = p.error
        /\ ~q.fullscreen
    BY <1>3, <1>9 DEF Repaints, Lost, Differs, Sighted, Fields
  <2>2. ~p.background => ~p.foreground_fullscreen
    BY <2>1 DEF PolicyFollows
  <2>3. q.foreground_fullscreen <=> p.foreground_fullscreen
    BY <1>5, <1>9, <2>2 DEF Remembered
  <2>4. ~q.background => ~q.foreground_fullscreen
    BY <1>5, <1>9, <2>3 DEF Resumes
  <2>5. p.foreground_fullscreen => q.background
    BY <1>5, <2>3, <2>4
  <2>. QED
    BY <1>2, <1>4, <1>9, <2>1, <2>2, <2>3, <2>4, <2>5 DEF PolicyFollows
<1>10. CASE q = Observed(p)
  <2>1. IsPresenter(p)
    BY TypedFlags
  <2>2. \/ q = p
        \/ /\ Repaints(p) /\ Differs(p, q, Sighted \cup {"error"}) /\ q.error = "BACKGROUND"
        \/ /\ ~Repaints(p) /\ Differs(p, q, FellBack) /\ q.background = ~foreground
           /\ q.fullscreen = Resumes(p)
           /\ q.foreground_fullscreen = (Remembered(p, ~foreground) /\ ~Resumes(p))
        \/ /\ ~Repaints(p) /\ ~p.fullscreen /\ ~Resumes(p) /\ Differs(p, q, Sighted)
           /\ q.background = ~foreground /\ q.foreground_fullscreen = Remembered(p, ~foreground)
    BY <1>10, <2>1, ObservedFields
  <2>. QED
    BY <1>6, <1>7, <1>8, <1>9, <2>2
<1>. QED
  BY <1>6, <1>10

\* A frame begins a fullscreen output only in the foreground.
LEMMA JudgesPolicy ==
  ASSUME Typed(p), Durations(hist), PolicyFollows(p, hist), NEW f \in FrameTypes, Judges(f)
  PROVE  PolicyFollows(p', hist')
<1> DEFINE o == Observed(p)
           q == Seen(o, f)
<1>1. Typed(o) /\ Typed(q) /\ ~o.output_pending /\ o.error = "ok" /\ IsPresenter(q)
      /\ hist.overtaken \in BOOLEAN /\ IsPast(hist)
  BY ObservedTyped, SeenTyped, TypedFlags, ObservedOutput DEF Judges, SameOutput, Durations
<1>2. PolicyFollows(o, Told(hist, o))
  BY ObservedPolicy
<1>3. /\ Told(hist, o).dirty = hist.dirty /\ Told(hist, o).policy = hist.policy
      /\ Told(hist, o).overtaken = (hist.overtaken \/ (o.output_pending /\ ~o.next.fullscreen /\ o.fullscreen))
  BY <1>1, ToldPolicy
<1>4. hist'.dirty = hist.dirty /\ hist'.policy = hist.policy /\ hist'.overtaken = hist.overtaken
  BY JudgesHistory
<1>5. /\ q.fullscreen = o.fullscreen /\ q.foreground_fullscreen = o.foreground_fullscreen
      /\ q.background = o.background /\ q.output_pending = o.output_pending /\ q.error = o.error
  <2>1. Differs(o, q, Seeing)
    BY <1>1, SeenFields, TypedFlags
  <2> HIDE DEF q, o
  <2>. QED
    BY <2>1 DEF Differs, Seeing, Fields
<1>6. \/ Withheld(q, f) /\ p' = q
      \/ ~Withheld(q, f) /\ q.fullscreen /\ JudgesFullscreen(q, f)
      \/ ~Withheld(q, f) /\ ~q.fullscreen /\ JudgesGlass(q, f)
  BY DEF Judges
<1>7. Differs(q, p', Unwatched \cup Starting)
  BY JudgesFields
<1> HIDE DEF q, o
<1>8. /\ p'.fullscreen = q.fullscreen /\ p'.foreground_fullscreen = q.foreground_fullscreen
      /\ p'.background = q.background
  BY <1>7 DEF Differs, Unwatched, Starting, Fields
<1>9. /\ o.background => ~o.fullscreen
      /\ ~o.background => ~o.foreground_fullscreen
      /\ hist.dirty /\ ~hist.overtaken => o.fullscreen \/ (o.background /\ o.foreground_fullscreen)
      /\ hist.policy => o.fullscreen \/ o.foreground_fullscreen \/ hist.overtaken
  BY <1>1, <1>2, <1>3 DEF PolicyFollows, Lost, Repaints
<1>10. \/ ~p'.output_pending
       \/ p'.output_pending /\ p'.next.fullscreen = TRUE /\ ~q.background
       \/ p'.output_pending /\ p'.next.fullscreen = FALSE /\ ~q.fullscreen
  <2>1. CASE p' = q
    BY <1>1, <1>5, <2>1
  <2>2. ASSUME NEW r, NEW S, Differs(q, r, S), S \subseteq Unwatched, Answered(r, f)
        PROVE  ~p'.output_pending
    <3>1. r.output_pending = q.output_pending
      BY <2>2 DEF Differs, Unwatched, Fields
    <3>2. p'.output_pending = r.output_pending
      BY <2>2 DEF Answered, Differs, Fields
    <3>. QED
      BY <1>1, <1>5, <3>1, <3>2
  <2>3. ASSUME NEW r, NEW fullscreen, Begun(r, f, fullscreen)
        PROVE  p'.output_pending /\ p'.next.fullscreen = fullscreen
    BY <2>3 DEF Begun
  <2>4. CASE q.fullscreen /\ JudgesFullscreen(q, f)
    <3>1. PICK recovery : LET r == [q EXCEPT !.recovery = recovery] IN Answered(r, f) \/ Begun(r, f, TRUE)
      BY <2>4 DEF JudgesFullscreen
    <3>2. Differs(q, [q EXCEPT !.recovery = recovery], {"recovery"})
      BY <1>1, WaitingFields
    <3>3. ~q.background
      BY <1>5, <1>9, <2>4
    <3>. QED
      BY <2>2, <2>3, <3>1, <3>2, <3>3 DEF Unwatched
  <2>5. CASE ~q.fullscreen /\ JudgesGlass(q, f)
    <3> DEFINE w == [q EXCEPT !.pending = TRUE, !.pending_ticks = PendingFor(q, f)]
    <3>1. \/ Begun(q, f, FALSE) \/ p' = w \/ Answered(w, f)
          \/ ~q.background /\ Begun(w, f, TRUE)
      BY <2>5 DEF JudgesGlass, PendingFor
    <3>2. Differs(q, w, {"pending", "pending_ticks"})
      BY <1>1, WaitingFields
    <3> HIDE DEF w
    <3>3. w.output_pending = q.output_pending
      BY <3>2 DEF Differs, Fields
    <3>. QED
      BY <1>1, <1>5, <2>2, <2>3, <2>5, <3>1, <3>2, <3>3 DEF Unwatched
  <2>. QED
    BY <1>6, <2>1, <2>4, <2>5
<1>. QED
  BY <1>4, <1>5, <1>8, <1>9, <1>10 DEF PolicyFollows, Lost, Repaints, Glass

\* The other steps keep the policy.
LEMMA OthersPolicy ==
  ASSUME Typed(p), Durations(hist), PolicyFollows(p, hist),
         Looks \/ WritesUnit \/ CommitsOutput \/ Renews \/ Rests
  PROVE  PolicyFollows(p', hist')
<1>0. IsPast(hist) /\ hist.dirty \in BOOLEAN /\ hist.policy \in BOOLEAN /\ hist.overtaken \in BOOLEAN
  BY DEF Durations
<1>1. CASE Looks
  <2>1. PICK q \in {p, Observed(p)} :
          /\ Touches(q, p') /\ (p'.error = "ok" => q.error = "ok")
          /\ hist' = Told(hist, p') \/ (q = p /\ hist' = [hist EXCEPT !.taken = hist.taken + 1])
    BY <1>1 DEF Looks
  <2>2. PolicyFollows(q, Told(hist, q))
    BY <2>1, ObservedPolicy
  <2>3. \A x \in Fields \ Minor : p'[x] = q[x]
    BY <2>1 DEF Touches, Differs
  <2>4. /\ p'.fullscreen = q.fullscreen /\ p'.foreground_fullscreen = q.foreground_fullscreen
        /\ p'.background = q.background /\ p'.output_pending = q.output_pending
        /\ p'.next = q.next /\ p'.written = q.written
    BY <2>3 DEF Fields, Minor
  <2>5. ASSUME NEW h, PolicyFollows(q, h), hist'.dirty = h.dirty, hist'.policy = h.policy,
               hist'.overtaken = h.overtaken
        PROVE  PolicyFollows(p', hist')
    BY <2>1, <2>4, <2>5 DEF PolicyFollows, Lost, Repaints, Glass
  <2>6. CASE hist' = Told(hist, p')
    <3>1. Told(hist, p') = Told(hist, q)
      BY <2>4, Zenon DEF Told
    <3>. QED
      BY <2>2, <2>5, <2>6, <3>1
  <2>7. CASE q = p /\ hist' = [hist EXCEPT !.taken = hist.taken + 1]
    <3>1. hist'.dirty = hist.dirty /\ hist'.policy = hist.policy /\ hist'.overtaken = hist.overtaken
      BY <1>0, <2>7 DEF IsPast, Marks
    <3>. QED
      BY <2>5, <2>7, <3>1
  <2>. QED
    BY <2>1, <2>6, <2>7
<1>2. CASE WritesUnit
  <2>1. /\ p'.fullscreen = p.fullscreen /\ p'.foreground_fullscreen = p.foreground_fullscreen
        /\ p'.background = p.background /\ p'.output_pending = p.output_pending
        /\ p'.next = p.next /\ p'.error = p.error
    BY <1>2 DEF WritesUnit, Differs, Fields
  <2>2. hist'.policy = hist.policy /\ hist'.overtaken = hist.overtaken
        /\ hist'.dirty = (hist.dirty \/ p.next.fullscreen)
    BY <1>2 DEF WritesUnit, Marks
  <2>3. p'.written # 0 /\ p.output_pending
    BY <1>2 DEF WritesUnit, Typed
  <2>. QED
    BY <1>0, <2>1, <2>2, <2>3 DEF PolicyFollows, Lost, Repaints, Glass
<1>3. CASE CommitsOutput
  <2>1. /\ p.output_pending /\ p'.output_pending = FALSE /\ p.error = "ok"
        /\ p'.fullscreen = (p.next.fullscreen /\ ~(p.next.recovered /\ p.next.inside))
        /\ hist'.overtaken = hist.overtaken
        /\ hist'.dirty = (p'.fullscreen \/ (hist.dirty /\ ~p.next.fullscreen))
        /\ hist'.policy = (p'.fullscreen \/ (hist.policy /\ ~p.next.fullscreen))
        /\ Differs(p, p', Committed)
    BY <1>3 DEF CommitsOutput
  <2>2. p'.background = p.background /\ p'.foreground_fullscreen = p.foreground_fullscreen
        /\ p'.error = "ok"
    BY <2>1 DEF Differs, Committed, Fields
  <2>3. p.next.fullscreen \in BOOLEAN /\ p.fullscreen \in BOOLEAN /\ p.background \in BOOLEAN
        /\ p.foreground_fullscreen \in BOOLEAN
    BY TypedFlags
  <2>4. ~Lost(p) /\ (p.next.fullscreen => Repaints(p)) /\ (~p.next.fullscreen => Glass(p) /\ ~Repaints(p))
    BY <2>1, <2>3 DEF Lost, Repaints, Glass
  <2>5. ~Lost(p') /\ ~Repaints(p') /\ ~Glass(p')
    BY <2>1 DEF Lost, Repaints, Glass
  <2>6. /\ p.background => ~p.fullscreen
        /\ ~p.background => ~p.foreground_fullscreen
        /\ p.next.fullscreen => ~p.background
        /\ ~p.next.fullscreen /\ p.fullscreen => hist.overtaken
        /\ ~p.next.fullscreen /\ hist.dirty /\ ~hist.overtaken => p.fullscreen \/ (p.background /\ p.foreground_fullscreen)
        /\ hist.policy => p.fullscreen \/ p.foreground_fullscreen \/ hist.overtaken
    BY <2>1, <2>4 DEF PolicyFollows
  <2>. QED
    BY <1>0, <2>1, <2>2, <2>3, <2>5, <2>6 DEF PolicyFollows
<1>4. CASE Renews
  <2>1. p'.fullscreen = FALSE /\ p'.foreground_fullscreen = FALSE /\ p'.output_pending = FALSE
    BY <1>4 DEF Renews, Fresh
  <2>2. hist'.dirty = FALSE /\ hist'.policy = FALSE
    BY <1>4 DEF Renews, Past
  <2>. QED
    BY <2>1, <2>2 DEF PolicyFollows, Lost, Repaints, Glass
<1>5. CASE Rests
  BY <1>5 DEF Rests, PolicyFollows
<1>. QED
  BY <1>1, <1>2, <1>3, <1>4, <1>5

-----------------------------------------------------------------------------
\* The presenter, its history and its output agree.
Sound == /\ TInv /\ Typed(p) /\ Durations(hist)
         /\ HoldFollows(p, hist) /\ PendingIsBounded
         /\ RecoveryFollows(p, hist) /\ Earned(p, hist)
         /\ PolicyFollows(p, hist)

\* They do so at first.
LEMMA InitSound == ASSUME PInit PROVE Sound
<1>1. TInv
  BY InitTInv
<1>2. p = Fresh /\ hist = Past /\ result = "OK"
  BY DEF PInit
<1>3. /\ p.fullscreen = FALSE /\ p.foreground_fullscreen = FALSE /\ p.fullscreen_resume = FALSE
      /\ p.output_pending = FALSE /\ p.holding = FALSE /\ p.disabled_ticks = 0 /\ p.scroll_ticks = 0
      /\ p.recovery = NoRecovery /\ p.error = "ok" /\ p.pending_ticks = 0 /\ p.written = 0 /\ p.next = NoNext
  BY <1>2 DEF Fresh
<1>4. Flags(p) \subseteq BOOLEAN
  BY <1>2 DEF Fresh, Flags
<1>5. /\ NoRecovery \in Recoveries /\ NoNext.total = 0 /\ NoNext.fullscreen \in BOOLEAN
      /\ 0 \in 0..Confirm /\ 0 \in 0..MaxUnits /\ 0 \in 0..0 /\ 0 \in 0..(ScrollHold + MaxTicks)
      /\ 0 \in 0..(BlankHold + MaxTicks) /\ 0 < BlankHold
      /\ -1 \in -1..ScrollHold /\ -1 \in -1..Confirm /\ 0 \in 0..BlankHold
  BY BoundsAssumption DEF NoRecovery, Recoveries, NoNext
<1>6. Typed(p)
  BY <1>1, <1>3, <1>4, <1>5 DEF TInv, Typed, Errors
<1>7. /\ hist.copies = -1 /\ hist.blanks = 0 /\ hist.wait = -1 /\ hist.dirty = FALSE /\ hist.policy = FALSE
      /\ hist.overtaken = FALSE /\ hist.seen = "none" /\ hist.calm = -1
  BY <1>2 DEF Past
<1>8. Durations(hist)
  BY <1>1, <1>5, <1>7 DEF TInv, Durations
<1>9. HoldFollows(p, hist) /\ PendingIsBounded
  BY <1>2, <1>3, <1>7 DEF HoldFollows, PendingIsBounded
<1>10. RecoveryFollows(p, hist) /\ Earned(p, hist)
  BY <1>3 DEF RecoveryFollows, Earned, Repaints, NoRecovery
<1>11. PolicyFollows(p, hist)
  BY <1>3, <1>7 DEF PolicyFollows, Repaints, Glass, Lost
<1>. QED
  BY <1>1, <1>6, <1>8, <1>9, <1>10, <1>11 DEF Sound

\* And after every step.
LEMMA SoundStep == Sound /\ [PNext]_pvars => Sound'
<1> SUFFICES ASSUME Sound, [PNext]_pvars PROVE Sound'
  OBVIOUS
<1>1. /\ TInv /\ Typed(p) /\ Durations(hist) /\ HoldFollows(p, hist) /\ PendingIsBounded
      /\ RecoveryFollows(p, hist) /\ Earned(p, hist) /\ PolicyFollows(p, hist)
  BY DEF Sound
<1>2. TInv'
  BY <1>1, TInvStep
<1>3. \/ Looks \/ WritesUnit \/ CommitsOutput \/ Renews \/ Rests
      \/ \E f \in Frames : Judges(f)
  <2>1. /\ p.error \in Errors /\ p.written \in Nat /\ p.next.total \in Nat
        /\ Flags(p) \subseteq BOOLEAN /\ hist.overtaken \in BOOLEAN
    BY <1>1, BoundsAssumption DEF Typed, Durations
  <2>. QED
    BY <1>1, <2>1, StepSummary
<1>4. Typed(p') /\ Durations(hist')
  <2>1. ASSUME NEW f \in Frames, Judges(f) PROVE Typed(p')
    BY <1>1, <2>1, JudgesTyped, FramesAssumption
  <2>. QED
    BY <1>1, <1>3, <2>1, OthersTyped, DurationsStep
<1>5. HoldFollows(p', hist') /\ PendingIsBounded'
  <2>1. ASSUME NEW f \in Frames, Judges(f) PROVE HoldFollows(p', hist') /\ PendingIsBounded'
    BY <1>1, <2>1, JudgesHold, FramesAssumption
  <2>. QED
    BY <1>1, <1>3, <2>1, OthersHold
<1>6. RecoveryFollows(p', hist') /\ Earned(p', hist')
  <2>1. ASSUME NEW f \in Frames, Judges(f) PROVE RecoveryFollows(p', hist') /\ Earned(p', hist')
    BY <1>1, <2>1, ObservedRecovery, JudgesRecovery, FramesAssumption
  <2>. QED
    BY <1>1, <1>3, <2>1, OthersRecovery
<1>7. PolicyFollows(p', hist')
  <2>1. ASSUME NEW f \in Frames, Judges(f) PROVE PolicyFollows(p', hist')
    BY <1>1, <2>1, JudgesPolicy, FramesAssumption
  <2>. QED
    BY <1>1, <1>3, <2>1, OthersPolicy
<1>. QED
  BY <1>2, <1>4, <1>5, <1>6, <1>7 DEF Sound

\* The presenter and its history agree in every run.
THEOREM SoundTheorem == PSpec => []Sound
BY InitSound, SoundStep, PTL DEF PSpec

\* For all frames and holds, however they follow each other: a frame is held
\* back no longer than 500 ms of copied rows, 200 ms of unchanged disabled
\* video or 100 ms of text that does not fit.
THEOREM HoldTheorem == PSpec => []PendingIsBounded
<1>1. Sound => PendingIsBounded
  BY DEF Sound
<1>. QED
  BY <1>1, SoundTheorem, PTL

\* Fullscreen is left for glass text only after new text on a new line and the
\* full time of calm frames, never during a resumed repaint.
THEOREM RecoveryTheorem == PSpec => []RecoveryEarned
<1>1. Sound => RecoveryEarned
  BY DEF Sound, Earned, Repaints, RecoveryEarned
<1>. QED
  BY <1>1, SoundTheorem, PTL

\* Fullscreen survives the background, but for a glass output that was pending
\* when the foreground came back, and whoever must clean up after it is told.
THEOREM PolicyTheorem == PSpec => []FullscreenIsKnown
<1>1. Sound => FullscreenIsKnown
  BY DEF Sound, PolicyFollows, Repaints, FullscreenIsKnown, PolicyRetained, StartedTells, Started
<1>. QED
  BY <1>1, SoundTheorem, PTL

-----------------------------------------------------------------------------
(***************************************************************************)
(* The queue of notifications and its places.                              *)
(***************************************************************************)
\* The places that stay can be put in order.
Ordered(o, places) ==
  /\ o \in [1..Cardinality(places) -> places]
  /\ \A i, j \in 1..Cardinality(places) : i < j => o[i] < o[j]

\* An order exists for any of them.
LEMMA OrderExists ==
  ASSUME NEW n \in Nat, NEW places \in SUBSET (1..n)
  PROVE  \E o : Ordered(o, places)
<1> DEFINE Orderly(m) == \A s \in SUBSET (1..m) : \E o : Ordered(o, s)
           bad == {m \in Nat : ~Orderly(m)}
<1>1. SUFFICES bad = {}
  BY Zenon
<1>2. SUFFICES ASSUME bad # {} PROVE FALSE
  OBVIOUS
<1>3. PICK m \in bad : \A k \in bad : ~(k < m)
  <2>1. PICK m \in bad : \A k \in bad : <<k, m>> \notin OpToRel(<, Nat)
    <3> HIDE DEF Orderly
    <3>1. bad \subseteq Nat
      OBVIOUS
    <3> HIDE DEF bad
    <3>. QED
      BY <1>2, <3>1, WFMin, NatLessThanWellFounded, Zenon
  <2>2. ASSUME NEW k \in bad, k < m PROVE <<k, m>> \in OpToRel(<, Nat)
    BY <2>2 DEF OpToRel
  <2>. QED
    BY <2>1, <2>2
<1>4. m \in Nat /\ ~Orderly(m)
  OBVIOUS
<1>5. PICK s \in SUBSET (1..m) : \A o : ~Ordered(o, s)
  BY <1>4
<1>6. m # 0
  <2> SUFFICES ASSUME m = 0 PROVE FALSE
    OBVIOUS
  <2>1. s = {}
    BY <1>5
  <2>2. Cardinality(s) = 0
    BY <2>1, FS_EmptySet
  <2>3. Ordered([i \in {} |-> 0], s)
    BY <2>1, <2>2 DEF Ordered
  <2>. QED
    BY <1>5, <2>3
<1> DEFINE t == s \ {m}
<1>7. m - 1 \in Nat /\ t \in SUBSET (1..(m - 1))
  BY <1>4, <1>6
<1>8. Orderly(m - 1)
  <2> HIDE DEF Orderly
  <2>1. m - 1 \notin bad
    BY <1>3, <1>4, <1>7
  <2>. QED
    BY <1>7, <2>1
<1>9. PICK o : Ordered(o, t)
  BY <1>7, <1>8
<1>10. m \in s
  BY <1>5, <1>9
<1>11. IsFiniteSet(s) /\ IsFiniteSet(t)
  <2>1. IsFiniteSet(1..m)
    BY <1>4, FS_Interval
  <2>. QED
    BY <2>1, FS_Subset
<1>12. Cardinality(s) \in Nat /\ Cardinality(t) = Cardinality(s) - 1 /\ Cardinality(t) \in Nat
  BY <1>10, <1>11, FS_CardinalityType, FS_RemoveElement
<1> DEFINE c == Cardinality(t)
           r == [i \in 1..Cardinality(s) |-> IF i <= c THEN o[i] ELSE m]
<1>13. o \in [1..c -> t] /\ \A i, j \in 1..c : i < j => o[i] < o[j]
  BY <1>9 DEF Ordered
<1>14. \A i \in 1..Cardinality(s) : i <= c => i \in 1..c /\ o[i] \in t /\ o[i] < m
  <2>1. ASSUME NEW i \in 1..Cardinality(s), i <= c PROVE i \in 1..c /\ o[i] \in t
    <3>1. i \in 1..c
      BY <1>12, <2>1
    <3>. QED
      BY <1>13, <3>1
  <2>2. \A x \in t : x < m
    BY <1>4, <1>7
  <2>. QED
    BY <2>1, <2>2
<1>15. Ordered(r, s)
  <2> HIDE DEF t, c
  <2>1. r \in [1..Cardinality(s) -> s]
    BY <1>10, <1>14 DEF t
  <2>2. ASSUME NEW i \in 1..Cardinality(s), NEW j \in 1..Cardinality(s), i < j PROVE r[i] < r[j]
    <3>1. i <= c /\ r[i] = o[i]
      BY <1>12, <2>2 DEF c
    <3>. QED
      BY <1>13, <1>14, <2>2, <3>1
  <2>. QED
    BY <2>1, <2>2 DEF Ordered
<1>. QED
  BY <1>5, <1>15

\* What is left of a queue is a queue of the operations at these places, and
\* tells its operations apart if the queue did.
Distinct(queue) == \A i, j \in DOMAIN queue : queue[i].id = queue[j].id => i = j

\* What remains of a queue is one, no longer, with no operation twice.
LEMMA RemainingQueue ==
  ASSUME NEW S, NEW queue \in Seq(S), NEW places \in SUBSET (1..Len(queue))
  PROVE  LET r == Remaining(queue, places)
         IN /\ r \in Seq(S) /\ Len(r) = Cardinality(places)
            /\ Cardinality(places) \in 0..Len(queue) /\ IsFiniteSet(places)
            /\ Distinct(queue) => Distinct(r)
<1> DEFINE c == Cardinality(places)
           order == CHOOSE o \in [1..c -> places] : \A i, j \in 1..c : i < j => o[i] < o[j]
           r == [i \in 1..c |-> queue[order[i]]]
<1>0. Len(queue) \in Nat /\ \A k \in 1..Len(queue) : queue[k] \in S
  OBVIOUS
<1>1. IsFiniteSet(places) /\ c \in Nat /\ c <= Len(queue)
  <2>1. IsFiniteSet(1..Len(queue)) /\ Cardinality(1..Len(queue)) = Len(queue)
    <3>1. ASSUME NEW k \in Nat PROVE IsFiniteSet(1..k) /\ Cardinality(1..k) = IF 1 > k THEN 0 ELSE k - 1 + 1
      BY FS_Interval
    <3>. QED
      BY <1>0, <3>1
  <2>. QED
    BY <2>1, FS_Subset, FS_CardinalityType
<1>2. order \in [1..c -> places] /\ \A i, j \in 1..c : i < j => order[i] < order[j]
  <2>1. \E o \in [1..c -> places] : \A i, j \in 1..c : i < j => o[i] < o[j]
    BY <1>0, OrderExists DEF Ordered
  <2> HIDE DEF c
  <2>. QED
    BY <2>1, Zenon
<1>3. Remaining(queue, places) = r
  BY DEF Remaining
<1> HIDE DEF order, c
<1>4. \A i \in 1..c : order[i] \in 1..Len(queue) /\ queue[order[i]] \in S
  BY <1>0, <1>2
<1>5. r \in [1..c -> S]
  BY <1>4
<1>6. r \in Seq(S) /\ Len(r) = c /\ DOMAIN r = 1..c
  BY <1>1, <1>5
<1>7. ASSUME Distinct(queue), NEW i \in 1..c, NEW j \in 1..c, r[i].id = r[j].id PROVE i = j
  <2>1. order[i] = order[j]
    <3>1. order[i] \in DOMAIN queue /\ order[j] \in DOMAIN queue
      BY <1>4
    <3>2. queue[order[i]].id = queue[order[j]].id
      BY <1>7
    <3>. QED
      BY <1>7, <3>1, <3>2 DEF Distinct
  <2>. QED
    BY <1>1, <1>2, <1>4, <2>1
<1>. QED
  <2>1. Distinct(queue) => Distinct(r)
    BY <1>6, <1>7 DEF Distinct
  <2>. QED
    BY <1>1, <1>3, <1>6, <2>1 DEF c

\* Those that stay, are confirmed or are given up make up the whole queue.
Fates == {"stays", "consumed", "discarded"}

\* Their numbers add up.
LEMMA Parted ==
  ASSUME NEW n \in Nat, NEW fate \in [1..n -> Fates]
  PROVE  LET With(end) == {i \in 1..n : fate[i] = end}
         IN /\ Cardinality(With("stays")) \in Nat /\ Cardinality(With("consumed")) \in Nat
            /\ Cardinality(With("discarded")) \in Nat
            /\ Cardinality(With("stays")) + Cardinality(With("consumed"))
                 + Cardinality(With("discarded")) = n
<1> DEFINE With(end) == {i \in 1..n : fate[i] = end}
           a == With("stays")
           b == With("consumed")
           c == With("discarded")
<1>1. /\ a \subseteq 1..n /\ b \subseteq 1..n /\ a \cap b = {}
      /\ c = (1..n) \ (a \cup b) /\ (1..n) \cap (a \cup b) = a \cup b
  BY DEF Fates
<1> HIDE DEF a, b, c
<1>2. IsFiniteSet(1..n) /\ Cardinality(1..n) = IF 1 > n THEN 0 ELSE n - 1 + 1
  BY FS_Interval
<1>3. IsFiniteSet(a) /\ IsFiniteSet(b)
  BY <1>1, <1>2, FS_Subset
<1>4. /\ IsFiniteSet(a \cup b)
      /\ Cardinality(a \cup b) = Cardinality(a) + Cardinality(b) - Cardinality(a \cap b)
  BY <1>3, FS_Union
<1>5. /\ IsFiniteSet((1..n) \ (a \cup b))
      /\ Cardinality((1..n) \ (a \cup b)) = Cardinality(1..n) - Cardinality((1..n) \cap (a \cup b))
  BY <1>2, FS_Difference
<1>6. Cardinality(a \cap b) = 0
  BY <1>1, FS_EmptySet
<1>7. Cardinality(a) \in Nat /\ Cardinality(b) \in Nat /\ Cardinality(c) \in Nat
  BY <1>1, <1>3, <1>5, FS_CardinalityType
<1>8. Cardinality(1..n) = n
  BY <1>2
<1>9. Cardinality(a \cup b) = Cardinality(a) + Cardinality(b)
  BY <1>4, <1>6, <1>7
<1>10. Cardinality(c) = n - Cardinality(a \cup b)
  BY <1>1, <1>5, <1>8
<1>11. Cardinality(a) + Cardinality(b) + Cardinality(c) = n
  BY <1>7, <1>9, <1>10
<1>. QED
  BY <1>7, <1>11 DEF a, b, c

-----------------------------------------------------------------------------
(***************************************************************************)
(* The books of the notifications: each taken is queued or has ended.      *)
(***************************************************************************)
Total(queue, s) == Len(queue) + s.consumed + s.discarded + s.expired
Account(queue, s, taken) ==
  /\ queue \in Seq(Operations) /\ Len(queue) <= Capacity /\ Distinct(queue)
  /\ s \in Statistics /\ taken = Total(queue, s)

\* The bounds of the queue and of the operations remembered.
LEMMA CapacityTyped == Capacity \in Nat /\ Recent \in Nat /\ Recent > 0
BY BoundsAssumption

\* A queue that is discarded is counted so.
LEMMA DiscardedAccount ==
  ASSUME NEW queue, NEW s, NEW n, Account(queue, s, n)
  PROVE  LET t == [s EXCEPT !.discarded = @ + Len(queue)]
         IN Account(<<>>, t, n) /\ t.consumed = s.consumed
<1> DEFINE t == [s EXCEPT !.discarded = @ + Len(queue)]
<1>1. Len(queue) \in Nat /\ s \in Statistics /\ n = Total(queue, s)
  BY DEF Account
<1>2. t \in Statistics /\ t.consumed = s.consumed /\ t.expired = s.expired
      /\ t.discarded = s.discarded + Len(queue)
  BY <1>1 DEF Statistics
<1>3. /\ s.consumed \in Nat /\ s.discarded \in Nat /\ s.expired \in Nat
  BY <1>1 DEF Statistics
<1> HIDE DEF t
<1>4. n = Total(<<>>, t)
  BY <1>1, <1>2, <1>3 DEF Total
<1>5. <<>> \in Seq(Operations) /\ Len(<<>>) <= Capacity /\ Distinct(<<>>)
  BY BoundsAssumption DEF Distinct
<1>. QED
  BY <1>2, <1>4, <1>5 DEF Account, t

\* What has become too old is counted as expired.
LEMMA AgedAccount ==
  ASSUME NEW q, IsPresenter(q), NEW n, Account(q.queue, q.stats, n), NEW ticks \in Nat
  PROVE  LET r == Aged(q, ticks)
         IN Account(r.queue, r.stats, n) /\ r.stats.consumed = q.stats.consumed
<1> DEFINE older == [i \in DOMAIN q.queue |-> [q.queue[i] EXCEPT !.age = @ + ticks]]
           places == {i \in DOMAIN older : older[i].age < MaxAge}
           left == Remaining(older, places)
           t == [q.stats EXCEPT !.expired = @ + Len(older) - Len(left)]
<1>1. Aged(q, ticks).queue = left /\ Aged(q, ticks).stats = t
  BY DEF Aged, IsPresenter, Fields
<1>2. /\ q.queue \in Seq(Operations) /\ Len(q.queue) \in Nat /\ Len(q.queue) <= Capacity
      /\ Distinct(q.queue) /\ q.stats \in Statistics /\ n = Total(q.queue, q.stats)
  BY DEF Account
<1>3. \A i \in 1..Len(q.queue) : older[i] \in Operations /\ older[i].id = q.queue[i].id
  <2>1. ASSUME NEW i \in 1..Len(q.queue)
        PROVE  older[i] \in Operations /\ older[i].id = q.queue[i].id
    <3>1. q.queue[i] \in Operations /\ i \in DOMAIN q.queue
      BY <1>2
    <3>2. older[i] = [q.queue[i] EXCEPT !.age = @ + ticks]
      BY <3>1
    <3> HIDE DEF older
    <3>. QED
      BY <3>1, <3>2 DEF Operations
  <2>. QED
    BY <2>1
<1>4. older \in Seq(Operations) /\ Len(older) = Len(q.queue) /\ DOMAIN older = DOMAIN q.queue
  <2>1. DOMAIN q.queue = 1..Len(q.queue)
    BY <1>2
  <2>2. older \in [1..Len(q.queue) -> Operations]
    BY <1>3, <2>1
  <2>. QED
    BY <1>2, <2>1, <2>2
<1>5. Distinct(older)
  BY <1>2, <1>3, <1>4 DEF Distinct
<1> HIDE DEF older
<1>6. places \in SUBSET (1..Len(older))
  BY <1>4
<1>7. left \in Seq(Operations) /\ Len(left) \in 0..Len(older) /\ Distinct(left)
  <2> HIDE DEF places
  <2>. QED
    BY <1>4, <1>5, <1>6, RemainingQueue
<1> HIDE DEF left
<1>8. /\ t \in Statistics /\ t.consumed = q.stats.consumed /\ t.discarded = q.stats.discarded
      /\ t.expired = q.stats.expired + Len(older) - Len(left)
  <2>1. Len(older) \in Nat /\ Len(left) \in Nat /\ Len(left) <= Len(older)
    BY <1>2, <1>4, <1>7
  <2>2. q.stats.expired \in Nat /\ q.stats.expired + Len(older) - Len(left) \in Nat
    BY <1>2, <2>1 DEF Statistics
  <2>. QED
    BY <1>2, <2>2 DEF Statistics
<1>9. q.stats.consumed \in Nat /\ q.stats.discarded \in Nat /\ q.stats.expired \in Nat
  BY <1>2 DEF Statistics
<1> HIDE DEF t
<1>10. /\ Len(left) \in Nat /\ Len(left) <= Len(q.queue)
       /\ t.expired = q.stats.expired + Len(q.queue) - Len(left)
  BY <1>2, <1>4, <1>7, <1>8
<1>11. n = Total(left, t)
  <2>1. n = Len(q.queue) + q.stats.consumed + q.stats.discarded + q.stats.expired
    BY <1>2 DEF Total
  <2>2. Total(left, t) = Len(left) + q.stats.consumed + q.stats.discarded + (q.stats.expired + Len(q.queue) - Len(left))
    BY <1>8, <1>10 DEF Total
  <2>3. Len(q.queue) \in Nat /\ Len(left) \in Nat
    BY <1>2, <1>10
  <2>4. \A a, b, c, d, e \in Nat : b + c + d + (e + a - b) = a + c + d + e
    OBVIOUS
  <2> DEFINE a == Len(q.queue)
             b == Len(left)
             c == q.stats.consumed
             d == q.stats.discarded
             e == q.stats.expired
  <2>5. a \in Nat /\ b \in Nat /\ c \in Nat /\ d \in Nat /\ e \in Nat
    BY <1>9, <2>3
  <2>6. n = a + c + d + e /\ Total(left, t) = b + c + d + (e + a - b)
    BY <2>1, <2>2
  <2> HIDE DEF a, b, c, d, e
  <2>. QED
    BY <2>4, <2>5, <2>6
<1>12. Len(left) <= Capacity
  BY <1>2, <1>10, CapacityTyped
<1>. QED
  BY <1>1, <1>7, <1>8, <1>11, <1>12 DEF Account

\* A trial counts what it confirms and what it gives up, and keeps the rest.
LEMMA TrialAccount ==
  ASSUME NEW q, NEW n, Account(q.queue, q.stats, n), NEW plan, NEW clear,
         NEW t \in Trials(q, plan, clear)
  PROVE  Account(t.queue, t.stats, n)
<1> DEFINE all == 1..Len(q.queue)
           With(fate, end) == {i \in all : fate[i] = end}
<1>1. PICK fate \in [all -> Fates] :
        t = [queue |-> Remaining(q.queue, With(fate, "stays")),
             stats |-> [q.stats EXCEPT !.consumed = @ + Cardinality(With(fate, "consumed")),
                                       !.discarded = @ + Cardinality(With(fate, "discarded"))]]
  <2>1. [all -> IF ~plan \/ clear THEN {"discarded"} ELSE {"stays", "consumed", "discarded"}]
          \subseteq [all -> Fates]
    BY DEF Fates
  <2>. QED
    BY <2>1 DEF Trials
<1> DEFINE stays == With(fate, "stays")
           consumed == With(fate, "consumed")
           rest == With(fate, "discarded")
           kept == Remaining(q.queue, stays)
<1>2. /\ q.queue \in Seq(Operations) /\ Len(q.queue) \in Nat /\ Len(q.queue) <= Capacity
      /\ Distinct(q.queue) /\ q.stats \in Statistics /\ n = Total(q.queue, q.stats)
  BY DEF Account
<1>3. kept \in Seq(Operations) /\ Len(kept) = Cardinality(stays) /\ Distinct(kept)
  <2>1. stays \in SUBSET (1..Len(q.queue))
    OBVIOUS
  <2> HIDE DEF stays
  <2>. QED
    BY <1>2, <2>1, RemainingQueue
<1>4. /\ Cardinality(stays) \in Nat /\ Cardinality(consumed) \in Nat /\ Cardinality(rest) \in Nat
      /\ Cardinality(stays) + Cardinality(consumed) + Cardinality(rest) = Len(q.queue)
  BY <1>1, <1>2, Parted
<1> HIDE DEF stays, consumed, rest, kept
<1>5. t.queue = kept /\ t.stats = [q.stats EXCEPT !.consumed = @ + Cardinality(consumed),
                                                  !.discarded = @ + Cardinality(rest)]
  BY <1>1 DEF kept, stays, consumed, rest
<1>6. q.stats.consumed \in Nat /\ q.stats.discarded \in Nat /\ q.stats.expired \in Nat
  BY <1>2 DEF Statistics
<1>7. /\ t.stats \in Statistics /\ t.stats.consumed = q.stats.consumed + Cardinality(consumed)
      /\ t.stats.discarded = q.stats.discarded + Cardinality(rest)
      /\ t.stats.expired = q.stats.expired
  <2>1. q.stats.consumed + Cardinality(consumed) \in Nat /\ q.stats.discarded + Cardinality(rest) \in Nat
    BY <1>4, <1>6
  <2>. QED
    BY <1>2, <1>5, <2>1 DEF Statistics
<1>8. Len(t.queue) = Cardinality(stays) /\ Len(t.queue) <= Len(q.queue)
  BY <1>2, <1>3, <1>4, <1>5
<1>9. n = Total(t.queue, t.stats)
  <2>1. n = Len(q.queue) + q.stats.consumed + q.stats.discarded + q.stats.expired
    BY <1>2 DEF Total
  <2>2. Total(t.queue, t.stats) = Cardinality(stays) + (q.stats.consumed + Cardinality(consumed))
                                    + (q.stats.discarded + Cardinality(rest)) + q.stats.expired
    BY <1>7, <1>8 DEF Total
  <2>. QED
    BY <1>4, <1>6, <2>1, <2>2
<1>10. Len(t.queue) <= Capacity
  BY <1>2, <1>3, <1>5, <1>8, CapacityTyped
<1>. QED
  BY <1>3, <1>5, <1>7, <1>9, <1>10 DEF Account

\* A cancelled operation is counted as discarded, and one that is not queued not.
LEMMA WithoutAccount ==
  ASSUME NEW q, IsPresenter(q), NEW n, Account(q.queue, q.stats, n), NEW id
  PROVE  LET r == Without(q, id)
         IN Account(r.queue, r.stats, n) /\ r.stats.consumed = q.stats.consumed
<1> DEFINE places == {i \in DOMAIN q.queue : q.queue[i].id # id}
           left == Remaining(q.queue, places)
           t == [q.stats EXCEPT !.discarded = @ + 1]
<1>1. CASE id \notin Queued(q)
  BY <1>1 DEF Without
<1>2. CASE id \in Queued(q)
  <2>1. Without(q, id).queue = left /\ Without(q, id).stats = t
    BY <1>2 DEF Without, IsPresenter, Fields
  <2>2. /\ q.queue \in Seq(Operations) /\ Len(q.queue) \in Nat /\ Len(q.queue) <= Capacity
        /\ Distinct(q.queue) /\ q.stats \in Statistics /\ n = Total(q.queue, q.stats)
        /\ DOMAIN q.queue = 1..Len(q.queue)
    BY DEF Account
  <2>3. PICK k \in 1..Len(q.queue) : q.queue[k].id = id
    BY <1>2, <2>2 DEF Queued
  <2>4. places = (1..Len(q.queue)) \ {k}
    BY <2>2, <2>3 DEF Distinct
  <2> HIDE DEF places
  <2>5. Cardinality(places) = Len(q.queue) - 1
    <3>1. /\ IsFiniteSet(1..Len(q.queue))
          /\ Cardinality(1..Len(q.queue)) = IF 1 > Len(q.queue) THEN 0 ELSE Len(q.queue) - 1 + 1
      BY <2>2, FS_Interval
    <3>2. Cardinality(1..Len(q.queue)) = Len(q.queue)
      BY <2>2, <3>1
    <3>3. Cardinality((1..Len(q.queue)) \ {k}) = Cardinality(1..Len(q.queue)) - 1
      BY <2>3, <3>1, FS_RemoveElement
    <3>. QED
      BY <2>4, <3>2, <3>3
  <2>6. left \in Seq(Operations) /\ Len(left) = Cardinality(places) /\ Distinct(left)
    BY <2>2, <2>4, RemainingQueue
  <2> HIDE DEF left
  <2>7. q.stats.consumed \in Nat /\ q.stats.discarded \in Nat /\ q.stats.expired \in Nat
    BY <2>2 DEF Statistics
  <2>8. /\ t \in Statistics /\ t.consumed = q.stats.consumed
        /\ t.discarded = q.stats.discarded + 1 /\ t.expired = q.stats.expired
    BY <2>2, <2>7 DEF Statistics
  <2> HIDE DEF t
  <2>9. Len(left) = Len(q.queue) - 1
    BY <2>5, <2>6
  <2>10. n = Total(left, t)
    <3>1. n = Len(q.queue) + q.stats.consumed + q.stats.discarded + q.stats.expired
      BY <2>2 DEF Total
    <3>2. Total(left, t) = Len(q.queue) - 1 + q.stats.consumed + (q.stats.discarded + 1) + q.stats.expired
      BY <2>8, <2>9 DEF Total
    <3>3. Len(q.queue) \in Nat
      BY <2>2
    <3>4. \A a, b, c, d \in Nat : a - 1 + b + (c + 1) + d = a + b + c + d
      OBVIOUS
    <3> DEFINE a == Len(q.queue)
               b == q.stats.consumed
               c == q.stats.discarded
               d == q.stats.expired
    <3>5. a \in Nat /\ b \in Nat /\ c \in Nat /\ d \in Nat
      BY <2>7, <3>3
    <3>6. n = a + b + c + d /\ Total(left, t) = a - 1 + b + (c + 1) + d
      BY <3>1, <3>2
    <3> HIDE DEF a, b, c, d
    <3>. QED
      BY <3>4, <3>5, <3>6
  <2>11. Len(left) <= Capacity
    BY <2>2, <2>9, CapacityTyped
  <2>. QED
    BY <2>1, <2>6, <2>8, <2>10, <2>11 DEF Account
<1>. QED
  BY <1>1, <1>2

\* One that is taken is queued last.
LEMMA TakenAccount ==
  ASSUME NEW queue, NEW s, NEW n \in Nat, Account(queue, s, n), Len(queue) < Capacity,
         NEW id \in Ids, \A i \in DOMAIN queue : queue[i].id # id
  PROVE  Account(Append(queue, [id |-> id, age |-> 0]), s, n + 1)
<1> DEFINE operation == [id |-> id, age |-> 0]
           r == Append(queue, operation)
<1>1. /\ queue \in Seq(Operations) /\ Len(queue) \in Nat /\ Distinct(queue)
      /\ s \in Statistics /\ n = Total(queue, s) /\ DOMAIN queue = 1..Len(queue)
  BY DEF Account
<1>2. operation \in Operations /\ operation.id = id
  BY DEF Operations
<1> HIDE DEF operation
<1>3. /\ r \in Seq(Operations) /\ Len(r) = Len(queue) + 1
      /\ \A i \in 1..Len(r) : r[i] = IF i <= Len(queue) THEN queue[i] ELSE operation
      /\ DOMAIN r = 1..Len(r)
  BY <1>1, <1>2
<1> HIDE DEF r
<1>4. Distinct(r)
  <2> SUFFICES ASSUME NEW i \in 1..Len(r), NEW j \in 1..Len(r), r[i].id = r[j].id PROVE i = j
    BY <1>3 DEF Distinct
  <2>1. CASE i \in 1..Len(queue) /\ j \in 1..Len(queue)
    <3>1. r[i] = queue[i] /\ r[j] = queue[j]
      BY <1>1, <1>3, <2>1
    <3>. QED
      BY <1>1, <2>1, <3>1 DEF Distinct
  <2>2. CASE i \notin 1..Len(queue) /\ j \notin 1..Len(queue)
    BY <1>1, <1>3, <2>2
  <2>3. ASSUME NEW k \in 1..Len(r), NEW m \in 1..Len(r), k \in 1..Len(queue), m \notin 1..Len(queue)
        PROVE  r[k].id # r[m].id
    <3>1. r[k] = queue[k] /\ r[m] = operation
      BY <1>1, <1>3, <2>3
    <3>2. k \in DOMAIN queue
      BY <1>1, <2>3
    <3>. QED
      BY <1>2, <3>1, <3>2
  <2>. QED
    BY <2>1, <2>2, <2>3
<1>5. s.consumed \in Nat /\ s.discarded \in Nat /\ s.expired \in Nat
  BY <1>1 DEF Statistics
<1>6. n + 1 = Total(r, s)
  <2>1. n = Len(queue) + s.consumed + s.discarded + s.expired
    BY <1>1 DEF Total
  <2>2. Total(r, s) = Len(queue) + 1 + s.consumed + s.discarded + s.expired
    BY <1>3 DEF Total
  <2>3. Len(queue) \in Nat
    BY <1>1
  <2>. QED
    BY <1>5, <2>1, <2>2, <2>3
<1>7. Len(r) <= Capacity
  BY <1>1, <1>3, CapacityTyped
<1>. QED
  BY <1>1, <1>3, <1>4, <1>6, <1>7 DEF Account, r, operation

\* One that does not fit is discarded at once, with the queue.
LEMMA DropsAccount ==
  ASSUME NEW q, IsPresenter(q), NEW n \in Nat, Account(q.queue, q.stats, n)
  PROVE  LET r == Drops(q)
         IN Account(r.queue, r.stats, n + 1) /\ r.stats.consumed = q.stats.consumed
<1> DEFINE d == Discarded(q)
           s == [q.stats EXCEPT !.discarded = @ + Len(q.queue)]
           t == [s EXCEPT !.discarded = @ + 1]
<1>1. IsPresenter(d) /\ d.queue = <<>> /\ d.stats = s
  BY DEF Discarded, IsPresenter, Fields
<1>2. Account(<<>>, s, n) /\ s.consumed = q.stats.consumed
  BY DiscardedAccount
<1> HIDE DEF d, s
<1>3. Drops(q) = [d EXCEPT !.stats.discarded = @ + 1]
  BY DEF Drops, d
<1>4. Drops(q).queue = <<>> /\ Drops(q).stats = t
  BY <1>1, <1>3 DEF IsPresenter, Fields
<1>5. s \in Statistics /\ n = Total(<<>>, s)
  BY <1>2 DEF Account
<1>6. s.consumed \in Nat /\ s.discarded \in Nat /\ s.expired \in Nat
  BY <1>5 DEF Statistics
<1>7. /\ t \in Statistics /\ t.consumed = s.consumed /\ t.discarded = s.discarded + 1
      /\ t.expired = s.expired
  BY <1>5, <1>6 DEF Statistics
<1> HIDE DEF t
<1>8. n + 1 = Total(<<>>, t)
  BY <1>5, <1>6, <1>7 DEF Total
<1>. QED
  BY <1>2, <1>4, <1>7, <1>8 DEF Account

\* The operations remembered are the last few.
LEMMA RememberRecent ==
  ASSUME NEW q, IsPresenter(q), q.recent \in Seq(Ids), Len(q.recent) <= Recent, NEW id \in Ids
  PROVE  LET r == Remember(q, id)
         IN /\ Differs(q, r, {"recent"}) /\ r.recent \in Seq(Ids) /\ Len(r.recent) <= Recent
<1> DEFINE recent == IF Len(q.recent) < Recent THEN Append(q.recent, id) ELSE Append(Tail(q.recent), id)
           r == [q EXCEPT !.recent = recent]
<1>1. recent \in Seq(Ids) /\ Len(recent) <= Recent
  <2>1. Len(q.recent) \in Nat
    OBVIOUS
  <2>2. CASE Len(q.recent) < Recent
    <3>1. Append(q.recent, id) \in Seq(Ids) /\ Len(Append(q.recent, id)) = Len(q.recent) + 1
      OBVIOUS
    <3>. QED
      BY <2>1, <2>2, <3>1, CapacityTyped
  <2>3. CASE ~(Len(q.recent) < Recent)
    <3>1. q.recent # <<>> /\ Len(q.recent) = Recent
      BY <2>1, <2>3, CapacityTyped
    <3>2. Tail(q.recent) \in Seq(Ids) /\ Len(Tail(q.recent)) = Len(q.recent) - 1
      BY <3>1
    <3>3. /\ Append(Tail(q.recent), id) \in Seq(Ids)
          /\ Len(Append(Tail(q.recent), id)) = Len(q.recent) - 1 + 1
      BY <3>2
    <3>. QED
      BY <2>1, <2>3, <3>1, <3>3, CapacityTyped
  <2>. QED
    BY <2>2, <2>3
<1>2. Remember(q, id) = r
  BY DEF Remember
<1> HIDE DEF recent
<1>3. Differs(q, r, {"recent"}) /\ r.recent = recent
  BY DEF IsPresenter, Differs, Fields
<1>. QED
  BY <1>1, <1>2, <1>3

-----------------------------------------------------------------------------
(***************************************************************************)
(* The books are balanced in the presenter, and in what waits for a commit.*)
(***************************************************************************)
Books(q, n) ==
  /\ n \in Nat /\ Account(q.queue, q.stats, n)
  /\ q.recent \in Seq(Ids) /\ Len(q.recent) <= Recent
  /\ q.next.stats \in Statistics
  /\ q.output_pending => Account(q.next.queue, q.next.stats, n)
Bookkeeping == {"queue", "stats", "recent", "output_pending", "next"}

\* Whatever else is changed, they stay.
LEMMA SameBooks ==
  ASSUME NEW q, NEW r, NEW n, Books(q, n), \A x \in Bookkeeping : r[x] = q[x]
  PROVE  Books(r, n) /\ r.stats = q.stats
<1>1. /\ r.queue = q.queue /\ r.stats = q.stats /\ r.recent = q.recent
      /\ r.output_pending = q.output_pending /\ r.next = q.next
  BY DEF Bookkeeping
<1>. QED
  BY <1>1 DEF Books

\* With another queue and other statistics, they stay if these agree.
LEMMA NewBooks ==
  ASSUME NEW q, NEW r, NEW n, NEW m \in Nat, Books(q, n), Account(r.queue, r.stats, m),
         r.recent = q.recent, r.output_pending = q.output_pending, r.next = q.next,
         ~q.output_pending \/ m = n
  PROVE  Books(r, m)
BY DEF Books

\* The terminal is observed: the queue is kept or discarded.
LEMMA ObservedBooks ==
  ASSUME NEW q, IsPresenter(q), NEW n, Books(q, n)
  PROVE  Books(Observed(q), n) /\ Observed(q).stats.consumed = q.stats.consumed
<1> DEFINE r == Observed(q)
<1>1. \/ r = q \/ Differs(q, r, Sighted \cup {"error"})
      \/ /\ Differs(q, r, FellBack) /\ r.queue = <<>>
         /\ r.stats = [q.stats EXCEPT !.discarded = @ + Len(q.queue)]
  <2>1. Differs(q, r, Sighted) => Differs(q, r, Sighted \cup {"error"})
    BY DEF Differs
  <2>. QED
    BY <2>1, ObservedFields
<1> HIDE DEF r
<1>2. CASE r = q
  BY <1>2 DEF r
<1>3. CASE Differs(q, r, Sighted \cup {"error"})
  <2>1. \A x \in Bookkeeping : r[x] = q[x]
    BY <1>3 DEF Differs, Sighted, Bookkeeping, Fields
  <2>. QED
    BY <2>1, SameBooks DEF r
<1>4. CASE /\ Differs(q, r, FellBack) /\ r.queue = <<>>
           /\ r.stats = [q.stats EXCEPT !.discarded = @ + Len(q.queue)]
  <2>1. r.recent = q.recent /\ r.output_pending = q.output_pending /\ r.next = q.next
    BY <1>4 DEF Differs, FellBack, Sighted, Fields
  <2>2. Account(r.queue, r.stats, n) /\ r.stats.consumed = q.stats.consumed /\ n \in Nat
    <3> DEFINE t == [q.stats EXCEPT !.discarded = @ + Len(q.queue)]
    <3>1. Account(<<>>, t, n) /\ t.consumed = q.stats.consumed /\ n \in Nat
      BY DiscardedAccount DEF Books
    <3> HIDE DEF t
    <3>2. r.queue = <<>> /\ r.stats = t
      BY <1>4 DEF t
    <3>. QED
      BY <3>1, <3>2
  <2>. QED
    BY <2>1, <2>2, NewBooks DEF r
<1>. QED
  BY <1>1, <1>2, <1>3, <1>4

\* A frame is seen: the queue is aged.
LEMMA SeenBooks ==
  ASSUME NEW q, IsPresenter(q), NEW n, Books(q, n), NEW f \in FrameTypes
  PROVE  LET r == Seen(q, f)
         IN Books(r, n) /\ r.stats.consumed = q.stats.consumed
<1> DEFINE r == Seen(q, f)
<1>1. /\ Differs(q, r, Seeing) /\ r.queue = Aged(q, f.ticks).queue
      /\ r.stats = Aged(q, f.ticks).stats
  BY SeenFields
<1> HIDE DEF r
<1>2. r.recent = q.recent /\ r.output_pending = q.output_pending /\ r.next = q.next
  BY <1>1 DEF Differs, Seeing, Fields
<1>3. f.ticks \in Nat
  BY BoundsAssumption DEF FrameTypes
<1>4. Account(r.queue, r.stats, n) /\ r.stats.consumed = q.stats.consumed /\ n \in Nat
  BY <1>1, <1>3, AgedAccount DEF Books
<1>. QED
  BY <1>2, <1>4, NewBooks DEF r

\* A frame begins an output with a trial, or leaves the one in hand as it was.
Begets(q) == /\ p'.output_pending = TRUE /\ p'.error = q.error /\ p'.next.total \in 0..MaxUnits
             /\ wire' = [total |-> p'.next.total, delivered |-> 0, ended |-> "none", epoch |-> epoch]
             /\ \E plan, clear : \E t \in Trials(q, plan, clear) :
                  p'.next.queue = t.queue /\ p'.next.stats = t.stats
LeavesOutput(q) == p'.output_pending = q.output_pending /\ p'.next = q.next /\ UNCHANGED wire

\* A judged frame does either.
LEMMA JudgesOutput ==
  ASSUME Typed(p), NEW f \in FrameTypes, Judges(f)
  PROVE  Begets(Seen(Observed(p), f)) \/ LeavesOutput(Seen(Observed(p), f))
<1> DEFINE q == Seen(Observed(p), f)
           w == [q EXCEPT !.pending = TRUE, !.pending_ticks = PendingFor(q, f)]
<1>1. IsPresenter(q)
  BY DEF Judges
<1> HIDE DEF q
<1>2. ASSUME NEW r, Differs(q, r, {"recovery", "pending", "pending_ticks"}), NEW fullscreen,
             Answered(r, f) \/ Begun(r, f, fullscreen)
      PROVE  Begets(q) \/ LeavesOutput(q)
  <2>1. /\ r.queue = q.queue /\ r.stats = q.stats /\ r.output_pending = q.output_pending
        /\ r.next = q.next /\ r.error = q.error
    BY <1>2 DEF Differs, Fields
  <2>2. CASE Answered(r, f)
    BY <2>1, <2>2 DEF Answered, Differs, Fields, LeavesOutput
  <2>3. CASE Begun(r, f, fullscreen)
    <3>1. PICK plan, clear : \E t \in Trials(r, plan, clear) :
             p'.next.queue = t.queue /\ p'.next.stats = t.stats
      BY <2>3 DEF Begun
    <3>2. Trials(r, plan, clear) = Trials(q, plan, clear)
      BY <2>1, Zenon DEF Trials
    <3>3. \E t \in Trials(q, plan, clear) : p'.next.queue = t.queue /\ p'.next.stats = t.stats
      BY <3>1, <3>2, Zenon
    <3>4. p'.error = q.error
      BY <2>1, <2>3 DEF Begun, Differs, Starting, Fields
    <3>. QED
      BY <2>3, <3>3, <3>4 DEF Begun, Begets
  <2>. QED
    BY <1>2, <2>2, <2>3
<1>3. Differs(q, q, {"recovery", "pending", "pending_ticks"})
  BY <1>1 DEF Differs
<1>4. CASE JudgesFullscreen(q, f)
  <2>1. PICK recovery : LET r == [q EXCEPT !.recovery = recovery] IN Answered(r, f) \/ Begun(r, f, TRUE)
    BY <1>4 DEF JudgesFullscreen
  <2> DEFINE r == [q EXCEPT !.recovery = recovery]
  <2>2. Differs(q, r, {"recovery", "pending", "pending_ticks"})
    BY <1>1 DEF IsPresenter, Differs, Fields
  <2> HIDE DEF r
  <2>3. Answered(r, f) \/ Begun(r, f, TRUE)
    BY <2>1 DEF r
  <2>. QED
    BY <1>2, <2>2, <2>3 DEF q
<1>5. CASE JudgesGlass(q, f)
  <2>1. \/ Begun(q, f, FALSE) \/ Answered(w, f) \/ Begun(w, f, TRUE)
        \/ p' = w /\ UNCHANGED wire
    BY <1>5 DEF JudgesGlass, PendingFor
  <2>2. Differs(q, w, {"pending", "pending_ticks"})
    BY <1>1, WaitingFields
  <2> HIDE DEF w
  <2>3. /\ Differs(q, w, {"recovery", "pending", "pending_ticks"})
        /\ w.output_pending = q.output_pending /\ w.next = q.next
    BY <2>2 DEF Differs, Fields
  <2>. QED
    BY <1>2, <1>3, <2>1, <2>3 DEF q, LeavesOutput
<1>6. CASE p' = q /\ UNCHANGED wire
  BY <1>6 DEF q, LeavesOutput
<1>. QED
  BY <1>4, <1>5, <1>6 DEF Judges, q

\* A frame is judged: an output that begins takes a trial with it.
LEMMA JudgesBooks ==
  ASSUME Typed(p), Durations(hist), NEW f \in FrameTypes, Judges(f), Books(p, hist.taken)
  PROVE  Books(p', hist'.taken) /\ p'.stats.consumed = p.stats.consumed
<1> DEFINE o == Observed(p)
           q == Seen(o, f)
<1>1. IsPresenter(p) /\ IsPresenter(o)
  BY ObservedOutput DEF Typed, SameOutput
<1>2. Books(o, hist.taken) /\ o.stats.consumed = p.stats.consumed
  BY <1>1, ObservedBooks
<1> HIDE DEF o
<1>3. Books(q, hist.taken) /\ q.stats.consumed = p.stats.consumed
  BY <1>1, <1>2, SeenBooks
<1>4. Differs(q, p', Unwatched \cup Starting) /\ hist'.taken = hist.taken
  BY JudgesFields, JudgesHistory DEF o
<1>5. p'.queue = q.queue /\ p'.stats = q.stats /\ p'.recent = q.recent
  BY <1>4 DEF Differs, Unwatched, Starting, Fields
<1>6. Begets(q) \/ LeavesOutput(q)
  BY <1>1, JudgesOutput DEF o
<1> HIDE DEF q
<1>7. CASE LeavesOutput(q)
  BY <1>3, <1>4, <1>5, <1>7 DEF Books, LeavesOutput
<1>8. ASSUME NEW plan, NEW clear, NEW t \in Trials(q, plan, clear),
             p'.next.queue = t.queue, p'.next.stats = t.stats
      PROVE  Books(p', hist'.taken) /\ p'.stats.consumed = p.stats.consumed
  <2>1. Account(t.queue, t.stats, hist.taken)
    BY <1>3, TrialAccount DEF Books
  <2>. QED
    BY <1>3, <1>4, <1>5, <1>8, <2>1 DEF Books, Account
<1>. QED
  BY <1>6, <1>7, <1>8 DEF Begets

\* The calls that leave the books alone, but for what they observe.
Modest == {"error", "cursor_known", "echo", "echo_failed", "written"}
LeavesBooks == \E q \in {p, Observed(p)} : Differs(q, p', Modest) /\ hist'.taken = hist.taken

\* A call that returns with nothing else changed.
LEMMA ReturnLeavesBooks ==
  ASSUME IsPast(hist), NEW q \in {p, Observed(p)}, NEW r, Differs(q, r, Modest), NEW e, Returns(r, e)
  PROVE  LeavesBooks
<1>1. p' = r /\ hist' = Told(hist, r)
  BY DEF Returns
<1>2. hist'.taken = hist.taken
  BY <1>1, ToldFields DEF Marks
<1>. QED
  BY <1>1, <1>2 DEF LeavesBooks

\* The calls of the terminal, the cursor and the local echo.
LEMMA CallLeavesBooks ==
  ASSUME IsPresenter(p), IsPast(hist),
         Gate \/ Resume \/ Write \/ ObserveCursor \/ ForgetCursor \/ LocalEcho
  PROVE  LeavesBooks
<1> DEFINE o == Observed(p)
<1>0. IsPresenter(o) /\ Differs(p, p, Modest) /\ Differs(o, o, Modest)
  BY ObservedOutput DEF SameOutput, Differs
<1> HIDE DEF o
<1>1. ASSUME NEW q \in {p, o}, NEW e PROVE Differs(q, [q EXCEPT !.error = e], Modest)
  BY <1>0 DEF IsPresenter, Differs, Modest, Fields
<1>2. \/ \E q \in {p, o} : \E r, e : Differs(q, r, Modest) /\ Returns(r, e)
      \/ p' = o /\ hist' = Told(hist, o)
      \/ \E n : p' = [p EXCEPT !.written = n]
                /\ hist' = [hist EXCEPT !.dirty = hist.dirty \/ p.next.fullscreen]
  <2>1. CASE Gate
    BY <1>0, <1>1, <2>1 DEF Gate, Rechecked, Fails, o
  <2>2. CASE Resume
    BY <1>0, <2>2 DEF Resume, o
  <2>3. CASE Write
    BY <1>0, <1>1, <2>3 DEF Write, Wrote, Fails
  <2>4. CASE ObserveCursor \/ ForgetCursor \/ LocalEcho
    <3>1. \/ \E e : Returns(p, e) \/ Returns(o, e)
          \/ \E e : \/ Returns([o EXCEPT !.cursor_known = TRUE], e)
                    \/ Returns([p EXCEPT !.cursor_known = FALSE], e)
                    \/ Returns([p EXCEPT !.echo = TRUE, !.cursor_known = FALSE], e)
                    \/ Returns([p EXCEPT !.echo_failed = TRUE, !.cursor_known = FALSE], e)
      BY <2>4 DEF ObserveCursor, ForgetCursor, LocalEcho, Busy, Call, o
    <3>2. /\ Differs(o, [o EXCEPT !.cursor_known = TRUE], Modest)
          /\ Differs(p, [p EXCEPT !.cursor_known = FALSE], Modest)
          /\ Differs(p, [p EXCEPT !.echo = TRUE, !.cursor_known = FALSE], Modest)
          /\ Differs(p, [p EXCEPT !.echo_failed = TRUE, !.cursor_known = FALSE], Modest)
      BY <1>0 DEF IsPresenter, Differs, Modest, Fields
    <3>. QED
      BY <1>0, <3>1, <3>2
  <2>. QED
    BY <2>1, <2>2, <2>3, <2>4
<1>3. CASE \E q \in {p, o} : \E r, e : Differs(q, r, Modest) /\ Returns(r, e)
  BY <1>3, ReturnLeavesBooks DEF o
<1>4. CASE p' = o /\ hist' = Told(hist, o)
  <2>1. hist'.taken = hist.taken
    BY <1>4, ToldFields DEF Marks
  <2>. QED
    BY <1>0, <1>4, <2>1 DEF LeavesBooks, o
<1>5. ASSUME NEW n, p' = [p EXCEPT !.written = n],
             hist' = [hist EXCEPT !.dirty = hist.dirty \/ p.next.fullscreen]
      PROVE  LeavesBooks
  <2>1. Differs(p, p', Modest)
    BY <1>5 DEF IsPresenter, Differs, Modest, Fields
  <2>2. hist'.taken = hist.taken
    BY <1>5 DEF IsPast, Marks
  <2>. QED
    BY <2>1, <2>2 DEF LeavesBooks
<1>. QED
  BY <1>2, <1>3, <1>4, <1>5

\* The books stay balanced over such a call.
LEMMA LeavesBooksStep ==
  ASSUME IsPresenter(p), Books(p, hist.taken), LeavesBooks
  PROVE  Books(p', hist'.taken) /\ p'.stats.consumed = p.stats.consumed
<1>1. PICK q \in {p, Observed(p)} : Differs(q, p', Modest) /\ hist'.taken = hist.taken
  BY DEF LeavesBooks
<1>2. Books(q, hist.taken) /\ q.stats.consumed = p.stats.consumed
  BY ObservedBooks
<1>3. \A x \in Bookkeeping : p'[x] = q[x]
  BY <1>1 DEF Differs, Modest, Bookkeeping, Fields
<1>. QED
  BY <1>1, <1>2, <1>3, SameBooks

\* A notification is taken into the books, or leaves them alone.
LEMMA NotifyBooks ==
  ASSUME IsPresenter(p), IsPast(hist), Books(p, hist.taken), NEW id \in Ids, Notify(id)
  PROVE  Books(p', hist'.taken) /\ p'.stats.consumed = p.stats.consumed
<1>0. hist.taken \in Nat
  BY DEF Books
<1>1. ASSUME NEW e, Returns(p, e) PROVE Books(p', hist'.taken) /\ p'.stats.consumed = p.stats.consumed
  BY <1>1, ReturnLeavesBooks, LeavesBooksStep DEF Differs
<1>2. ASSUME Counting, Quiet PROVE hist'.taken = hist.taken + 1 /\ ~p.output_pending
  BY <1>2 DEF Counting, Quiet, IsPast, Marks
<1>3. CASE Quiet /\ Counting /\ p' = Drops(p)
  <2>1. Account(p'.queue, p'.stats, hist.taken + 1) /\ p'.stats.consumed = p.stats.consumed
    BY <1>0, <1>3, DropsAccount DEF Books
  <2>2. \A x \in {"recent", "output_pending", "next"} : Drops(p)[x] = p[x]
    <3> DEFINE d == Discarded(p)
    <3>1. IsPresenter(d) /\ \A x \in {"recent", "output_pending", "next"} : d[x] = p[x]
      BY DEF Discarded, IsPresenter, Fields
    <3>2. Drops(p) = [d EXCEPT !.stats.discarded = @ + 1]
      BY DEF Drops
    <3> HIDE DEF d
    <3>. QED
      BY <3>1, <3>2 DEF IsPresenter, Fields
  <2>3. p'.recent = p.recent /\ p'.output_pending = p.output_pending /\ p'.next = p.next
    BY <1>3, <2>2
  <2>. QED
    BY <1>0, <1>2, <1>3, <2>1, <2>3, NewBooks
<1>4. CASE /\ Quiet /\ Counting /\ ~Known(p, id) /\ Len(p.queue) < Capacity
           /\ p' = Remember([p EXCEPT !.queue = Append(@, [id |-> id, age |-> 0])], id)
  <2> DEFINE queue == Append(p.queue, [id |-> id, age |-> 0])
             q == [p EXCEPT !.queue = queue]
  <2>1. Differs(p, q, {"queue"}) /\ q.queue = queue
    BY DEF IsPresenter, Differs, Fields
  <2>2. \A i \in DOMAIN p.queue : p.queue[i].id # id
    BY <1>4 DEF Known, Queued
  <2>3. Account(queue, p.stats, hist.taken + 1)
    BY <1>0, <1>4, <2>2, TakenAccount DEF Books
  <2> HIDE DEF queue
  <2>4. /\ q.recent = p.recent /\ q.stats = p.stats /\ q.output_pending = p.output_pending
        /\ q.next = p.next /\ IsPresenter(q)
    <3> HIDE DEF q
    <3>. QED
      BY <2>1 DEF Differs, Fields
  <2>5. p' = Remember(q, id)
    BY <1>4 DEF queue
  <2> HIDE DEF q
  <2>6. Differs(q, p', {"recent"}) /\ p'.recent \in Seq(Ids) /\ Len(p'.recent) <= Recent
    BY <2>4, <2>5, RememberRecent DEF Books
  <2>7. /\ p'.queue = queue /\ p'.stats = p.stats /\ p'.output_pending = p.output_pending
        /\ p'.next = p.next
    BY <2>1, <2>4, <2>6 DEF Differs, Fields
  <2>. QED
    BY <1>0, <1>2, <1>4, <2>3, <2>6, <2>7 DEF Books
<1>. QED
  BY <1>1, <1>3, <1>4 DEF Notify, Busy, Call

\* A cancellation takes an operation off the queue, and is remembered.
LEMMA CancelBooks ==
  ASSUME IsPresenter(p), IsPast(hist), Books(p, hist.taken), NEW id \in Ids, Cancel(id)
  PROVE  Books(p', hist'.taken) /\ p'.stats.consumed = p.stats.consumed
<1>0. hist.taken \in Nat
  BY DEF Books
<1> DEFINE q == Without(p, id)
<1>1. Books(q, hist.taken) /\ q.stats.consumed = p.stats.consumed /\ IsPresenter(q)
  <2>1. Differs(p, q, {"queue", "stats"})
    BY DEF Without, IsPresenter, Differs, Fields
  <2>2. Account(q.queue, q.stats, hist.taken) /\ q.stats.consumed = p.stats.consumed
    BY WithoutAccount DEF Books
  <2> HIDE DEF q
  <2>3. q.recent = p.recent /\ q.output_pending = p.output_pending /\ q.next = p.next
    BY <2>1 DEF Differs, Fields
  <2>. QED
    BY <1>0, <2>1, <2>2, <2>3, NewBooks DEF Differs
<1>2. \/ \E e : Returns(p, e)
      \/ \E e : Returns(q, e) \/ Returns(Remember(q, id), e)
  BY DEF Cancel, Busy, Call
<1> HIDE DEF q
<1>3. ASSUME NEW r, NEW e, Returns(r, e) PROVE p' = r /\ hist'.taken = hist.taken
  <2>1. p' = r /\ hist' = Told(hist, r)
    BY <1>3 DEF Returns
  <2>. QED
    BY <2>1, ToldFields DEF Marks
<1>4. LET r == Remember(q, id) IN Books(r, hist.taken) /\ r.stats.consumed = q.stats.consumed
  <2> DEFINE r == Remember(q, id)
  <2>1. Differs(q, r, {"recent"}) /\ r.recent \in Seq(Ids) /\ Len(r.recent) <= Recent
    BY <1>1, RememberRecent DEF Books
  <2> HIDE DEF r
  <2>2. /\ r.queue = q.queue /\ r.stats = q.stats /\ r.output_pending = q.output_pending
        /\ r.next = q.next
    BY <2>1 DEF Differs, Fields
  <2>. QED
    BY <1>1, <2>1, <2>2 DEF Books, r
<1>. QED
  BY <1>1, <1>2, <1>3, <1>4

\* A commit closes the books of its trial.
LEMMA CommitBooks ==
  ASSUME Books(p, hist.taken), CommitsOutput
  PROVE  Books(p', hist'.taken)
<1>1. /\ p.output_pending /\ p'.output_pending = FALSE /\ p'.queue = p.next.queue
      /\ p'.stats = p.next.stats /\ p'.next = NoNext /\ hist'.taken = hist.taken
      /\ Differs(p, p', Committed)
  BY DEF CommitsOutput
<1>2. p'.recent = p.recent
  BY <1>1 DEF Differs, Committed, Fields
<1>3. NoNext.stats \in Statistics
  BY DEF NoNext, NoStats, Statistics
<1>. QED
  BY <1>1, <1>2, <1>3 DEF Books

\* Nothing is queued at first.
LEMMA NoStatsAccount == Account(<<>>, NoStats, 0)
BY CapacityTyped DEF Account, NoStats, Statistics, Total, Distinct

\* A new presenter has new books, or those of the last with the queue discarded.
LEMMA AnewBooks ==
  ASSUME NEW s, NEW n \in Nat, Account(<<>>, s, n), NEW q, q = [Fresh EXCEPT !.stats = s]
  PROVE  Books(q, n) /\ q.stats = s
<1>1. /\ q.queue = <<>> /\ q.stats = s /\ q.recent = <<>> /\ q.output_pending = FALSE
      /\ q.next = NoNext
  BY DEF Fresh
<1>2. NoNext.stats \in Statistics /\ <<>> \in Seq(Ids) /\ Len(<<>>) <= Recent
  BY CapacityTyped DEF NoNext, NoStats, Statistics
<1>. QED
  BY <1>1, <1>2 DEF Books

\* Renewed, with nothing consumed but by a new presenter.
LEMMA RenewsBooks ==
  ASSUME Books(p, hist.taken), Renews
  PROVE  Books(p', hist'.taken) /\ (p' = Fresh \/ p'.stats.consumed = p.stats.consumed)
<1>1. PICK s, taken :
        /\ p' = [Fresh EXCEPT !.stats = s] /\ hist' = [Past EXCEPT !.taken = taken]
        /\ \/ s = NoStats /\ taken = 0
           \/ s = [p.stats EXCEPT !.discarded = @ + Len(p.queue)] /\ taken = hist.taken
  BY DEF Renews
<1>2. hist'.taken = taken
  BY <1>1 DEF Past
<1>3. CASE s = NoStats /\ taken = 0
  <2>1. p' = Fresh
    BY <1>1, <1>3 DEF Fresh
  <2>. QED
    BY <1>1, <1>2, <1>3, <2>1, NoStatsAccount, AnewBooks
<1>4. CASE s = [p.stats EXCEPT !.discarded = @ + Len(p.queue)] /\ taken = hist.taken
  <2> DEFINE t == [p.stats EXCEPT !.discarded = @ + Len(p.queue)]
  <2>1. Account(<<>>, t, hist.taken) /\ t.consumed = p.stats.consumed /\ hist.taken \in Nat
    BY DiscardedAccount DEF Books
  <2>2. s = t
    BY <1>4
  <2> HIDE DEF t
  <2>3. Books(p', hist.taken) /\ p'.stats = t
    BY <1>1, <2>1, <2>2, AnewBooks
  <2>. QED
    BY <1>2, <1>4, <2>1, <2>3
<1>. QED
  BY <1>1, <1>3, <1>4

\* Every step keeps the books, and consumes in a commit only.
Balanced == pc \in {"idle", "gate", "write"} /\ Books(p, hist.taken)
\* A step of any kind.
LEMMA BooksStep ==
  ASSUME Sound, Books(p, hist.taken), [PNext]_pvars
  PROVE  /\ Books(p', hist'.taken)
         /\ Commit \/ p' = Fresh \/ p'.stats.consumed = p.stats.consumed
<1>0. /\ TInv /\ IsPresenter(p) /\ IsPast(hist) /\ Typed(p) /\ Durations(hist) /\ p.error \in Errors
      /\ Flags(p) \subseteq BOOLEAN /\ hist.overtaken \in BOOLEAN
  BY DEF Sound, TInv, Typed, Durations
<1>1. ASSUME NEW f \in Frames, Present(f)
      PROVE  Books(p', hist'.taken) /\ p'.stats.consumed = p.stats.consumed
  <2>1. CASE Judges(f)
    BY <1>0, <2>1, JudgesBooks, FramesAssumption
  <2>2. ASSUME NEW e, Returns(Observed(p), e)
        PROVE  Books(p', hist'.taken) /\ p'.stats.consumed = p.stats.consumed
    <3>1. Differs(Observed(p), Observed(p), Modest)
      BY <1>0, ObservedOutput DEF SameOutput, Differs
    <3>. QED
      BY <1>0, <2>2, <3>1, ReturnLeavesBooks, LeavesBooksStep
  <2>. QED
    BY <1>0, <1>1, <2>1, <2>2, PresentJudges
<1>2. CASE Gate \/ Resume \/ Write \/ ObserveCursor \/ ForgetCursor \/ LocalEcho
  BY <1>0, <1>2, CallLeavesBooks, LeavesBooksStep
<1>3. CASE Commit
  BY <1>0, <1>3, CommitSummary, CommitBooks
<1>4. CASE Reset \/ Destroy
  BY <1>0, <1>4, AnewSummary, RenewsBooks
<1>5. ASSUME NEW id \in Ids, Notify(id) \/ Cancel(id)
      PROVE  Books(p', hist'.taken) /\ p'.stats.consumed = p.stats.consumed
  BY <1>0, <1>5, NotifyBooks, CancelBooks
<1>6. CASE Released \/ Flipped \/ UNCHANGED pvars
  BY <1>6 DEF Released, Flipped, pvars
<1>. QED
  BY <1>1, <1>2, <1>3, <1>4, <1>5, <1>6 DEF PNext

\* The books are balanced in every run.
THEOREM BooksTheorem == PSpec => []Balanced
<1>1. PInit => Balanced
  <2> SUFFICES ASSUME PInit PROVE Balanced
    OBVIOUS
  <2>1. p = Fresh /\ hist = Past /\ pc = "idle"
    BY DEF PInit
  <2>2. IsPresenter(Fresh) /\ Fresh.stats = NoStats
    BY DEF Fresh, IsPresenter, Fields
  <2>3. Fresh = [Fresh EXCEPT !.stats = NoStats]
    BY <2>2 DEF IsPresenter, Fields
  <2>4. Books(Fresh, 0)
    BY <2>3, NoStatsAccount, AnewBooks
  <2>5. hist.taken = 0
    BY <2>1 DEF Past
  <2>. QED
    BY <2>1, <2>4, <2>5 DEF Balanced
<1>2. Sound /\ Balanced /\ [PNext]_pvars => Balanced'
  <2> SUFFICES ASSUME Sound, Balanced, [PNext]_pvars PROVE Balanced'
    OBVIOUS
  <2>1. Books(p', hist'.taken)
    BY BooksStep DEF Balanced
  <2>2. pc' \in {"idle", "gate", "write"}
    <3>1. CASE \/ \E f \in Frames : Present(f)
               \/ Gate \/ Write \/ Commit \/ Resume \/ Reset \/ Destroy
      <4>1. ASSUME NEW f \in Frames, Present(f) PROVE pc' \in {"idle", "gate", "write"}
        <5>1. Typed(p) /\ IsPresenter(p) /\ p.error \in Errors
          BY DEF Sound, Typed
        <5>2. ASSUME Judges(f) PROVE pc' \in {"idle", "gate", "write"}
          BY <5>2 DEF Judges, JudgesFullscreen, JudgesGlass, Answered, Begun, Balanced
        <5>. QED
          BY <4>1, <5>1, <5>2, PresentJudges DEF Returns
      <4>. QED
        BY <3>1, <4>1 DEF Balanced, Gate, Write, Commit, Resume, Reset, Destroy, Anew, Fails, Returns
    <3>2. CASE \/ ObserveCursor \/ ForgetCursor \/ LocalEcho
               \/ \E id \in Ids : Notify(id) \/ Cancel(id)
      BY <3>2 DEF Balanced, ObserveCursor, ForgetCursor, LocalEcho, Busy, Call, Notify, Counting,
                  Cancel, Returns
    <3>3. CASE Released \/ Flipped \/ UNCHANGED pvars
      BY <3>3 DEF Balanced, Released, Flipped, pvars
    <3>. QED
      BY <3>1, <3>2, <3>3 DEF PNext
  <2>. QED
    BY <2>1, <2>2 DEF Balanced
<1>. QED
  BY <1>1, <1>2, SoundTheorem, PTL DEF PSpec

\* Every notification taken is queued or has ended in one way, and none is queued
\* twice, for any number of operations and places.
THEOREM NotificationsTheorem == PSpec => []NotificationsAccounted
<1>1. Balanced => NotificationsAccounted
  BY DEF Balanced, Books, Account, Distinct, Total, NotificationsAccounted, Conserved, NotifiedOnce
<1>. QED
  BY <1>1, BooksTheorem, PTL

\* The presenter's fields have their types, and agree with the terminal's count of
\* pending fullscreen outputs.
THEOREM ConsistencyTheorem == PSpec => []TransactionConsistent
<1>1. Sound /\ Balanced => TransactionConsistent
  <2> SUFFICES ASSUME Sound, Balanced PROVE TransactionConsistent
    OBVIOUS
  <2>1. RegisteredWhilePending /\ UnderWay /\ Typed(p)
    BY DEF Sound, TInv
  <2>2. p.next.total \in 0..MaxUnits /\ p.next.total <= MaxUnits
    BY <2>1, BoundsAssumption DEF Typed
  <2>3. /\ p.queue \in Seq(Operations) /\ Len(p.queue) <= Capacity
        /\ p.recent \in Seq(Ids) /\ Len(p.recent) <= Recent
        /\ p.stats \in Statistics /\ p.next.stats \in Statistics
        /\ pc \in {"idle", "gate", "write"}
    BY DEF Balanced, Books, Account
  <2>4. /\ p.error \in Errors /\ Flags(p) \subseteq BOOLEAN /\ p.recovery \in Recoveries
        /\ p.pending_ticks \in 0..Confirm /\ p.scroll_ticks \in 0..(ScrollHold + MaxTicks)
        /\ p.disabled_ticks \in 0..(BlankHold + MaxTicks) /\ p.written \in 0..p.next.total
        /\ (p.fullscreen_resume => p.initialized)
    BY <2>1 DEF Typed
  <2>5. pc # "idle" => p.output_pending
    BY <2>1 DEF UnderWay
  <2>6. PTypeOK
    BY <2>2, <2>3, <2>4, <2>5 DEF PTypeOK
  <2>. QED
    BY <2>1, <2>6 DEF TransactionConsistent
<1>. QED
  BY <1>1, SoundTheorem, BooksTheorem, PTL

-----------------------------------------------------------------------------
(***************************************************************************)
(* An output is a transfer.                                                *)
(***************************************************************************)
Outcome(q, w) == IF ~q.output_pending THEN w.ended ELSE IF q.error = "ok" THEN "open" ELSE "partial"
Transfers == [Output!TNext]_(Output!tvars)

\* What has to be shown of a step for the transfer.
LEMMA TransferStep ==
  ASSUME \/ UNCHANGED <<wire.total, wire.delivered>> /\ Outcome(p', wire') = Outcome(p, wire)
         \/ /\ Outcome(p, wire) # "open" /\ Outcome(p', wire') = "open"
            /\ wire'.total \in 0..MaxUnits /\ wire'.delivered = 0
         \/ /\ Outcome(p, wire) = "open" /\ Outcome(p', wire') = "open"
            /\ wire'.total = wire.total /\ wire'.delivered \in (wire.delivered + 1)..wire.total
         \/ /\ Outcome(p, wire) = "open" /\ UNCHANGED <<wire.total, wire.delivered>>
            /\ \/ Outcome(p', wire') = "partial"
               \/ Outcome(p', wire') = "whole" /\ wire.delivered = wire.total
  PROVE  Transfers
BY DEF Outcome, Transfers, Output!TNext, Output!tvars, Output!Begin, Output!Deliver,
       Output!Complete, Output!GiveUp

\* A step that leaves the wire and does not heal the presenter goes on with it,
\* or gives it up.
LEMMA QuietTransfer ==
  ASSUME UNCHANGED wire, p'.output_pending = p.output_pending,
         p.output_pending /\ p'.error = "ok" => p.error = "ok"
  PROVE  Transfers
<1>1. \/ Outcome(p', wire') = Outcome(p, wire)
      \/ Outcome(p, wire) = "open" /\ Outcome(p', wire') = "partial"
  BY DEF Outcome
<1>. QED
  BY <1>1, TransferStep

\* A call that ends without a frame.
LEMMA LooksTransfer ==
  ASSUME IsPresenter(p), Looks, UNCHANGED wire
  PROVE  Transfers
<1>1. PICK q \in {p, Observed(p)} : Touches(q, p') /\ (p'.error = "ok" => q.error = "ok")
  BY DEF Looks
<1>2. q.output_pending = p.output_pending /\ (q.error = "ok" => p.error = "ok")
  BY ObservedOutput DEF SameOutput
<1>3. p'.output_pending = q.output_pending
  BY <1>1 DEF Touches, Differs, Minor, Fields
<1>. QED
  BY <1>1, <1>2, <1>3, QuietTransfer

\* A frame begins a transfer, or leaves none behind.
LEMMA PresentTransfer ==
  ASSUME Sound, NEW f \in Frames, Present(f), wire.ended # "open"
  PROVE  Transfers
<1> DEFINE q == Seen(Observed(p), f)
<1>0. IsPresenter(p) /\ Typed(p) /\ p.error \in Errors /\ f \in FrameTypes
  BY FramesAssumption DEF Sound, Typed
<1>1. CASE Judges(f)
  <2>1. Begets(q) \/ LeavesOutput(q)
    BY <1>0, <1>1, JudgesOutput
  <2>2. /\ ~p.output_pending /\ Observed(p).error = "ok" /\ IsPresenter(Observed(p))
        /\ Observed(p).output_pending = p.output_pending
    BY <1>0, <1>1, ObservedOutput DEF Judges, SameOutput
  <2>3. Differs(Observed(p), q, Seeing)
    BY <2>2, SeenFields
  <2> HIDE DEF q
  <2>4. q.error = "ok" /\ q.output_pending = p.output_pending
    BY <2>2, <2>3 DEF Differs, Seeing, Fields
  <2>5. CASE LeavesOutput(q)
    BY <2>2, <2>4, <2>5, QuietTransfer DEF LeavesOutput
  <2>6. CASE Begets(q)
    <3>1. Outcome(p, wire) # "open" /\ Outcome(p', wire') = "open"
      BY <2>2, <2>4, <2>6 DEF Begets, Outcome
    <3>2. wire'.total \in 0..MaxUnits /\ wire'.delivered = 0
      BY <2>6 DEF Begets
    <3>. QED
      BY <3>1, <3>2, TransferStep
  <2>. QED
    BY <2>1, <2>5, <2>6
<1>2. ASSUME NEW e, Returns(Observed(p), e) PROVE Transfers
  <2>1. p' = Observed(p) /\ UNCHANGED wire
    BY <1>2 DEF Returns
  <2>. QED
    BY <1>0, <2>1, ObservedOutput, QuietTransfer DEF SameOutput
<1>. QED
  BY <1>0, <1>1, <1>2, PresentJudges

\* A write delivers units, fails or would block.
LEMMA WriteTransfer == ASSUME Sound, Write PROVE Transfers
<1>0. /\ IsPresenter(p) /\ p.output_pending /\ p.error = "ok" /\ p.written \in Nat
      /\ p.next.total \in Nat /\ IsWire /\ wire.delivered = p.written /\ wire.total = p.next.total
  BY BoundsAssumption DEF Sound, Typed, TInv, UnderWay, InStep, Write
<1>1. \/ Fails(p, "BACKGROUND") \/ Fails(p, "SYSTEM") \/ Returns(p, "WOULD_BLOCK")
      \/ \E n \in 1..(p.next.total - p.written) :
           p' = [p EXCEPT !.written = p.written + n] /\ wire' = [wire EXCEPT !.delivered = @ + n]
  BY DEF Write, Wrote
<1>2. ASSUME NEW e \in {"BACKGROUND", "SYSTEM"}, Fails(p, e) PROVE Transfers
  <2>1. p' = [p EXCEPT !.error = e] /\ UNCHANGED wire
    BY <1>2 DEF Fails, Returns
  <2>2. p'.output_pending = p.output_pending
    BY <1>0, <2>1 DEF IsPresenter, Fields
  <2>. QED
    BY <1>0, <2>1, <2>2, QuietTransfer
<1>3. CASE Returns(p, "WOULD_BLOCK")
  BY <1>3, QuietTransfer DEF Returns
<1>4. ASSUME NEW n \in 1..(p.next.total - p.written), p' = [p EXCEPT !.written = p.written + n],
             wire' = [wire EXCEPT !.delivered = @ + n]
      PROVE  Transfers
  <2>1. p'.output_pending = TRUE /\ p'.error = "ok"
    BY <1>0, <1>4 DEF IsPresenter, Fields
  <2>2. wire'.total = wire.total /\ wire'.delivered = wire.delivered + n
    BY <1>0, <1>4 DEF IsWire
  <2>3. wire'.delivered \in (wire.delivered + 1)..wire.total
    BY <1>0, <2>2
  <2>. QED
    BY <1>0, <2>1, <2>2, <2>3, TransferStep DEF Outcome
<1>. QED
  BY <1>1, <1>2, <1>3, <1>4

\* A commit completes it.
LEMMA CommitTransfer ==
  ASSUME Sound, Commit
  PROVE  Transfers /\ p.output_pending /\ wire'.ended = "whole"
<1>1. /\ p.output_pending /\ p.error = "ok" /\ p'.output_pending = FALSE
      /\ IsWire /\ wire.delivered = p.written /\ wire.total = p.next.total
  <2>1. TInv /\ Flags(p) \subseteq BOOLEAN /\ hist.overtaken \in BOOLEAN
    BY DEF Sound, Typed, Durations
  <2>. QED
    BY <2>1, CommitSummary DEF CommitsOutput, TInv, InStep
<1>2. p.written = p.next.total /\ wire' = [wire EXCEPT !.ended = "whole", !.epoch = 0]
  BY DEF Commit, Commits
<1>3. UNCHANGED <<wire.total, wire.delivered>> /\ wire'.ended = "whole"
  BY <1>1, <1>2 DEF IsWire
<1>. QED
  BY <1>1, <1>2, <1>3, TransferStep DEF Outcome

\* A reset and a destruction give it up.
LEMMA AnewTransfer == ASSUME Sound, Reset \/ Destroy PROVE Transfers
<1>1. PICK q, taken : q \in {Kept(p), Fresh} /\ Anew(q, taken)
  BY DEF Reset, Destroy
<1>2. p'.output_pending = FALSE
  BY <1>1 DEF Anew, Kept, Fresh
<1>3. IsWire
  BY DEF Sound, TInv
<1>4. CASE ~p.output_pending
  <2>1. p.output_pending \in BOOLEAN
    BY TypedFlags DEF Sound
  <2>2. UNCHANGED wire
    BY <1>1, <1>4 DEF Anew
  <2>. QED
    BY <1>2, <1>4, <2>1, <2>2, QuietTransfer
<1>5. CASE p.output_pending
  <2>1. wire' = [wire EXCEPT !.ended = "partial", !.epoch = 0]
    BY <1>1, <1>5 DEF Anew
  <2>2. UNCHANGED <<wire.total, wire.delivered>> /\ wire'.ended = "partial"
    BY <1>3, <2>1 DEF IsWire
  <2>3. Outcome(p, wire) \in {"open", "partial"} /\ Outcome(p', wire') = "partial"
    BY <1>2, <1>5, <2>2 DEF Outcome
  <2>. QED
    BY <2>2, <2>3, TransferStep
<1>. QED
  BY <1>4, <1>5 DEF Sound, Typed, Flags

\* No output ends open.
Closed == wire.ended # "open"

\* Every step of the presenter is one of the transfer, or leaves it alone.
LEMMA TransfersStep == ASSUME Sound, Closed, [PNext]_pvars PROVE Transfers
<1>0. /\ IsPresenter(p) /\ TInv /\ p.error \in Errors /\ UnderWay /\ IsWire
  BY DEF Sound, TInv, Typed
<1>1. ASSUME NEW f \in Frames, Present(f) PROVE Transfers
  BY <1>1, PresentTransfer DEF Closed
<1>2. CASE Gate \/ Resume
  <2>1. UNCHANGED wire
    BY <1>2 DEF Gate, Resume, Fails, Returns
  <2>. QED
    BY <1>0, <1>2, <2>1, GateLooks, ResumeLooks, LooksTransfer
<1>3. CASE Write
  BY <1>3, WriteTransfer
<1>4. CASE Commit
  BY <1>4, CommitTransfer
<1>5. CASE Reset \/ Destroy
  BY <1>5, AnewTransfer
<1>6. ASSUME NEW id \in Ids, ObserveCursor \/ ForgetCursor \/ LocalEcho \/ Notify(id) \/ Cancel(id)
      PROVE  Transfers
  <2>1. UNCHANGED wire
    BY <1>6 DEF ObserveCursor, ForgetCursor, LocalEcho, Busy, Call, Notify, Counting, Cancel, Returns
  <2>. QED
    BY <1>0, <1>6, <2>1, CallLooks, LooksTransfer
<1>7. CASE Released \/ Flipped \/ UNCHANGED pvars
  BY <1>7, QuietTransfer DEF Released, Flipped, pvars
<1>8. CASE ObserveCursor \/ ForgetCursor \/ LocalEcho
  <2>1. UNCHANGED wire
    BY <1>8 DEF ObserveCursor, ForgetCursor, LocalEcho, Busy, Call, Returns
  <2>. QED
    BY <1>0, <1>8, <2>1, CallLooks, LooksTransfer
<1>. QED
  BY <1>1, <1>2, <1>3, <1>4, <1>5, <1>6, <1>7, <1>8 DEF PNext

\* And none of them ends one so.
LEMMA ClosedStep == ASSUME Sound, Closed, [PNext]_pvars PROVE Closed'
<1>0. /\ IsPresenter(p) /\ Typed(p) /\ p.error \in Errors /\ IsWire
  BY DEF Sound, TInv, Typed
<1>1. \/ UNCHANGED wire
      \/ wire'.ended \in {"none", "whole", "partial"}
      \/ \E n : wire' = [wire EXCEPT !.delivered = n]
  <2>1. ASSUME NEW f \in Frames, Present(f)
        PROVE  UNCHANGED wire \/ wire'.ended = "none"
    <3>1. ASSUME Judges(f) PROVE UNCHANGED wire \/ wire'.ended = "none"
      <4>1. f \in FrameTypes
        BY FramesAssumption
      <4>2. Begets(Seen(Observed(p), f)) \/ LeavesOutput(Seen(Observed(p), f))
        BY <1>0, <3>1, <4>1, JudgesOutput
      <4>. QED
        BY <4>2 DEF Begets, LeavesOutput
    <3>. QED
      BY <1>0, <2>1, <3>1, PresentJudges DEF Returns
  <2>2. CASE Write
    BY <2>2 DEF Write, Fails, Returns
  <2>3. CASE Commit
    BY <2>3, CommitTransfer
  <2>4. CASE Reset \/ Destroy
    BY <1>0, <2>4 DEF Reset, Destroy, Anew, IsWire
  <2>5. CASE \/ Gate \/ Resume \/ ObserveCursor \/ ForgetCursor \/ LocalEcho
             \/ \E id \in Ids : Notify(id) \/ Cancel(id)
             \/ Released \/ Flipped \/ UNCHANGED pvars
    BY <2>5 DEF Gate, Resume, Fails, ObserveCursor, ForgetCursor, LocalEcho, Busy, Call, Notify,
                Counting, Cancel, Returns, Released, Flipped, pvars
  <2>. QED
    BY <2>1, <2>2, <2>3, <2>4, <2>5 DEF PNext
<1>. QED
  BY <1>0, <1>1 DEF Closed, IsWire

\* Every output is one transfer: nothing follows a failure, a reset or a
\* destruction, and none is committed before the terminal has all of it.
THEOREM TransferTheorem == PSpec => OutputIsTransfer
<1>1. PInit => Output!TInit /\ Closed
  BY DEF PInit, Fresh, Output!TInit, Closed
<1>2. Sound /\ Closed /\ [PNext]_pvars => [Output!TNext]_(Output!tvars) /\ Closed'
  BY TransfersStep, ClosedStep DEF Transfers
<1>. QED
  BY <1>1, <1>2, SoundTheorem, PTL DEF PSpec, OutputIsTransfer, Output!TSpec

\* What a frame confirms is counted by the commit that shows it, or by nobody.
THEOREM MatchesTheorem == PSpec => MatchesCommit
<1>1. Sound /\ Balanced /\ [PNext]_pvars
        => [p'.stats.consumed # p.stats.consumed
              => (p.output_pending /\ wire'.ended = "whole") \/ p' = Fresh]_pvars
  <2> SUFFICES ASSUME Sound, Balanced, [PNext]_pvars, p'.stats.consumed # p.stats.consumed, p' # Fresh
               PROVE  p.output_pending /\ wire'.ended = "whole"
    OBVIOUS
  <2>1. Commit
    BY BooksStep DEF Balanced
  <2>. QED
    BY <2>1, CommitTransfer
<1>. QED
  BY <1>1, SoundTheorem, BooksTheorem, PTL DEF PSpec, MatchesCommit

\* An output reaches the terminal as one transfer, in its own generation if it is
\* fullscreen, and confirms nothing before its end.
THEOREM OutputTheorem == PSpec => OutputIsAtomic
BY TransferTheorem, RepaintTheorem, MatchesTheorem DEF OutputIsAtomic
=============================================================================
