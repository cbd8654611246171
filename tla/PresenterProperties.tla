------------------------ MODULE PresenterProperties ------------------------
(***************************************************************************)
(* What the presenter's transaction promises.                              *)
(***************************************************************************)
EXTENDS Presenter

(* The types of the state.                                                 *)
Errors == {"ok", "BACKGROUND", "UNREPRESENTABLE", "TERMINAL", "SYSTEM"}
Recoveries == [boundary : BOOLEAN, text : BOOLEAN, confirming : BOOLEAN, ticks : 0..Confirm]
Statistics == [consumed : Nat, discarded : Nat, expired : Nat]
Operations == [id : Ids, age : Nat]
Flags(q) == {q.initialized, q.fullscreen, q.fullscreen_resume, q.foreground_fullscreen, q.pending,
             q.released, q.holding, q.background, q.cursor_known, q.echo, q.echo_failed,
             q.output_pending, q.registered}
PTypeOK ==
  /\ pc \in {"idle", "gate", "write"} /\ (pc # "idle" => p.output_pending)
  /\ p.error \in Errors /\ Flags(p) \subseteq BOOLEAN /\ p.recovery \in Recoveries
  /\ p.pending_ticks \in 0..Confirm /\ p.scroll_ticks \in 0..(ScrollHold + MaxTicks)
  /\ p.disabled_ticks \in 0..(BlankHold + MaxTicks)
  /\ p.written \in 0..p.next.total /\ p.next.total <= MaxUnits
  /\ p.queue \in Seq(Operations) /\ Len(p.queue) <= Capacity
  /\ p.recent \in Seq(Ids) /\ Len(p.recent) <= Recent
  /\ {p.stats, p.next.stats} \subseteq Statistics
  /\ p.fullscreen_resume => p.initialized

(* The committed image is the last frame of which every unit has reached   *)
(* the terminal, however its output was cut, resumed or given up.          *)
ImageIsShown == p.image = hist.shown

(* An output is a transfer: nothing follows a failure or a reset, and it   *)
(* is committed only when the terminal has all of it.                      *)
Output == INSTANCE Transfer WITH
  total <- wire.total, delivered <- wire.delivered,
  outcome <- IF ~p.output_pending THEN wire.ended ELSE IF p.error = "ok" THEN "open" ELSE "partial"
OutputIsTransfer == Output!TSpec

(* Fullscreen output goes on only in the generation of the terminal it was *)
(* begun in: none is replayed or continued after a release                 *)
(* (tigt_presenter.h, "invalidated by release/background").                *)
NoStaleRepaint == [][wire'.delivered # wire.delivered /\ p.next.fullscreen /\ pc # "idle"
                       => epoch = wire.epoch]_pvars

(* A pending fullscreen output is registered with the terminal once, and   *)
(* no longer than it is pending: a leaked count would keep the terminal    *)
(* from deferring releases as it should.                                   *)
RegisteredWhilePending ==
  /\ p.registered <=> p.output_pending /\ p.next.fullscreen
  /\ pending_fullscreen = IF p.registered THEN 1 ELSE 0

(* The prior fullscreen policy survives the background, but for a glass    *)
(* output that is pending when the foreground comes back.                  *)
PolicyRetained == hist.policy /\ p.error = "ok" =>
                    p.fullscreen \/ p.foreground_fullscreen \/ hist.overtaken

(* "Foreground restoration retains the prior fullscreen policy"            *)
(* (include/tigt_presenter.h), without exception.                          *)
PolicyKept == hist.policy /\ p.error = "ok" => p.fullscreen \/ p.foreground_fullscreen

(* A consumer that asks after a call, failed or not, learns that fullscreen*)
(* bytes are on its terminal.                                              *)
StartedTells == hist.dirty /\ pc = "idle" /\ ~p.background /\ ~hist.overtaken => Started

(* A frame is held back no longer than 500 ms since the first that showed  *)
(* rows being copied, 200 ms of unchanged disabled video, or 100 ms of     *)
(* text that does not fit; progress, blanking and other frames in between  *)
(* do not renew it.                                                        *)
PendingIsBounded == pc = "idle" /\ result = "PENDING" =>
  \/ hist.copies \in 0..(ScrollHold - 1)
  \/ hist.blanks \in 1..(BlankHold - 1)
  \/ hist.wait \in 0..(Confirm - 1)

(* Fullscreen is left for glass text only after new text on a new line,    *)
(* and then a full 100 ms of frames with nothing but text at the frontier; *)
(* a resumed repaint starts all over.                                      *)
RecoveryEarned == p.output_pending /\ p.next.fullscreen /\ p.next.recovered =>
                    hist.seen = "text" /\ hist.calm >= Confirm /\ ~p.fullscreen_resume

(* Every operation taken is queued or has ended in one way.                *)
Conserved == hist.taken = Len(p.queue) + p.stats.consumed + p.stats.discarded + p.stats.expired

(* Matches commit only with the frame that shows them.                     *)
MatchesCommit == [][p'.stats.consumed # p.stats.consumed =>
                      (p.output_pending /\ wire'.ended = "whole") \/ p' = Fresh]_pvars

(* No operation is queued twice, whatever was cancelled or forgotten.      *)
NotifiedOnce == \A i, j \in DOMAIN p.queue : p.queue[i].id = p.queue[j].id => i = j

(* The presenter's fields agree with each other and with the terminal's    *)
(* count of pending fullscreen outputs.                                    *)
TransactionConsistent == PTypeOK /\ RegisteredWhilePending

(* Fullscreen is remembered across the background, and known to whoever    *)
(* must clean up after it.                                                 *)
FullscreenIsKnown == PolicyRetained /\ StartedTells

(* Every notification is queued once, and ends once.                       *)
NotificationsAccounted == Conserved /\ NotifiedOnce

(* An output reaches the terminal as one transfer, in the generation it    *)
(* was begun in if it is fullscreen, and confirms nothing before its end.  *)
OutputIsAtomic == OutputIsTransfer /\ NoStaleRepaint /\ MatchesCommit
=============================================================================
