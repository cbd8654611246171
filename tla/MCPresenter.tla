---------------------------- MODULE MCPresenter ----------------------------
(***************************************************************************)
(* One run over the presenter, told apart by a variable that no step       *)
(* changes: holds of scrolling, disabled and unfitting frames; recovery    *)
(* from fullscreen; a terminal that comes and goes while output is         *)
(* pending; and notifications.                                             *)
(***************************************************************************)
EXTENDS PresenterProperties

VARIABLE scenario

Still == [clear |-> FALSE, foreign |-> FALSE, advanced |-> FALSE, text |-> FALSE, frontier |-> TRUE]
Plain == [ticks |-> 1, disabled |-> FALSE, changed |-> FALSE, scroll |-> "none", fit |-> TRUE,
          trace |-> Still]
Unfit == [Plain EXCEPT !.fit = FALSE]
Clears == [Plain EXCEPT !.trace.clear = TRUE]
HoldFrames ==
  {[Plain EXCEPT !.ticks = t, !.scroll = s, !.fit = f] :
     t \in {1, 2}, s \in {"none", "copying"}, f \in BOOLEAN}
  \cup {[Plain EXCEPT !.disabled = TRUE, !.changed = c, !.scroll = s] :
          c \in BOOLEAN, s \in {"none", "done", "copying"}}
TraceFrames == {[Plain EXCEPT !.trace = [Still EXCEPT !.advanced = a, !.text = x, !.frontier = f]] :
                 a \in BOOLEAN, x \in BOOLEAN, f \in BOOLEAN}
               \cup {Clears, Unfit, [Plain EXCEPT !.trace.foreign = TRUE]}

Holds == INSTANCE PresenterProperties WITH
  Frames <- HoldFrames, MaxUnits <- 0, MaxEpoch <- 0, MaxFlips <- 0, Ids <- {}
Recovers == INSTANCE PresenterProperties WITH
  Frames <- TraceFrames, MaxUnits <- 1, MaxEpoch <- 1, MaxFlips <- 0, Ids <- {}
Terminals == INSTANCE PresenterProperties WITH
  Frames <- {Plain, Unfit}, Ids <- {}
Notes == INSTANCE PresenterProperties WITH
  Frames <- {Plain, Clears}, MaxUnits <- 0, MaxFlips <- 0, Confirm <- 1

PresenterInit == /\ PInit /\ scenario \in {"holds", "recovery", "terminal", "notes"}
                 /\ scenario \in {"holds", "notes"} => foreground
PresenterNext ==
  /\ UNCHANGED scenario
  /\ \/ scenario = "holds" /\ Holds!PNext
     \/ scenario = "recovery" /\ Recovers!PNext
     \/ scenario = "terminal" /\ Terminals!PNext
     \/ scenario = "notes" /\ Notes!PNext
PresenterSpec == PresenterInit /\ [][PresenterNext]_<<pvars, scenario>>
=============================================================================
