----------------------------- MODULE MCGuestKeys -----------------------------
(***************************************************************************)
(* Small instances of GuestKeys for TLC: two scenarios of one run, told    *)
(* apart by a variable that no step changes.                               *)
(***************************************************************************)
EXTENDS GuestKeys

VARIABLE scenario

\* Typing alone, with two events to a read; then the terminal's owner and the
\* worker's end, between any two steps, for a key that may be quoted.
Gestures == INSTANCE GuestKeys WITH MaxTyped <- 2, BatchSize <- 2
Epochs   == INSTANCE GuestKeys WITH HostKeys <- {}, Releases <- TRUE

all      == <<vars, scenario>>
KeysInit == Init /\ scenario \in {"gestures", "epochs"}
KeysNext ==
  \/ scenario = "gestures" /\ UNCHANGED scenario /\ Gestures!Next
  \/ scenario = "epochs" /\ UNCHANGED scenario /\ Epochs!Next
KeysSpec ==
  /\ KeysInit /\ [][KeysNext]_all
  /\ WF_all(scenario = "gestures" /\ UNCHANGED scenario /\ Gestures!WorkerStep)
  /\ WF_all(scenario = "epochs" /\ UNCHANGED scenario /\ Epochs!WorkerStep)
=============================================================================
