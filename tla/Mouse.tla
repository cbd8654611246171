------------------------------- MODULE Mouse -------------------------------
(***************************************************************************)
(* Mouse reports to mouse events: which buttons are held is inferred from  *)
(* reports that may leave out a release (X10), name no button (legacy) or  *)
(* show a drag whose press was never reported.  The renderer's negotiation *)
(* may change the mode between two reports.                                *)
(***************************************************************************)
EXTENDS Naturals, FiniteSets, Sequences

VARIABLES mouse_mode, applied_mouse_mode, mouse_buttons,
          out,          \* history: the events of the last report, <<kind, button, buttons>>,
          before,       \* the mask of the event before them,
          afresh        \* and whether it was the first one in its mode
mvars == <<mouse_mode, applied_mouse_mode, mouse_buttons, out, before, afresh>>

Buttons == 0..2
NoButton == 3
Modes == {"off", "auto", "cells", "pixels", "x10"}
Reports == {r \in [legacy : BOOLEAN, button : 0..3, motion : BOOLEAN, wheel : BOOLEAN,
                    release : BOOLEAN, leave : BOOLEAN, valid : BOOLEAN] :
              r.legacy => ~r.release /\ ~r.leave}

Move(held) == <<"move", NoButton, held>>

Dragged(m, button) == IF button = NoButton THEN {} ELSE m.held \cup {button}

(* mouse_button: the position first, then the button. *)
mouse_button(m, button, release) ==
  LET held == IF release THEN m.held \ {button} ELSE m.held \cup (Buttons \cap {button})
  IN [held |-> held,
      out |-> m.out \o <<Move(m.held), <<IF release THEN "up" ELSE "down", button, held>>>>]

(* A legacy release names no button: all held ones go up, or none is named. *)
Up(m, b) == IF b \in m.held THEN mouse_button(m, b, TRUE) ELSE m
LegacyRelease(m) == IF m.held = {} THEN mouse_button(m, NoButton, TRUE)
                    ELSE Up(Up(Up(m, 0), 1), 2)

Clicks(m, button, mode) == IF mode = "x10" THEN mouse_button(m, button, TRUE) ELSE m

(* What a well-placed report does to the held buttons. *)
Apply(m, r, mode) ==
  IF r.wheel THEN [m EXCEPT !.out = m.out \o <<Move(m.held), <<"scroll", NoButton, m.held>>>>]
  ELSE IF r.motion THEN LET held == Dragged(m, r.button)
                        IN [held |-> held, out |-> Append(m.out, Move(held))]
  ELSE IF r.legacy /\ r.button = NoButton THEN LegacyRelease(m)
  ELSE IF r.button < NoButton THEN Clicks(mouse_button(m, r.button, r.release), r.button, mode)
  ELSE m

Leaving(r, mode) == ~r.legacy /\ mode = "pixels" /\ r.leave
Refused(r, mode) == \/ r.leave \/ ~r.valid
                    \/ r.motion /\ (r.wheel \/ r.release)
                    \/ r.wheel /\ r.release
                    \/ mode = "x10" /\ (r.motion \/ r.release \/ (~r.wheel /\ r.button = NoButton))

KeepsButtons == mouse_buttons
Kept == IF mouse_mode = applied_mouse_mode THEN mouse_buttons ELSE {}

handle_mouse(r) ==
  LET start == [held |-> Kept, out |-> <<>>]
      m == IF mouse_mode # "off" /\ Leaving(r, mouse_mode)
           THEN [start EXCEPT !.out = <<<<"leave", NoButton, Kept>>>>]
           ELSE IF mouse_mode = "off" \/ Refused(r, mouse_mode) THEN start
           ELSE Apply(start, r, mouse_mode)
  IN /\ applied_mouse_mode' = mouse_mode
     /\ mouse_buttons' = m.held
     /\ out' = m.out
     /\ before' = mouse_buttons
     /\ afresh' = (mouse_mode # applied_mouse_mode)
     /\ UNCHANGED mouse_mode

(* tigt_input_set_mouse_mode, on the renderer's thread. *)
set_mouse_mode(mode) == /\ mouse_mode' = mode
                        /\ UNCHANGED <<applied_mouse_mode, mouse_buttons, out, before, afresh>>

MInit == /\ mouse_mode \in Modes \ {"off"} /\ applied_mouse_mode = mouse_mode
         /\ mouse_buttons = {} /\ out = <<>> /\ before = {} /\ afresh = FALSE
MNext == \/ \E r \in Reports : handle_mouse(r)
         \/ \E mode \in Modes : set_mouse_mode(mode)
MSpec == MInit /\ [][MNext]_mvars

-----------------------------------------------------------------------------
(* The types of the state. *)
MTypeOK == /\ mouse_mode \in Modes /\ applied_mouse_mode \in Modes
           /\ mouse_buttons \subseteq Buttons /\ before \subseteq Buttons
           /\ \A n \in DOMAIN out : out[n][2] \in Buttons \cup {NoButton}
                                    /\ out[n][3] \subseteq Buttons

(* Every press, release or scroll is reported right after its position,    *)
(* synthesized releases included (docs/reference.md:430).                  *)
PositionFirst == \A n \in DOMAIN out : out[n][1] \in {"down", "up", "scroll"} =>
                    n > 1 /\ out[n - 1][1] = "move"

(* From one event to the next the mask loses a button by its release or by *)
(* a motion without buttons, and gains one by its press or by a drag; only *)
(* the first report in a new mode starts afresh, without a release         *)
(* (src/input.h:22, "without inventing releases").                         *)
MaskBefore(n) == IF n > 1 THEN out[n - 1][3] ELSE IF afresh THEN {} ELSE before
MaskFollowsEvents == \A n \in DOMAIN out :
  LET was == MaskBefore(n)
      is == out[n][3]
  IN CASE out[n][1] = "down" -> is = was \cup {out[n][2]}
       [] out[n][1] = "up" -> is = was \ {out[n][2]}
       [] out[n][1] = "move" -> is = {} \/ was \subseteq is
       [] OTHER -> is = was

(* X10 mode has no releases: after each of its reports no button is held   *)
(* ("never a stuck drag", tests/mouse_fixture.c).                          *)
X10HoldsNothing == applied_mouse_mode \in {"x10", "off"} => mouse_buttons = {}

(* The buttons the program believes are held follow from the events it got,*)
(* whatever the mode reports and leaves out.                               *)
ButtonsFollow == MTypeOK /\ PositionFirst /\ MaskFollowsEvents /\ X10HoldsNothing
=============================================================================
