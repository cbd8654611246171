------------------------------ MODULE MCInput ------------------------------
(***************************************************************************)
(* One run over the three stateful parts of keyboard and mouse input, told *)
(* apart by a variable that no step changes: the keyboard mapper with      *)
(* shifted chords, with aliases of shared keys, and with the Command       *)
(* layer; the decoder with pastes and with every kind of byte; the mouse.  *)
(***************************************************************************)
EXTENDS Keyboard, Decoder, Mouse

VARIABLE scenario

Chords  == INSTANCE Keyboard WITH Keys <- {"a", "A", "F13", "F15", "lshift", "rctrl"},
                                  Mods <- {"shift", "control"}
Aliases == INSTANCE Keyboard WITH Keys <- {"F15", "F14", "printscreen", "F19", "lsuper"},
                                  Mods <- {"super", "control"}
Layer   == INSTANCE Keyboard WITH Keys <- {"left", "enter", "c", "lsuper"},
                                  Mods <- {"super", "control", "shift"}
Special == INSTANCE Keyboard WITH Keys <- {"null", "pause", "begin", "backspace"},
                                  Mods <- {"super", "control", "shift"}
Graves  == INSTANCE Keyboard WITH Keys <- {"grave", "tilde", "backslash", "rsuper"},
                                  Mods <- {"super", "control", "shift", "alt"}
Pastes    == INSTANCE Decoder WITH
  Bytes <- {"esc", "[", "200", "201", "~", "x", "lead", "cont"}
Sequences == INSTANCE Decoder WITH MaxPaste <- 2

InputInit == /\ KInit /\ DInit /\ MInit
             /\ \/ scenario \in {"chords", "special", "graves"}
                \/ scenario = "aliases" /\ model = "XT"
                \/ scenario = "layer" /\ model = "AT"
                \/ scenario \in {"pastes", "sequences"} /\ model = "XT"
                \/ scenario = "mouse" /\ model = "XT"
             /\ scenario # "mouse" => mouse_mode = "cells"
InputNext ==
  /\ UNCHANGED scenario
  /\ \/ scenario = "chords" /\ Chords!KNext /\ UNCHANGED <<dvars, mvars>>
     \/ scenario = "aliases" /\ Aliases!KNext /\ UNCHANGED <<dvars, mvars>>
     \/ scenario = "layer" /\ Layer!KNext /\ UNCHANGED <<dvars, mvars>>
     \/ scenario = "special" /\ Special!KNext /\ UNCHANGED <<dvars, mvars>>
     \/ scenario = "graves" /\ Graves!KNext /\ UNCHANGED <<dvars, mvars>>
     \/ scenario = "pastes" /\ Pastes!DNext /\ UNCHANGED <<kvars, mvars>>
     \/ scenario = "sequences" /\ Sequences!DNext /\ UNCHANGED <<kvars, mvars>>
     \/ scenario = "mouse" /\ MNext /\ UNCHANGED <<kvars, dvars>>
InputSpec == InputInit /\ [][InputNext]_<<kvars, dvars, mvars, scenario>>
=============================================================================
