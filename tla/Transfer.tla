------------------------------ MODULE Transfer ------------------------------
(***************************************************************************)
(* What a bounded writer promises of one message after another: a message  *)
(* is handed over in units, its receiver only ever holds a prefix of it,   *)
(* the rest is never sent once the message has failed, and the writer      *)
(* calls a message whole only when the receiver holds all of it.           *)
(***************************************************************************)
EXTENDS Naturals

CONSTANT MaxUnits       \* the longest message, a natural number

VARIABLES total,        \* the units of the message in hand
          delivered,    \* those the receiver has
          outcome       \* "none" between messages; "open", "whole", "partial"

tvars == <<total, delivered, outcome>>

TInit == total = 0 /\ delivered = 0 /\ outcome = "none"

Begin == /\ outcome # "open"
         /\ total' \in 0..MaxUnits
         /\ delivered' = 0
         /\ outcome' = "open"

Deliver == /\ outcome = "open"
           /\ delivered' \in (delivered + 1)..total
           /\ UNCHANGED <<total, outcome>>

Complete == /\ outcome = "open"
            /\ delivered = total
            /\ outcome' = "whole"
            /\ UNCHANGED <<total, delivered>>

GiveUp == /\ outcome = "open"
          /\ outcome' = "partial"
          /\ UNCHANGED <<total, delivered>>

(* The next message is another one. *)
Rest == /\ outcome \in {"whole", "partial"}
        /\ total' = 0 /\ delivered' = 0 /\ outcome' = "none"

TNext == Begin \/ Deliver \/ Complete \/ GiveUp \/ Rest

TSpec == TInit /\ [][TNext]_tvars
=============================================================================
