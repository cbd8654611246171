---------------------------- MODULE MCSignalChain ----------------------------
(***************************************************************************)
(* Small instances of SignalChain for TLC.                                 *)
(***************************************************************************)
EXTENDS SignalChainProperties

VARIABLE scenario       \* of ChainSpec; no step changes it

AllHandlers == {[s \in Signals |-> "handler"]}
OneKind     == {[s \in Signals |-> kind] : kind \in {"default", "ignore", "handler", "once"}}

LifecycleInit == scenario = "lifecycle" /\ Init
LifecycleNext == Next /\ UNCHANGED scenario
LifecycleSpec == LifecycleInit /\ [][LifecycleNext]_<<vars, scenario>> /\ Fairness

(* Deliveries: many signals after one installation.  Kept: installations,  *)
(* removals and registrations of the application's own among signals that  *)
(* neither stop nor continue the process.                                  *)
Kept == INSTANCE SignalChainProperties WITH
  Application <- AllHandlers, Installed <- FALSE, PipeSize <- 1, MaxSignals <- 2,
  Events <- {"install", "fail", "uninstall", "register", "open"}
Few == \A t \in Threads : \A i \in DOMAIN stack'[t] : stack'[t][i].sig \in Terms \cup Faults

ChainInit == \/ scenario = "deliveries" /\ Init
             \/ scenario = "kept" /\ Kept!Init
ChainNext == /\ UNCHANGED scenario
             /\ \/ scenario = "deliveries" /\ Next
                \/ scenario = "kept" /\ Kept!Next /\ Few
ChainSpec == ChainInit /\ [][ChainNext]_<<vars, scenario>>
=============================================================================
