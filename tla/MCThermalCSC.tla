---------------------------- MODULE MCThermalCSC ----------------------------
(***************************************************************************)
(* Instances of ThermalCSC for TLC: two overlapping sets of commands, each *)
(* with the failures it is meant to meet.                                  *)
(***************************************************************************)
EXTENDS ThermalCSC

\* The whole interface, but for the mixing valve and the end of the process.
LifecycleCommands == SALCommands \ {"setMixingValve", "exitControl"}

\* Sessions with a moving mixing valve, and the end of the process.
SessionCommands == {"start", "enable", "standby", "setMixingValve", "exitControl"}

\* The shortest way to Enabled and to a moving mixing valve.
ValveCommands == {"start", "enable", "setMixingValve"}

\* The state transitions alone.
StateCommands == {"start", "enable", "disable", "standby"}

\* The pump may be configured in or out, or is always there.
AnyPump == BOOLEAN
WithPump == {TRUE}
=============================================================================
