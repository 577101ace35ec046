---------------------------- MODULE MCBusRecovery ----------------------------
(***************************************************************************)
(* An instance of BusRecovery for TLC: two of the 96 ILCs, so that one may *)
(* be silent while the other one answers.                                  *)
(***************************************************************************)
EXTENDS BusRecovery
=============================================================================
