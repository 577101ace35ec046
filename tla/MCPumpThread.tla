---------------------------- MODULE MCPumpThread ----------------------------
(***************************************************************************)
(* An instance of PumpThread for TLC: few requests, errors and outages, in *)
(* any order, with short timeouts.                                         *)
(***************************************************************************)
EXTENDS PumpThread

\* One drive error of each kind.
OneAutoReset == {"undervoltage"}
OneNonResettable == {"power loss"}
=============================================================================
