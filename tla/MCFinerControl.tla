---------------------------- MODULE MCFinerControl ----------------------------
(***************************************************************************)
(* An instance of FinerControl for TLC: the settings of _init.yaml (3, 6,  *)
(* 10 of 100) scaled to a valve of 12 positions it travels in 4 ticks.     *)
(***************************************************************************)
EXTENDS FinerControl

\* Closed, within a backlash step of either end, in between, fully open.
SomeDemands == {0, 2, 5, 11, 12}
=============================================================================
