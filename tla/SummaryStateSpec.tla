--------------------------- MODULE SummaryStateSpec ---------------------------
(***************************************************************************)
(* What the CSC promises about its summary state, whatever its commands do *)
(* call by call: the states follow each other as Events::SummaryState lets *)
(* them; the shutdown of a fault is over before the fault is left;         *)
(* Standby is entered with the pump served by nobody and without power;    *)
(* and Enabled with the fan coil units powered.                            *)
(***************************************************************************)
CONSTANT Threads    \* those that may fault the CSC

VARIABLES
    state,       \* the summary state
    panicking,   \* the threads that shut the plant down after a fault
    heating,     \* the fan coil units have power
    pumping,     \* the EGW pump has power
    serving      \* a thread serves the pump

vars == <<state, panicking, heating, pumping, serving>>

States == {"Offline", "Standby", "Disabled", "Enabled", "Fault"}

Init ==
    /\ state = "Offline"
    /\ panicking = {}
    /\ heating = FALSE
    /\ pumping = FALSE
    /\ serving = FALSE

Move(from, to) ==
    /\ state \in from
    /\ state' = to
    /\ UNCHANGED <<panicking, heating, pumping, serving>>

EnterStandby ==
    /\ panicking = {}
    /\ ~pumping
    /\ ~serving
    /\ Move({"Offline", "Disabled", "Fault"}, "Standby")

EnterDisabled == Move({"Standby", "Enabled"}, "Disabled")

EnterEnabled == heating /\ Move({"Disabled"}, "Enabled")

GoOffline == Move({"Standby"}, "Offline")

Fault(t) ==
    /\ state' = "Fault"
    /\ panicking' = panicking \cup {t}
    /\ UNCHANGED <<heating, pumping, serving>>

EndPanic(t) ==
    /\ panicking' = panicking \ {t}
    /\ UNCHANGED <<state, heating, pumping, serving>>

PowerHeating(on) ==
    /\ heating' = on
    /\ UNCHANGED <<state, panicking, pumping, serving>>

PowerPump(on) ==
    /\ pumping' = on
    /\ UNCHANGED <<state, panicking, heating, serving>>

\* Nobody serves a pump without power.
Serve ==
    /\ pumping
    /\ serving' = TRUE
    /\ UNCHANGED <<state, panicking, heating, pumping>>

Release ==
    /\ serving' = FALSE
    /\ UNCHANGED <<state, panicking, heating, pumping>>

Next ==
    \/ EnterStandby
    \/ EnterDisabled
    \/ EnterEnabled
    \/ GoOffline
    \/ \E t \in Threads : Fault(t) \/ EndPanic(t)
    \/ \E on \in BOOLEAN : PowerHeating(on) \/ PowerPump(on)
    \/ Serve
    \/ Release

Spec == Init /\ [][Next]_vars
=============================================================================
