------------------------------- MODULE ValveSpec -------------------------------
(***************************************************************************)
(* What the control of the mixing valve promises, as ThermalCSC relies on  *)
(* it: what the polls of the valve may command after each demand, whatever *)
(* moves that takes.  A closed control does not open the valve, a faulted  *)
(* one commands nothing until the next demand, one that hangs in fail()    *)
(* does nothing ever.                                                      *)
(***************************************************************************)
VARIABLES
    finer,    \* what its state makes the polls command
    valve,    \* the position last commanded
    failing   \* get_target waits in fail() for the lock it holds

vars == <<finer, valve, failing>>

Init ==
    /\ finer = "closed"
    /\ valve = "closed"
    /\ failing = FALSE

\* A demand to close is ignored by a control that closes already; a small move,
\* and any from the NAN a fault left, first goes away from closed.
Closing ==
    IF finer = "open" THEN {"closed", "closing"}
    ELSE IF finer = "faulted" THEN {"closing"}
    ELSE {finer}

\* A write to the FPGA may throw.
Written(position) == valve' \in {valve, position}

Demand ==
    /\ ~failing
    /\ finer' \in {"open"} \cup Closing
    /\ UNCHANGED <<valve, failing>>

Close ==
    /\ ~failing
    /\ finer' \in Closing
    /\ Written("closed")
    /\ UNCHANGED failing

Fault ==
    /\ ~failing
    /\ finer' = "faulted"
    /\ Written("closed")
    /\ UNCHANGED failing

PollOpen ==
    /\ ~failing
    /\ finer \in {"open", "closing"}
    /\ Written("open")
    /\ UNCHANGED <<finer, failing>>

\* Closed for good, or at the end of the first leg to an open demand.
PollClosed ==
    /\ ~failing
    /\ finer # "faulted"
    /\ finer' = IF finer = "open" THEN "open" ELSE "closed"
    /\ Written("closed")
    /\ UNCHANGED failing

PollFails ==
    /\ ~failing
    /\ finer # "faulted"
    /\ failing' = TRUE
    /\ UNCHANGED <<finer, valve>>

Next ==
    \/ Demand
    \/ Close
    \/ Fault
    \/ PollOpen
    \/ PollClosed
    \/ PollFails

Spec == Init /\ [][Next]_vars
=============================================================================
