------------------------------ MODULE BusRecovery ------------------------------
(***************************************************************************)
(* The Modbus of the fan coil units: the exchanges of the commands, of the *)
(* heaters' control loop and of a fault's shutdown through the one list of *)
(* ILC commands they share, and the recovery of ILCs that stopped          *)
(* answering, one step per poll of the Update task.                        *)
(*                                                                         *)
(* Clients send a command only in a state it leads from, and the writes to *)
(* the command FIFO succeed: ThermalCSC is about those.  The summary state *)
(* is the part of it that the bus depends on; a fault is raised by the     *)
(* pump thread.  The power of the FCU slot feeds heaters and fans, not the *)
(* ILCs: the code polls them with it off, in Disabled.                     *)
(***************************************************************************)
EXTENDS Naturals, Sequences

CONSTANTS
    ILCs,        \* the ILCs of the fan coil units
    BusMayFail   \* an exchange may throw for another reason than a missing reply

ASSUME BusMayFailAssumption == BusMayFail \in BOOLEAN

VARIABLES
    summaryState,  \* Events::SummaryState
    busState,      \* Update::_sendFCU, the static _bus_state
    queued,        \* an Update task waits in the controller queue
    serving,       \* the pump thread runs
    list,          \* TSApplication::ilc(): the last mode, whether anything else
    doing,         \* the task each thread is running
    at,            \* the call of that task it makes
    phase,         \* how far its exchange is
    powered,       \* ILCs that answer
    mode,          \* the mode of each ILC
    astray         \* history: an ILC came back, or missed a command, unnoticed

csc == <<summaryState, queued, serving>>
control == <<doing, at>>
units == <<powered, mode>>
vars == <<csc, busState, list, control, phase, units, astray>>

Threads == {"controller", "pump"}

Modes == {"ClearFaults", "Standby", "Disabled", "Enabled"}

\* The enumerators of _bus_state, in the order a recovery goes through them;
\* ENABLED, which TLA+ reserves, is 6.
OK == 0
FAILED == 1
RESET_ERROR == 2
STANDBY == 3
SERVER_ID == 4
DISABLED == 5

BusStates == OK..DISABLED + 1

\* After the last mode of a recovery was set, until one is missed again.
Recovered == busState \in {OK, DISABLED + 1}

EmptyList == [modes |-> {}, others |-> FALSE]

Active == summaryState \in {"Disabled", "Enabled"}

Init ==
    /\ summaryState = "Standby"
    /\ busState = OK
    /\ queued = FALSE
    /\ serving = FALSE
    /\ list = EmptyList
    /\ doing = [t \in Threads |-> "idle"]
    /\ at = [t \in Threads |-> 1]
    /\ phase = [t \in Threads |-> "clear"]
    /\ powered = ILCs
    /\ mode = [i \in ILCs |-> "Standby"]
    /\ astray = FALSE

-----------------------------------------------------------------------------
(* Tasks as sequences of calls: the modes, ServerID, zero, heat and poll are *)
(* exchanges with the ILCs.                                                  *)

\* Mutant: the FCUs are shut down before the state is switched.
PanicBodyShutsFirst == <<"zero", "toFault">>

PanicBody == <<"toFault", "zero">>

Body ==
    [start   |-> <<"Disabled", "ServerID", "serve", "toDisabled">>,
     enable  |-> <<"Enabled", "toEnabled">>,
     disable |-> <<"zero", "Disabled", "toDisabled">>,
     standby |-> <<"join", "ClearFaults", "Standby", "toStandby">>,
     heat    |-> <<"heat">>,
     poll    |-> <<"poll">>,
     panic   |-> PanicBody,
     idle    |-> <<>>]

Tasks == DOMAIN Body

Calling(t, call) ==
    /\ at[t] \in 1..Len(Body[doing[t]])
    /\ Body[doing[t]][at[t]] = call

Exchanges == Modes \cup {"ServerID", "zero", "heat", "poll"}

\* Mutant: a task that ended leaves its last place behind.
ReturnKeepsPlace(t) ==
    IF at[t] < Len(Body[doing[t]])
       THEN at' = [at EXCEPT ![t] = @ + 1] /\ UNCHANGED doing
       ELSE doing' = [doing EXCEPT ![t] = "idle"] /\ UNCHANGED at

\* The next call; a task ends with its last.
Return(t) ==
    IF at[t] < Len(Body[doing[t]])
       THEN at' = [at EXCEPT ![t] = @ + 1] /\ UNCHANGED doing
       ELSE at' = [at EXCEPT ![t] = 1] /\ doing' = [doing EXCEPT ![t] = "idle"]

Begin(t, task) ==
    /\ doing[t] = "idle"
    /\ doing' = [doing EXCEPT ![t] = task]
    /\ UNCHANGED at

-----------------------------------------------------------------------------
(* An exchange, first: the list is cleared, and filled *)

Clear(t) ==
    /\ \E call \in Exchanges : Calling(t, call)
    /\ phase[t] = "clear"
    /\ phase' = [phase EXCEPT ![t] = "fill"]
    /\ list' = EmptyList
    /\ UNCHANGED <<csc, busState, control, units, astray>>

\* Mutant: the modes are set first, and the ILCs identified last.
PollModesFirst(state) ==
    {m \in Modes : <<state, m>> \in {<<FAILED, "ClearFaults">>, <<RESET_ERROR, "Standby">>,
                                    <<STANDBY, "Disabled">>, <<SERVER_ID, "Enabled">>}}

\* The mode a poll sets in a step of the recovery; else it asks for reports.
PollModes(state) ==
    {m \in Modes : <<state, m>> \in {<<FAILED, "ClearFaults">>, <<RESET_ERROR, "Standby">>,
                                    <<SERVER_ID, "Disabled">>, <<DISABLED, "Enabled">>}}

\* The modes and whether any other command a call appends: the mode appended last
\* is the one an ILC ends in.
Appends(modes, others) ==
    list' = [modes |-> IF modes = {} THEN list.modes ELSE modes,
             others |-> list.others \/ others]

Fill(t) ==
    /\ phase[t] = "fill"
    /\ phase' = [phase EXCEPT ![t] = "exchange"]
    /\ \/ \E m \in Modes : Calling(t, m) /\ Appends({m}, FALSE)
       \/ \E call \in {"ServerID", "zero", "heat"} : Calling(t, call) /\ Appends({}, TRUE)
       \/ Calling(t, "poll") /\ Appends(PollModes(busState), PollModes(busState) = {})
    /\ UNCHANGED <<csc, busState, control, units, astray>>

-----------------------------------------------------------------------------
(* ... then its commands are sent and the replies read *)

\* What the ILCs in "takers" make of the list.
Take(takers) ==
    mode' = [i \in ILCs |-> IF i \in takers /\ list.modes # {}
                               THEN CHOOSE m \in list.modes : TRUE ELSE mode[i]]

ChangesMode(t) == \E m \in Modes : Calling(t, m)

\* Mutant: the recovery leaves the ILCs Disabled.
NextStateEndsEarly(state) == IF state \in {OK, SERVER_ID} THEN OK ELSE (state + 1) % 7

\* Mutant: nothing follows FAILED.
NextStateStays(state) == IF state \in {OK, FAILED} THEN state ELSE (state + 1) % 7

NextState(state) == IF state = OK THEN OK ELSE (state + 1) % 7

\* A list that no thread is about to send is dropped here: the next exchange
\* clears it.
Exchange(t) ==
    /\ phase[t] = "exchange"
    /\ phase' = [phase EXCEPT ![t] = "clear"]
    /\ list' = IF \E u \in Threads \ {t} : phase[u] # "clear" THEN list ELSE EmptyList
    /\ Return(t)
    /\ UNCHANGED <<csc, powered>>

\* Everybody answers, or the list was emptied by the other thread.
Answer(t) ==
    /\ list = EmptyList \/ powered = ILCs
    /\ Exchange(t)
    /\ Take(powered)
    /\ busState' = IF Calling(t, "poll") THEN NextState(busState) ELSE busState
    /\ astray' = IF list.modes # {} THEN FALSE ELSE astray

\* Mutant: a missing reply is only logged, by a poll too.
MissingLogged(t) ==
    /\ list # EmptyList /\ powered # ILCs
    /\ Exchange(t)
    /\ Take(powered)
    /\ UNCHANGED <<busState, astray>>

\* A reply is missing: a poll begins the recovery, all others only log it.
Missing(t) ==
    /\ list # EmptyList /\ powered # ILCs
    /\ Exchange(t)
    /\ Take(powered)
    /\ busState' = IF Calling(t, "poll") THEN FAILED ELSE busState
    /\ UNCHANGED astray

\* The exchange throws, before the ILCs were written to or after.
Throw(t) ==
    /\ BusMayFail
    /\ Exchange(t)
    /\ \E takers \in {{}, powered} :
        /\ Take(takers)
        /\ astray' = IF takers = {} /\ ChangesMode(t) THEN TRUE ELSE astray
    /\ UNCHANGED busState

-----------------------------------------------------------------------------
(* The other calls *)

\* set_state; a fault that came meanwhile makes it throw, except to standby, which
\* has joined the pump thread before.
SwitchState(t, call, new) ==
    /\ Calling(t, call)
    /\ summaryState' = IF summaryState = "Fault" /\ new \in {"Disabled", "Enabled"}
                          THEN "Fault" ELSE new
    /\ Return(t)
    /\ UNCHANGED <<queued, serving, busState, list, phase, units, astray>>

\* enable throws without setpoints.
EnableThrows(t) ==
    /\ Calling(t, "toEnabled")
    /\ Return(t)
    /\ UNCHANGED <<csc, busState, list, phase, units, astray>>

\* start: the pump thread.
Serve(t) ==
    /\ Calling(t, "serve")
    /\ serving' = TRUE
    /\ Return(t)
    /\ UNCHANGED <<summaryState, queued, busState, list, phase, units, astray>>

\* standby: the pump thread is stopped and joined, with any fault it raised.
Join(t) ==
    /\ Calling(t, "join")
    /\ doing["pump"] = "idle"
    /\ serving' = FALSE
    /\ Return(t)
    /\ UNCHANGED <<summaryState, queued, busState, list, phase, units, astray>>

Step(t) ==
    \/ Clear(t)
    \/ Fill(t)
    \/ Answer(t)
    \/ Missing(t)
    \/ Throw(t)
    \/ SwitchState(t, "toDisabled", "Disabled")
    \/ SwitchState(t, "toEnabled", "Enabled")
    \/ SwitchState(t, "toStandby", "Standby")
    \/ SwitchState(t, "toFault", "Fault")
    \/ EnableThrows(t)
    \/ Serve(t)
    \/ Join(t)

-----------------------------------------------------------------------------
(* What begins the tasks *)

bus == <<busState, list, phase, units, astray>>

Command(task, from) ==
    /\ summaryState \in from
    /\ Begin("controller", task)
    /\ UNCHANGED <<csc, bus>>

BeginPoll ==
    /\ queued
    /\ queued' = FALSE
    /\ Begin("controller", "poll")
    /\ UNCHANGED <<summaryState, serving, bus>>

\* heaterFanDemand, or the control loop: started in an earlier session, it goes on
\* in every summary state.
BeginHeat ==
    /\ Begin("controller", "heat")
    /\ UNCHANGED <<csc, bus>>

OuterLoopClock ==
    /\ Active
    /\ ~queued
    /\ queued' = TRUE
    /\ UNCHANGED <<summaryState, serving, control, bus>>

\* The thread ends with the fault it raises.
PumpFault ==
    /\ serving
    /\ serving' = FALSE
    /\ Begin("pump", "panic")
    /\ UNCHANGED <<summaryState, queued, bus>>

-----------------------------------------------------------------------------
(* The ILCs *)

PowerLost(i) ==
    /\ i \in powered
    /\ powered' = powered \ {i}
    /\ UNCHANGED <<csc, busState, list, control, phase, mode, astray>>

\* It boots in Standby.  Unless a poll has missed it, and the recovery has still to
\* set the modes, nobody notices.
PowerBack(i) ==
    /\ i \notin powered
    /\ powered' = powered \cup {i}
    /\ mode' = [mode EXCEPT ![i] = "Standby"]
    /\ astray' = IF Recovered THEN TRUE ELSE astray
    /\ UNCHANGED <<csc, busState, list, control, phase>>

Next ==
    \/ \E t \in Threads : Step(t)
    \/ Command("start", {"Standby"})
    \/ Command("enable", {"Disabled"})
    \/ Command("disable", {"Enabled"})
    \/ Command("standby", {"Disabled", "Fault"})
    \/ BeginPoll
    \/ BeginHeat
    \/ OuterLoopClock
    \/ PumpFault
    \/ \E i \in ILCs : PowerLost(i) \/ PowerBack(i)

Spec == Init /\ [][Next]_vars

\* The threads go on and the queued Update runs, whatever else is queued; a poll
\* that could be answered, or could miss a reply, again and again is in the end.
Fairness ==
    /\ \A t \in Threads : WF_vars(Step(t))
    /\ WF_vars(OuterLoopClock)
    /\ SF_vars(BeginPoll)
    /\ SF_vars(Calling("controller", "poll") /\ Answer("controller"))
    /\ SF_vars(Calling("controller", "poll") /\ Missing("controller"))

FairSpec == Spec /\ Fairness

-----------------------------------------------------------------------------
(* Properties *)

CscOK ==
    /\ summaryState \in {"Standby", "Disabled", "Enabled", "Fault"}
    /\ queued \in BOOLEAN
    /\ serving \in BOOLEAN

PlacesOK ==
    /\ doing \in [Threads -> Tasks]
    /\ at \in [Threads -> 1..4]
    /\ phase \in [Threads -> {"clear", "fill", "exchange"}]
    /\ \A t \in Threads :
        /\ doing[t] = "idle" => at[t] = 1
        /\ phase[t] # "clear" => \E call \in Exchanges : Calling(t, call)

BusOK ==
    /\ busState \in BusStates
    /\ list.modes \in SUBSET Modes
    /\ list.others \in BOOLEAN
    /\ powered \in SUBSET ILCs
    /\ mode \in [ILCs -> Modes]
    /\ astray \in BOOLEAN

\* Every variable holds a value of its kind, and a thread is inside of an exchange
\* only at a call that makes one.
TypeOK == CscOK /\ PlacesOK /\ BusOK

\* What a call appends to an empty list.
Asked(call) ==
    LET modes == IF call \in Modes THEN {call}
                 ELSE IF call = "poll" THEN PollModes(busState) ELSE {}
    IN  [modes |-> modes, others |-> modes = {}]

\* The list is shared, and locked by nobody; yet the controller sends exactly what it
\* has put in, in every state but Fault: no panic() empties it, so that a poll would
\* count silent ILCs as answering, and none mixes its commands into it.
OwnCommands ==
    summaryState # "Fault" /\ phase["controller"] = "exchange" =>
        \A call \in Exchanges : Calling("controller", call) => list = Asked(call)

Settled == doing["controller"] = "idle" /\ busState = OK

\* In Enabled, whatever commands and losses of the bus the recovery was mixed with,
\* every ILC is Enabled again that answers, unless nobody noticed it was away.
EnabledModes ==
    summaryState = "Enabled" /\ Settled /\ ~astray =>
        \A i \in powered : mode[i] = "Enabled"

\* In every state but Fault, the ILCs agree on their mode.
ModesAgree ==
    summaryState # "Fault" /\ Settled /\ ~astray =>
        \A i, j \in powered : mode[i] = mode[j]

\* "Auto-recover ILCs after bus failure": a recovery ends, while the CSC stays
\* active and no ILC is silent.
RecoveryEnds ==
    busState # OK ~> (busState = OK \/ ~Active \/ powered # ILCs)

\* Silence that lasts is noticed, however commands and the control loop use the
\* bus meanwhile.
SilenceNoticed ==
    powered # ILCs ~> (busState = FAILED \/ ~Active \/ powered = ILCs)
=============================================================================
