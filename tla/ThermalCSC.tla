----------------------------- MODULE ThermalCSC -----------------------------
(***************************************************************************)
(* The M1M3 Thermal CSC daemon: the SAL commands the controller thread     *)
(* executes one after the other, the summary state they move, and the      *)
(* EGW pump thread that may fault the whole CSC at any moment.             *)
(*                                                                         *)
(* A task is the sequence of the calls its run()/execute() makes; every    *)
(* call is one step, so that the steps of the two threads interleave       *)
(* between any two calls.  A call that throws continues in the catch block *)
(* the code has around it, or ends the task.                               *)
(***************************************************************************)
EXTENDS Naturals, Sequences

CONSTANTS
    Commands,       \* the SAL commands a client may send
    PumpConfigs,    \* values GlycolPump.Enabled of _init.yaml may have
    FifoMayFail,    \* a write to the FPGA command FIFO may throw
    BusMayFail,     \* a Modbus exchange with the FCU ILCs may throw
    ValveMayFault,  \* FinerControl::get_target may fault the CSC
    MaxUpdates      \* bound on Update tasks waiting in the controller queue

SALCommands ==
    {"start", "enable", "disable", "standby", "exitControl",
     "engineeringOn", "engineeringOff", "fanCoilsOn", "fanCoilsOff",
     "heaterFanDemand", "setMixingValve", "coolantPumpOn", "coolantPumpOff",
     "coolantPumpStart", "coolantPumpStop", "coolantPumpFrequency",
     "coolantPumpReset", "applySetpoints"}

ASSUME CommandsAssumption == Commands \subseteq SALCommands
ASSUME PumpConfigsAssumption == PumpConfigs \subseteq BOOLEAN
ASSUME FlagsAssumption ==
    FifoMayFail \in BOOLEAN /\ BusMayFail \in BOOLEAN /\ ValveMayFault \in BOOLEAN
ASSUME MaxUpdatesAssumption == MaxUpdates \in Nat

VARIABLES
    summaryState,     \* Events::SummaryState
    engineeringMode,  \* Events::EngineeringMode
    errorCode,        \* Events::ErrorCode holds an error (not NoFault)
    pumpEnabled,      \* Settings::GlycolPump::enabled, as last loaded
    setpoints,        \* Events::AppliedSetpoints::is_valid()
    air,              \* the above mirror temperature was measured
    fcuPower,         \* power of the fan coil units' heaters and fans
    pumpPower,        \* power of the EGW pump
    valve,            \* the mixing valve position last commanded
    finer,            \* FinerControl: what its state makes the next poll command
    finerLock,        \* FinerControl::_lock is held across calls by a thread
    pumpThread,       \* TSPublisher::pump_thread
    updates,          \* Update tasks in the controller queue
    doing,            \* the task each thread is running
    at,               \* the call of that task it is about to make
    acks,             \* acknowledgements the running command has sent
    process           \* the daemon

state == <<summaryState, engineeringMode, errorCode>>
setup == <<pumpEnabled, setpoints, air>>
plant == <<fcuPower, pumpPower, valve>>
finerVars == <<finer, finerLock>>
control == <<doing, at, acks>>
vars == <<state, setup, plant, finerVars, control, pumpThread, updates, process>>

Threads == {"controller", "pump"}

-----------------------------------------------------------------------------
(* Tasks as sequences of calls *)

StartBody ==
    <<"load", "clearError", "finerClose", "closeValve", "reportServerID",
      "checkPump", "pumpPowerOn", "startPumpThread", "toDisabled",
      "leaveEngineering", "applySaved", "ackComplete">>

\* Mutant: the command is acknowledged before the state is switched.
EnableBodyEarlyAck ==
    <<"fcuPowerOn", "startupPump", "defaultSetpoints", "ackComplete", "toEnabled">>

EnableBody ==
    <<"fcuPowerOn", "startupPump", "defaultSetpoints", "toEnabled", "ackComplete">>

DisableBody ==
    <<"zeroDemand", "closeValve", "fcuPowerOff", "finerClose", "toDisabled",
      "ackComplete">>

\* Mutants: the pump loses power before its thread is stopped; it keeps its power;
\* the state is switched before the pump is taken down.
StandbyBodyPowerFirst == <<"pumpPowerOff", "stopPumpThread", "toStandby", "ackComplete">>
StandbyBodyKeepsPower == <<"stopPumpThread", "toStandby", "ackComplete">>
StandbyBodyStateFirst == <<"toStandby", "stopPumpThread", "pumpPowerOff", "ackComplete">>

StandbyBody == <<"stopPumpThread", "pumpPowerOff", "toStandby", "ackComplete">>

CoolantPumpOnBody == <<"pumpPowerOn", "startPumpThread", "ackComplete">>

CoolantPumpOffBody == <<"pumpPowerOff", "stopPumpThread", "ackComplete">>

\* Mutants: the error is reported before the state is switched; the plant is shut
\* down before it; the FCUs keep their power.
FailBodyErrorFirst ==
    <<"setError", "toFault", "finerFault", "closeValve", "fcuPowerOff", "zeroDemand">>
FailBodyPanicFirst ==
    <<"finerFault", "closeValve", "fcuPowerOff", "zeroDemand", "toFault", "setError">>
FailBodyKeepsPower == <<"toFault", "setError", "finerFault", "closeValve", "zeroDemand">>

FailBody ==
    <<"toFault", "setError", "finerFault", "closeValve", "fcuPowerOff", "zeroDemand">>

UpdateBody == <<"getTarget", "openValve", "closeValve">>

\* The calls of every task, those of the short ones in place.  An
\* acknowledgement is the last call of the commands that send one.
Body ==
    [start                |-> StartBody,
     enable               |-> EnableBody,
     disable              |-> DisableBody,
     standby              |-> StandbyBody,
     exitControl          |-> <<"requestExit", "ackComplete">>,
     engineeringOn        |-> <<"enterEngineering", "ackComplete">>,
     engineeringOff       |-> <<"leaveEngineering", "ackComplete">>,
     fanCoilsOn           |-> <<"fcuPowerOn">>,
     fanCoilsOff          |-> <<"fcuPowerOff">>,
     heaterFanDemand      |-> <<"setDemand", "ackComplete">>,
     setMixingValve       |-> <<"finerDemand", "ackComplete">>,
     coolantPumpOn        |-> CoolantPumpOnBody,
     coolantPumpOff       |-> CoolantPumpOffBody,
     coolantPumpStart     |-> <<"pumpRequest", "ackComplete">>,
     coolantPumpStop      |-> <<"pumpRequest", "ackComplete">>,
     coolantPumpFrequency |-> <<"pumpRequest", "ackComplete">>,
     coolantPumpReset     |-> <<"pumpRequest", "ackComplete">>,
     applySetpoints       |-> <<"setSetpoints">>,
     enterControl         |-> <<"toStandby">>,
     reload               |-> <<"load">>,
     update               |-> UpdateBody,
     fail                 |-> FailBody,
     idle                 |-> <<>>]

Tasks == DOMAIN Body

\* Mutant: a throwing call is skipped and the task goes on past its end.
CatchAtPastEnd(task, i) == Len(Body[task]) + 2

\* Where the task continues when its i-th call throws: the end of the task,
\* except for the try blocks of disable and of start.
CatchAt(task, i) ==
    IF task = "disable" /\ i = 1 THEN 2
    ELSE IF task = "disable" /\ i \in 2..4 THEN 5
    ELSE IF task = "start" /\ i = 5 THEN 6
    ELSE Len(Body[task]) + 1

\* A command that throws fails its acknowledgement, unless it only warns.
FailsAck(task, i) == task \in SALCommands /\ ~(task = "disable" /\ i \in 1..4)

Active == summaryState \in {"Disabled", "Enabled"}

\* The validate() of each command: what it needs to be executed at all.
Validates(command) ==
    /\ command \in {"engineeringOn", "engineeringOff", "setMixingValve"} => Active
    /\ command \in {"fanCoilsOn", "fanCoilsOff", "heaterFanDemand"} =>
            summaryState = "Enabled"
    /\ command \in {"coolantPumpOn", "coolantPumpOff"} => engineeringMode
    /\ command = "coolantPumpStart" => pumpThread # "null"
    /\ command = "applySetpoints" => Active /\ air

-----------------------------------------------------------------------------
(* Initial states: the controller starts with the EnterControl task *)

Init ==
    /\ summaryState = "Offline"
    /\ engineeringMode = FALSE
    /\ errorCode = FALSE
    /\ pumpEnabled = FALSE
    /\ setpoints = FALSE
    /\ air = FALSE
    /\ fcuPower = FALSE
    /\ pumpPower = FALSE
    /\ valve = "closed"
    /\ finer = "closed"
    /\ finerLock = FALSE
    /\ pumpThread = "null"
    /\ updates = 0
    /\ doing = [t \in Threads |-> IF t = "controller" THEN "enterControl" ELSE "idle"]
    /\ at = [t \in Threads |-> 1]
    /\ acks = <<>>
    /\ process = "running"

-----------------------------------------------------------------------------
(* Moving through a task *)

Calling(t, call) ==
    /\ at[t] \in 1..Len(Body[doing[t]])
    /\ Body[doing[t]][at[t]] = call

Goto(t, i) == at' = [at EXCEPT ![t] = i] /\ UNCHANGED doing

Return(t) == Goto(t, at[t] + 1) /\ UNCHANGED acks

Throw(t) ==
    /\ Goto(t, CatchAt(doing[t], at[t]))
    /\ acks' = IF FailsAck(doing[t], at[t]) THEN Append(acks, "failed") ELSE acks

Begin(t, task) ==
    /\ doing[t] = "idle"
    /\ doing' = [doing EXCEPT ![t] = task]
    /\ at' = [at EXCEPT ![t] = 1]
    /\ UNCHANGED acks

-----------------------------------------------------------------------------
(* SummaryState::_switch_state and the tasks that call it *)

\* The states each state is entered from.
From ==
    [Disabled |-> {"Standby", "Enabled"},
     Enabled  |-> {"Disabled"},
     Standby  |-> {"Disabled", "Offline", "Fault"},
     Offline  |-> {"Standby"},
     Fault    |-> {"Offline", "Standby", "Disabled", "Enabled", "Fault"}]

CanSwitch(new) == summaryState \in From[new]

SwitchState(t, call, new) ==
    /\ Calling(t, call)
    /\ IF CanSwitch(new)
          THEN summaryState' = new /\ Return(t)
          ELSE UNCHANGED summaryState /\ Throw(t)
    /\ UNCHANGED <<engineeringMode, errorCode, setup, plant, finerVars, pumpThread,
                   updates, process>>

SetErrorCode(t, call, error) ==
    /\ Calling(t, call)
    /\ errorCode' = error
    /\ Return(t)
    /\ UNCHANGED <<summaryState, engineeringMode, setup, plant, finerVars, pumpThread,
                   updates, process>>

SetEngineeringMode(t, call, on) ==
    /\ Calling(t, call)
    /\ engineeringMode' = on
    /\ Return(t)
    /\ UNCHANGED <<summaryState, errorCode, setup, plant, finerVars, pumpThread,
                   updates, process>>

-----------------------------------------------------------------------------
(* Writes to the FPGA command FIFO *)

SetFCUPower(t, call, on) ==
    /\ Calling(t, call)
    /\ \/ fcuPower' = on /\ Return(t)
       \/ FifoMayFail /\ UNCHANGED fcuPower /\ Throw(t)
    /\ UNCHANGED <<state, setup, pumpPower, valve, finerVars, pumpThread,
                   updates, process>>

SetCoolantPumpPower(t, call, on) ==
    /\ Calling(t, call)
    /\ \/ pumpPower' = on /\ Return(t)
       \/ FifoMayFail /\ UNCHANGED pumpPower /\ Throw(t)
    /\ UNCHANGED <<state, setup, fcuPower, valve, finerVars, pumpThread,
                   updates, process>>

CloseValve(t) ==
    /\ Calling(t, "closeValve")
    /\ \/ valve' = "closed" /\ Return(t)
       \/ FifoMayFail /\ UNCHANGED valve /\ Throw(t)
    /\ UNCHANGED <<state, setup, fcuPower, pumpPower, finerVars, pumpThread,
                   updates, process>>

\* FcuTargets::set_FCU_heaters_fans; the demands themselves are not modelled.
\* panic() and disable swallow the exception of a failed exchange.
SendDemand(t, call) ==
    /\ Calling(t, call)
    /\ Return(t) \/ (BusMayFail /\ Throw(t))
    /\ UNCHANGED <<state, setup, plant, finerVars, pumpThread, updates, process>>

-----------------------------------------------------------------------------
(* FinerControl: set_target, and the poll of the Update task.  The mutex is  *)
(* held only while a call runs, but get_target calls SummaryState::fail with *)
(* it held, and fail ends in a set_target that locks it again.               *)

\* What set_target(0) leaves: an unchanged demand is ignored, a small move (and
\* any move from the NAN a fault left) first compensates away from closed.
Closing ==
    IF finer = "open" THEN {"closed", "closing"}
    ELSE IF finer = "faulted" THEN {"closing"}
    ELSE {finer}

\* Mutant: set_target returns with the mutex held.
SetFinerTargetKeepsLock(t, call, new) ==
    /\ Calling(t, call)
    /\ ~finerLock
    /\ finer' \in new
    /\ finerLock' = TRUE
    /\ Return(t)
    /\ UNCHANGED <<state, setup, plant, pumpThread, updates, process>>

SetFinerTarget(t, call, new) ==
    /\ Calling(t, call)
    /\ ~finerLock
    /\ finer' \in new
    /\ Return(t)
    /\ UNCHANGED <<state, setup, plant, finerLock, pumpThread, updates, process>>

\* get_target returned NAN, or the position could not be read.
GetTargetNone(t) ==
    /\ Calling(t, "getTarget")
    /\ ~finerLock
    /\ Goto(t, Len(Body[doing[t]]) + 1)
    /\ UNCHANGED <<acks, state, setup, plant, finerVars, pumpThread, updates, process>>

GetTargetOpen(t) ==
    /\ Calling(t, "getTarget")
    /\ ~finerLock
    /\ finer \in {"open", "closing"}
    /\ Return(t)
    /\ UNCHANGED <<state, setup, plant, finerVars, pumpThread, updates, process>>

\* The leg away from closed may have just ended; one to an open demand may begin
\* with the valve closed.
GetTargetClosed(t) ==
    /\ Calling(t, "getTarget")
    /\ ~finerLock
    /\ finer # "faulted"
    /\ finer' = IF finer = "open" THEN "open" ELSE "closed"
    /\ Goto(t, at[t] + 2)
    /\ UNCHANGED <<acks, state, setup, plant, finerLock, pumpThread, updates, process>>

\* The valve timed out or left its target: fail() runs with the mutex held.
GetTargetFails(t) ==
    /\ ValveMayFault
    /\ Calling(t, "getTarget")
    /\ ~finerLock
    /\ finer # "faulted"
    /\ finerLock' = TRUE
    /\ doing' = [doing EXCEPT ![t] = "fail"]
    /\ at' = [at EXCEPT ![t] = 1]
    /\ UNCHANGED <<acks, state, setup, plant, finer, pumpThread, updates, process>>

\* MixingValve::sendPosition commands the value get_target returned.
OpenValve(t) ==
    /\ Calling(t, "openValve")
    /\ \/ valve' = "open"
       \/ FifoMayFail /\ UNCHANGED valve
    /\ Goto(t, Len(Body[doing[t]]) + 1)
    /\ UNCHANGED <<acks, state, setup, fcuPower, pumpPower, finerVars,
                   pumpThread, updates, process>>

-----------------------------------------------------------------------------
(* The pump thread: TSPublisher's start, stop and requests.                  *)

\* Thread::stop() clears keepRunning: the thread ends after the iteration it is
\* in, which may still call fail() ...
RequestStop(t) ==
    /\ Calling(t, "startPumpThread") \/ Calling(t, "stopPumpThread")
    /\ pumpThread = "running"
    /\ pumpThread' = "stopping"
    /\ UNCHANGED <<state, setup, plant, finerVars, control, updates, process>>

\* ... and joins it.
\* Mutant: the thread is deleted without waiting for its last iteration.
JoinedAtOnce == pumpThread # "running"

Joined == doing["pump"] = "idle" /\ pumpThread # "running"

StartPumpThread(t) ==
    /\ Calling(t, "startPumpThread")
    /\ Joined
    /\ pumpThread' = "running"
    /\ Return(t)
    /\ UNCHANGED <<state, setup, plant, finerVars, updates, process>>

StopPumpThread(t) ==
    /\ Calling(t, "stopPumpThread")
    /\ Joined
    /\ pumpThread' = "null"
    /\ Return(t)
    /\ UNCHANGED <<state, setup, plant, finerVars, updates, process>>

\* A request through the pump_thread pointer, which nobody checks.
PumpRequest(t, call, needed) ==
    /\ Calling(t, call)
    /\ IF needed /\ pumpThread = "null"
          THEN process' = "crashed" /\ UNCHANGED control
          ELSE Return(t) /\ UNCHANGED process
    /\ UNCHANGED <<state, setup, plant, finerVars, pumpThread, updates>>

-----------------------------------------------------------------------------
(* The other calls of the commands *)

\* Settings::Controller::load: a later section may throw after GlycolPump's.
LoadSettings(t) ==
    /\ Calling(t, "load")
    /\ pumpEnabled' \in PumpConfigs \cup {pumpEnabled}
    /\ \/ pumpEnabled' \in PumpConfigs /\ Return(t)
       \/ Throw(t)
    /\ UNCHANGED <<state, setpoints, air, plant, finerVars, pumpThread,
                   updates, process>>

ReportServerID(t) ==
    /\ Calling(t, "reportServerID")
    /\ Return(t) \/ (BusMayFail /\ Throw(t))
    /\ UNCHANGED <<state, setup, plant, finerVars, pumpThread, updates, process>>

\* start skips setCoolantPumpPower and startPumpThread without a pump.
CheckPump(t) ==
    /\ Calling(t, "checkPump")
    /\ Goto(t, IF pumpEnabled THEN at[t] + 1 ELSE at[t] + 3)
    /\ UNCHANGED <<acks, state, setup, plant, finerVars, pumpThread, updates, process>>

\* The saved setpoints are NAN when there are none, or they are too old.
ApplySaved(t) ==
    /\ Calling(t, "applySaved")
    /\ setpoints' \in BOOLEAN
    /\ Return(t)
    /\ UNCHANGED <<state, pumpEnabled, air, plant, finerVars, pumpThread,
                   updates, process>>

DefaultSetpoints(t) ==
    /\ Calling(t, "defaultSetpoints")
    /\ IF setpoints \/ air
          THEN setpoints' = TRUE /\ Return(t)
          ELSE UNCHANGED setpoints /\ Throw(t)
    /\ UNCHANGED <<state, pumpEnabled, air, plant, finerVars, pumpThread,
                   updates, process>>

\* Tasks::Controller::set_setpoints; the control loops it queues are not modelled.
SetSetpoints(t) ==
    /\ Calling(t, "setSetpoints")
    /\ setpoints' = TRUE
    /\ Return(t)
    /\ UNCHANGED <<state, pumpEnabled, air, plant, finerVars, pumpThread, updates,
                   process>>

RequestExit(t) ==
    /\ Calling(t, "requestExit")
    /\ process' = "exiting"
    /\ Return(t)
    /\ UNCHANGED <<state, setup, plant, finerVars, pumpThread, updates>>

AckComplete(t) ==
    /\ Calling(t, "ackComplete")
    /\ acks' = Append(acks, "complete")
    /\ Goto(t, at[t] + 1)
    /\ UNCHANGED <<state, setup, plant, finerVars, pumpThread, updates, process>>

-----------------------------------------------------------------------------
(* Steps of a thread *)

Switch(t) ==
    \/ SwitchState(t, "toDisabled", "Disabled")
    \/ SwitchState(t, "toEnabled", "Enabled")
    \/ SwitchState(t, "toStandby", "Standby")
    \/ SwitchState(t, "toFault", "Fault")

Report(t) ==
    \/ SetErrorCode(t, "clearError", FALSE)
    \/ SetErrorCode(t, "setError", TRUE)
    \/ SetEngineeringMode(t, "enterEngineering", TRUE)
    \/ SetEngineeringMode(t, "leaveEngineering", FALSE)
    \/ AckComplete(t)
    \/ RequestExit(t)

Drive(t) ==
    \/ SetFCUPower(t, "fcuPowerOn", TRUE)
    \/ SetFCUPower(t, "fcuPowerOff", FALSE)
    \/ SetCoolantPumpPower(t, "pumpPowerOn", TRUE)
    \/ SetCoolantPumpPower(t, "pumpPowerOff", FALSE)
    \/ CloseValve(t)
    \/ OpenValve(t)
    \/ SendDemand(t, "setDemand")
    \/ SendDemand(t, "zeroDemand")

Finer(t) ==
    \/ SetFinerTarget(t, "finerDemand", {"open"} \cup Closing)
    \/ SetFinerTarget(t, "finerClose", Closing)
    \/ SetFinerTarget(t, "finerFault", {"faulted"})
    \/ GetTargetNone(t)
    \/ GetTargetOpen(t)
    \/ GetTargetClosed(t)
    \/ GetTargetFails(t)

Configure(t) ==
    \/ LoadSettings(t)
    \/ ReportServerID(t)
    \/ CheckPump(t)
    \/ ApplySaved(t)
    \/ DefaultSetpoints(t)
    \/ SetSetpoints(t)

Pump(t) ==
    \/ RequestStop(t)
    \/ StartPumpThread(t)
    \/ StopPumpThread(t)
    \/ PumpRequest(t, "startupPump", pumpEnabled)
    \/ PumpRequest(t, "pumpRequest", TRUE)

Finish(t) ==
    /\ doing[t] # "idle"
    /\ at[t] = Len(Body[doing[t]]) + 1
    /\ doing' = [doing EXCEPT ![t] = "idle"]
    /\ at' = [at EXCEPT ![t] = 1]
    /\ acks' = IF t = "controller" THEN <<>> ELSE acks
    /\ pumpThread' \in IF t = "pump" THEN {pumpThread, "ended"} ELSE {pumpThread}
    /\ t = "pump" /\ pumpThread = "stopping" => pumpThread' = "ended"
    /\ UNCHANGED <<state, setup, plant, finerVars, updates, process>>

Alive == process \notin {"crashed", "exited"}

Step(t) ==
    /\ Alive
    /\ \/ Switch(t)
       \/ Report(t)
       \/ Drive(t)
       \/ Finer(t)
       \/ Configure(t)
       \/ Pump(t)
       \/ Finish(t)

-----------------------------------------------------------------------------
(* What the controller thread takes from its queue *)

Accepting == process \in {"running", "exiting"}

BeginCommand(command) ==
    /\ Accepting
    /\ Validates(command)
    /\ Begin("controller", command)
    /\ UNCHANGED <<state, setup, plant, finerVars, pumpThread, updates, process>>

BeginUpdate ==
    /\ Accepting
    /\ updates > 0
    /\ updates' = updates - 1
    /\ Begin("controller", "update")
    /\ UNCHANGED <<state, setup, plant, finerVars, pumpThread, process>>

\* SIGUSR1
BeginReload ==
    /\ Accepting
    /\ Begin("controller", "reload")
    /\ UNCHANGED <<state, setup, plant, finerVars, pumpThread, updates, process>>

-----------------------------------------------------------------------------
(* The other threads *)

\* The pump thread reaches SummaryState::fail for any of its reasons.
PumpFault ==
    /\ Alive
    /\ pumpThread \in {"running", "stopping"}
    /\ Begin("pump", "fail")
    /\ UNCHANGED <<state, setup, plant, finerVars, pumpThread, updates, process>>

OuterLoopClock ==
    /\ Accepting
    /\ Active
    /\ updates < MaxUpdates
    /\ updates' = updates + 1
    /\ UNCHANGED <<state, setup, plant, finerVars, control, pumpThread, process>>

\* GlycolTemperatureThread::updated: in an active state the air temperature is
\* stored.
TemperatureUpdate ==
    /\ Alive
    /\ Active
    /\ air' = TRUE
    /\ UNCHANGED <<state, pumpEnabled, setpoints, plant, finerVars, control,
                   pumpThread, updates, process>>

\* The main thread, done(): Offline if in Standby (never Offline already)...
Done ==
    /\ process = "exiting"
    /\ process' = "stopping"
    /\ summaryState' = IF CanSwitch("Offline") THEN "Offline" ELSE summaryState
    /\ UNCHANGED <<engineeringMode, errorCode, setup, plant, finerVars, control,
                   pumpThread, updates>>

\* ... then the controller thread is joined, and the pump thread stopped...
StopThreads ==
    /\ process = "stopping"
    /\ doing["controller"] = "idle"
    /\ pumpThread = "running"
    /\ pumpThread' = "stopping"
    /\ UNCHANGED <<state, setup, plant, finerVars, control, updates, process>>

\* ... and joined.
Exit ==
    /\ process = "stopping"
    /\ doing["controller"] = "idle"
    /\ Joined
    /\ process' = "exited"
    /\ pumpThread' = "null"
    /\ UNCHANGED <<state, setup, plant, finerVars, control, updates>>

Environment ==
    \/ PumpFault
    \/ OuterLoopClock
    \/ TemperatureUpdate
    \/ Done
    \/ StopThreads
    \/ Exit

Next ==
    \/ \E t \in Threads : Step(t)
    \/ \E command \in Commands : BeginCommand(command)
    \/ BeginUpdate
    \/ BeginReload
    \/ Environment

Spec == Init /\ [][Next]_vars

\* A task a thread has begun is carried on: nothing suspends a thread for ever.
Fairness == \A t \in Threads : WF_vars(Step(t))

FairSpec == Spec /\ Fairness

-----------------------------------------------------------------------------
(* Type invariant *)

PlantOK ==
    /\ summaryState \in {"Offline", "Standby", "Disabled", "Enabled", "Fault"}
    /\ engineeringMode \in BOOLEAN
    /\ errorCode \in BOOLEAN
    /\ pumpEnabled \in BOOLEAN
    /\ setpoints \in BOOLEAN
    /\ air \in BOOLEAN
    /\ fcuPower \in BOOLEAN
    /\ pumpPower \in BOOLEAN
    /\ valve \in {"closed", "open"}
    /\ finer \in {"faulted", "closed", "closing", "open"}
    /\ finerLock \in BOOLEAN
    /\ pumpThread \in {"null", "running", "stopping", "ended"}
    /\ updates \in 0..MaxUpdates
    /\ process \in {"running", "exiting", "stopping", "exited", "crashed"}

ControlOK ==
    /\ doing \in [Threads -> Tasks]
    /\ at \in [Threads -> Nat]
    /\ \A t \in Threads : at[t] \in 1..(Len(Body[doing[t]]) + 1)
    /\ acks \in Seq({"complete", "failed"})

\* Every variable holds a value of its kind, and a thread is never past the end
\* of the task it runs.
TypeOK == PlantOK /\ ControlOK

-----------------------------------------------------------------------------
(* Safety *)

Between(t, task, calls) == doing[t] = task /\ at[t] \in calls

\* The pump thread exists only while the pump has power: standby stops the
\* thread first, start and coolantPumpPower create it last.  Only
\* coolantPumpPower(off) removes the power under a thread it then stops.
PumpThreadPowered ==
    pumpThread # "null" =>
        pumpPower \/ Between("controller", "coolantPumpOff", {2})

\* Version 2.5.0 powers the pump down in Standby.  Outside of the engineering
\* mode (which survives standby) it has power there only while start is between
\* powering it and switching to Disabled - whatever failed or faulted before.
StandbyPumpOff ==
    summaryState = "Standby" /\ ~engineeringMode /\ pumpPower =>
        Between("controller", "start", {8, 9})

\* panic() shuts the plant down only in Fault: no standby or restart of the pump
\* thread can overtake a fail() in progress and have its session shut down by it.
PanicOnlyInFault ==
    \A t \in Threads : doing[t] = "fail" /\ at[t] > 1 => summaryState = "Fault"

\* Whoever is in Thread::stop() of the pump thread waits for the end of its run():
\* the two commands that stop or replace it, and the end of the daemon.
Joining ==
    \/ Calling("controller", "startPumpThread")
    \/ Calling("controller", "stopPumpThread")
    \/ process = "stopping" /\ doing["controller"] = "idle"

\* Whoever waits for the pump thread to end waits without FinerControl's mutex, which
\* that thread's fail() takes: neither the commands that stop or replace the thread
\* nor the end of the daemon can close a circle of waiting threads.
NoCircularWait == Joining => ~finerLock

\* A fault that hits start between clearing the error code and switching to
\* Disabled can not end in a Disabled CSC that still reports an error.
StartedClean ==
    [][/\ Calling("controller", "toDisabled")
       /\ doing["controller"] = "start"
       /\ summaryState # "Disabled" /\ summaryState' = "Disabled"
       => ~errorCode']_vars

\* Whenever enable reaches Enabled, the FCUs have power, the setpoints are valid
\* and an enabled pump is served by a running thread - whichever of its calls a
\* fault of the pump thread interrupted.
EnabledEntry ==
    [][summaryState # "Enabled" /\ summaryState' = "Enabled" =>
        fcuPower /\ setpoints /\ (pumpEnabled => pumpThread = "running")]_vars

\* Fault is left only to Standby, with the pump thread joined and the pump off.
FaultLeft ==
    [][summaryState = "Fault" /\ summaryState' # "Fault" =>
        /\ summaryState' = "Standby"
        /\ pumpThread = "null" /\ doing["pump"] = "idle"
        /\ ~pumpPower]_vars

\* What these commands ask for, or what has come over the CSC since: a fault, or the
\* end of the daemon.
Outcomes ==
    [enable  |-> {"Enabled", "Fault"},
     disable |-> {"Disabled", "Fault"},
     standby |-> {"Standby", "Offline"}]

\* enable, disable and standby are acknowledged exactly once, and completed only
\* if the CSC is in the state they ask for or has since faulted (or gone offline).
AckTellsOutcome ==
    [][\A command \in DOMAIN Outcomes :
        doing["controller"] = command /\ doing'["controller"] = "idle" =>
            /\ Len(acks) = 1
            /\ acks[1] = "complete" => summaryState \in Outcomes[command]]_vars

\* In Fault, with no task running, the mixing valve is closed ("cleanup - close
\* mixing valve" in SummaryState::fail).
FaultClosesValve ==
    summaryState = "Fault" /\ (\A t \in Threads : doing[t] = "idle") => valve = "closed"

-----------------------------------------------------------------------------
(* Refinement *)

Lifecycle == INSTANCE SummaryStateSpec WITH
    state     <- summaryState,
    panicking <- {t \in Threads : doing[t] = "fail" /\ at[t] > 1},
    heating   <- fcuPower,
    pumping   <- pumpPower,
    serving   <- pumpThread # "null"

\* The commands, call by call and interleaved with the faults of the pump thread,
\* keep what SummaryStateSpec promises: above all that Fault is only left when every
\* shutdown it began is over, and Enabled only entered with the FCUs powered.
ImplementsLifecycle == Lifecycle!Spec

-----------------------------------------------------------------------------
(* Liveness *)

\* Every fault, whichever thread raises it, gets to powering down the FCUs (IFPGA.h
\* of panic: "power down the slot"), unless the daemon crashed.  Not that they stay off:
\* an enable the fault came before may still power them.
FaultPowersDownFCU ==
    \A t \in Threads : Between(t, "fail", {1}) ~> (~fcuPower \/ process = "crashed")

\* No thread blocks for ever: joining the pump thread and locking FinerControl
\* never wait on each other, so every task ends.
TasksFinish ==
    \A t \in Threads : doing[t] # "idle" ~> (doing[t] = "idle" \/ process = "crashed")
=============================================================================
