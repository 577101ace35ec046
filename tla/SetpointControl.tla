---------------------------- MODULE SetpointControl ----------------------------
(***************************************************************************)
(* The glycol and heaters setpoints: who applies them, the control loops   *)
(* Tasks::Controller starts for them, the supervision of the glycol        *)
(* setpoint by the temperature thread, and the file that saves them.       *)
(*                                                                         *)
(* Temperatures are integers.  The controller and the temperature thread   *)
(* both call Tasks::Controller::set_setpoints.                             *)
(***************************************************************************)
EXTENDS Integers, FiniteSets

CONSTANTS
    NaN,              \* a temperature that is not known
    AirTemperatures,  \* above the mirror, NaN included if the sensor may fail
    Requests,         \* [glycol, heaters] of applySetpoints, within Low..High
    Files,            \* what saved_setpoints.yaml may hold when the daemon starts
    SafetyRange,      \* Setpoint.Safety settings of _init.yaml
    MinOffset,
    HeatersOffset,
    MaxViolations,
    ErrorLimit,       \* failed reads of the sensors in a row, 10 in the code
    InitialErrors,    \* what receiving_error_count, never initialized, may hold
    ClearGlycol,      \* MixingValve.ClearPIDs settings
    ClearHeaters,
    MaxCalls          \* bound on the calls of set_setpoints

Temperatures == Int \cup {NaN}
Setpoints == [glycol : Temperatures, heaters : Temperatures]
NoSetpoints == [glycol |-> NaN, heaters |-> NaN]

\* A saved file: nothing, one the daemon wrote, or one whose date a zone follows.
SavedFiles == [stamp : {"none", "own", "zoned"}, setpoints : Setpoints]

ASSUME NaNAssumption == NaN \notin Int
ASSUME TemperaturesAssumption == AirTemperatures \subseteq Temperatures
ASSUME RequestsAssumption == Requests \subseteq [glycol : Int, heaters : Int]
ASSUME FilesAssumption ==
    /\ Files \subseteq SavedFiles
    /\ \A f \in Files : f.stamp # "own"
ASSUME SafetyAssumption ==
    /\ SafetyRange \in Nat
    /\ MinOffset \in Nat
    /\ MinOffset <= 2 * SafetyRange
    /\ HeatersOffset \in Int
    /\ MaxViolations \in Int
    /\ ErrorLimit \in Nat
    /\ InitialErrors \subseteq 0..(ErrorLimit + 1)
ASSUME ClearAssumption == ClearGlycol \in Nat /\ ClearHeaters \in Nat
ASSUME MaxCallsAssumption == MaxCalls \in Nat

VARIABLES
    summaryState,  \* Events::SummaryState
    engineering,   \* Events::EngineeringMode
    applied,       \* Events::AppliedSetpoints
    setBy,         \* who applied them last
    file,          \* saved_setpoints.yaml
    loaded,        \* the settings were loaded once
    errors,        \* GlycolTemperature: receiving_error_count, kept at ErrorLimit + 1
    air,           \* GlycolLoopTemperature: above mirror temperature
    coolant,       \* it knows the coolant supply and return temperatures
    violations,    \* its _safety_violations_count
    queue,         \* control loops in the controller's queue, as task numbers
    running,       \* the one the controller has taken off it and runs, 0 for none
    overtaken,     \* those that were replaced while they ran
    created,       \* calls of set_setpoints so far: each may create two tasks
    glycolTask,    \* Tasks::Controller::_glycol_temperature_task, 0 for nullptr
    heatersTask,   \* _heaters_temperature_task
    at,            \* where each thread is in set_setpoints
    argument       \* what it was called with

session == <<summaryState, engineering, loaded>>
measured == <<errors, air, coolant, violations>>
loops == <<queue, running, overtaken, created, glycolTask, heatersTask>>
calls == <<at, argument>>
vars == <<session, applied, setBy, file, measured, loops, calls>>

Threads == {"controller", "temperature"}

Init ==
    /\ summaryState = "Standby"
    /\ engineering = FALSE
    /\ applied = NoSetpoints
    /\ setBy = "nobody"
    /\ file \in Files
    /\ loaded = FALSE
    /\ errors \in InitialErrors
    /\ air = NaN
    /\ coolant = FALSE
    /\ violations = 0
    /\ queue = {}
    /\ running = 0
    /\ overtaken = {}
    /\ created = 0
    /\ glycolTask = 0
    /\ heatersTask = 0
    /\ at = [t \in Threads |-> "idle"]
    /\ argument = [t \in Threads |-> NoSetpoints]

-----------------------------------------------------------------------------
(* The session: the commands that change the state, and faults              *)

Active == summaryState \in {"Disabled", "Enabled"}

\* The controller runs one task after the other, commands and loops.
Free == at["controller"] = "idle" /\ running = 0

Valid(setpoints) == setpoints.glycol # NaN /\ setpoints.heaters # NaN

Applies(setpoints, who) ==
    /\ applied' = setpoints
    /\ setBy' = who

\* SavedSetpoints::load: a date that ends the string is an "Invalid date" and gets
\* the year 1900, so that valid setpoints are too old; the check for an age is
\* made of valid setpoints only, and others are kept as they are.
Restored ==
    IF file.stamp = "none" THEN {NoSetpoints}
    ELSE IF ~Valid(file.setpoints) THEN {file.setpoints}
    ELSE IF file.stamp = "own" THEN {NoSetpoints}
    ELSE {file.setpoints, NoSetpoints}

\* The rest of start is in ThermalCSC.
Start ==
    /\ Free
    /\ summaryState \in {"Standby", "Enabled"}
    /\ summaryState' = "Disabled"
    /\ engineering' = FALSE
    /\ loaded' = TRUE
    /\ \E setpoints \in Restored : Applies(setpoints, "start")
    /\ UNCHANGED <<file, measured, loops, calls>>

Default == [glycol |-> air - 2, heaters |-> air - 1]

\* Mutant: the state is switched although there is no temperature for a default.
EnableSwitchesFirst ==
    /\ Free
    /\ summaryState' = IF summaryState = "Disabled" THEN "Enabled" ELSE summaryState
    /\ IF Valid(applied) \/ air = NaN
          THEN UNCHANGED <<applied, setBy>>
          ELSE Applies(Default, "enable")
    /\ UNCHANGED <<engineering, loaded, file, measured, loops, calls>>

\* enable applies a default before it may be refused.  It throws without an air
\* temperature, and never starts a control loop.
Enable ==
    /\ Free
    /\ IF Valid(applied)
          THEN UNCHANGED <<applied, setBy>>
          ELSE air # NaN /\ Applies(Default, "enable")
    /\ summaryState' = IF summaryState = "Disabled" THEN "Enabled" ELSE summaryState
    /\ UNCHANGED <<engineering, loaded, file, measured, loops, calls>>

\* Disabling from Standby without any start is left out: there are no settings.
Disable ==
    /\ Free
    /\ summaryState \in {"Standby", "Enabled"}
    /\ loaded
    /\ summaryState' = "Disabled"
    /\ UNCHANGED <<engineering, loaded, applied, setBy, file, measured, loops, calls>>

Standby ==
    /\ Free
    /\ summaryState \in {"Disabled", "Fault"}
    /\ summaryState' = "Standby"
    /\ UNCHANGED <<engineering, loaded, applied, setBy, file, measured, loops, calls>>

\* The pump thread: the control loops are not told.
Fault ==
    /\ Active
    /\ summaryState' = "Fault"
    /\ UNCHANGED <<engineering, loaded, applied, setBy, file, measured, loops, calls>>

SetEngineeringMode ==
    /\ Free
    /\ Active
    /\ engineering' = ~engineering
    /\ UNCHANGED <<summaryState, loaded, applied, setBy, file, measured, loops, calls>>

-----------------------------------------------------------------------------
(* Tasks::Controller::set_setpoints, with its lock held until it returns    *)

Abs(x) == IF x < 0 THEN -x ELSE x

Far(setpoint, temperature) == Abs(temperature - setpoint) > SafetyRange

\* applySetpoints: validate() against the air temperature, then the call.
ApplySetpoints(request) ==
    /\ Free
    /\ Active
    /\ air # NaN
    /\ ~Far(request.glycol, air) /\ ~Far(request.heaters, air)
    /\ created < MaxCalls
    /\ at' = [at EXCEPT !["controller"] = "apply"]
    /\ argument' = [argument EXCEPT !["controller"] = request]
    /\ UNCHANGED <<session, applied, setBy, file, measured, loops>>

\* Mutant: set_setpoints does not lock.
AlwaysFree == TRUE

LockFree == \A t \in Threads : at[t] # "save"

\* AppliedSetpoints::set_applied_setpoints: no comparison with NAN holds, and an
\* unchanged setpoint is no small change.
SmallChange(old, new, limit) ==
    old # NaN /\ old # new /\ Abs(old - new) < limit

\* The task that pursues a setpoint from now on: a small change keeps the one
\* there is, without asking whether it still runs.
Task(task, old, new, limit, fresh) ==
    IF SmallChange(old, new, limit) /\ task # 0 THEN task ELSE fresh

GlycolTasks == {2 * n - 1 : n \in 1..(created + 1)}

\* A task that runs is not in the queue: it cannot be removed from it.
Overtakes ==
    overtaken' =
        overtaken \cup (({running} \ {0}) \cap
                         ({glycolTask, heatersTask} \ {glycolTask', heatersTask'}))

\* Mutant: the previous loops are not removed from the queue.
ApplyKeepsLoops(t) ==
    LET new == argument[t]
    IN  /\ at[t] = "apply" /\ LockFree
        /\ Applies(new, "set_setpoints")
        /\ glycolTask' =
               Task(glycolTask, applied.glycol, new.glycol, ClearGlycol, 2 * created + 1)
        /\ heatersTask' =
               Task(heatersTask, applied.heaters, new.heaters, ClearHeaters, 2 * created + 2)
        /\ queue' = queue \cup ({glycolTask', heatersTask'} \ {glycolTask, heatersTask})
        /\ Overtakes
        /\ created' = created + 1
        /\ at' = [at EXCEPT ![t] = "save"]
        /\ UNCHANGED <<session, running, file, measured, argument>>

Apply(t) ==
    LET new == argument[t]
    IN  /\ at[t] = "apply" /\ LockFree
        /\ Applies(new, "set_setpoints")
        /\ glycolTask' =
               Task(glycolTask, applied.glycol, new.glycol, ClearGlycol, 2 * created + 1)
        /\ heatersTask' =
               Task(heatersTask, applied.heaters, new.heaters, ClearHeaters, 2 * created + 2)
        /\ queue' = (queue \ ({glycolTask, heatersTask} \ {glycolTask', heatersTask'}))
                    \cup ({glycolTask', heatersTask'} \ {glycolTask, heatersTask})
        /\ Overtakes
        /\ created' = created + 1
        /\ at' = [at EXCEPT ![t] = "save"]
        /\ UNCHANGED <<session, running, file, measured, argument>>

\* Setpoint::save_setpoints; the supervision then starts to count again.
Save(t) ==
    /\ at[t] = "save"
    /\ file' = [stamp |-> "own", setpoints |-> argument[t]]
    /\ violations' = IF t = "temperature" THEN 0 ELSE violations
    /\ at' = [at EXCEPT ![t] = "idle"]
    /\ UNCHANGED <<session, applied, setBy, errors, air, coolant, loops, argument>>

\* The controller takes a loop off its queue to run it; the temperature thread may call
\* set_setpoints before it is done, which takes the loop of the heaters up to a second.
LoopBegins ==
    /\ Free
    /\ \E task \in queue : queue' = queue \ {task} /\ running' = task
    /\ UNCHANGED <<session, applied, setBy, file, measured, overtaken, created, glycolTask,
                   heatersTask, calls>>

\* GlycolTemperatureControl::run: without a setpoint or a coolant temperature it is not
\* scheduled again.
Ends ==
    /\ running \in GlycolTasks
    /\ ~engineering
    /\ applied.glycol = NaN \/ ~coolant

\* Any other loop is, whether it has been replaced or not.
LoopReturns ==
    /\ running # 0
    /\ \/ ~Ends /\ queue' = queue \cup {running}
       \/ Ends /\ UNCHANGED queue
    /\ running' = 0
    /\ UNCHANGED <<session, applied, setBy, file, measured, overtaken, created, glycolTask,
                   heatersTask, calls>>

-----------------------------------------------------------------------------
(* The temperature thread: GlycolTemperature::run, and with a complete line *)
(* in an active state GlycolLoopTemperature::update                         *)

\* The sensors do not answer; the thread tries again.
ReadFails ==
    /\ at["temperature"] = "idle"
    /\ errors <= ErrorLimit
    /\ errors' = errors + 1
    /\ UNCHANGED <<session, applied, setBy, file, air, coolant, violations, loops, calls>>

\* They send a part of a line, or the CSC is not active.
ReadsNothing ==
    /\ at["temperature"] = "idle"
    /\ errors' = 0
    /\ UNCHANGED <<session, applied, setBy, file, air, coolant, violations, loops, calls>>

\* Mutant: the setpoint is moved to the other side of the air temperature, and past it.
CorrectionPastRange(setpoint, temperature) ==
    LET offset == SafetyRange + MinOffset
        new == IF setpoint > temperature THEN temperature + offset
               ELSE temperature - offset
    IN  [glycol |-> new, heaters |-> new + HeatersOffset]

Correction(setpoint, temperature) ==
    LET offset == SafetyRange - MinOffset
        new == IF setpoint > temperature THEN temperature + offset
               ELSE temperature - offset
    IN  [glycol |-> new, heaters |-> new + HeatersOffset]

Supervised == applied.glycol # NaN /\ air' # NaN

\* The applied setpoint is checked against the new temperature.
InRange ==
    /\ Supervised
    /\ ~Far(applied.glycol, air')
    /\ violations' = 0
    /\ UNCHANGED calls

\* Mutant: one violation more is ignored.
TolerateLonger ==
    /\ Supervised
    /\ Far(applied.glycol, air')
    /\ violations <= MaxViolations + 1
    /\ violations' = violations + 1
    /\ UNCHANGED calls

Tolerate ==
    /\ Supervised
    /\ Far(applied.glycol, air')
    /\ violations <= MaxViolations
    /\ violations' = violations + 1
    /\ UNCHANGED calls

Correct ==
    /\ Supervised
    /\ Far(applied.glycol, air')
    /\ violations > MaxViolations
    /\ IF MaxViolations > 0
          THEN /\ at' = [at EXCEPT !["temperature"] = "apply"]
               /\ argument' = [argument EXCEPT
                     !["temperature"] = Correction(applied.glycol, air')]
          ELSE UNCHANGED calls
    /\ UNCHANGED violations

NotSupervised ==
    /\ applied.glycol = NaN
    /\ UNCHANGED <<violations, calls>>

\* get_above_mirror_temperature throws out of the thread's run().
Throws ==
    /\ applied.glycol # NaN
    /\ air' = NaN
    /\ at' = [at EXCEPT !["temperature"] = "dead"]
    /\ UNCHANGED <<violations, argument>>

\* updated() checks the errors after the read that cleared them.
Measure ==
    /\ Active
    /\ at["temperature"] = "idle"
    /\ created < MaxCalls
    /\ errors' = 0
    /\ summaryState' = IF errors' > ErrorLimit THEN "Fault" ELSE summaryState
    /\ air' \in AirTemperatures
    /\ coolant' \in BOOLEAN
    /\ InRange \/ Tolerate \/ Correct \/ NotSupervised \/ Throws
    /\ UNCHANGED <<engineering, loaded, applied, setBy, file, loops>>

Next ==
    \/ Start
    \/ Enable
    \/ Disable
    \/ Standby
    \/ Fault
    \/ SetEngineeringMode
    \/ \E request \in Requests : ApplySetpoints(request)
    \/ \E t \in Threads : Apply(t) \/ Save(t)
    \/ LoopBegins
    \/ LoopReturns
    \/ ReadFails
    \/ ReadsNothing
    \/ Measure

Spec == Init /\ [][Next]_vars

-----------------------------------------------------------------------------
(* Properties *)

\* Every variable has its type, and the violations are never counted beyond one more
\* than there may be.
TypeOK ==
    /\ summaryState \in {"Standby", "Disabled", "Enabled", "Fault"}
    /\ engineering \in BOOLEAN
    /\ loaded \in BOOLEAN
    /\ applied \in Setpoints
    /\ setBy \in {"nobody", "start", "enable", "set_setpoints"}
    /\ file \in SavedFiles
    /\ errors \in 0..(ErrorLimit + 1)
    /\ air \in Temperatures
    /\ coolant \in BOOLEAN
    /\ violations \in Nat /\ (violations > 0 => violations <= MaxViolations + 1)
    /\ created \in Nat
    /\ queue \subseteq 1..(2 * created)
    /\ running \in 0..(2 * created)
    /\ overtaken \subseteq 1..(2 * created)
    /\ glycolTask \in 0..(2 * created)
    /\ heatersTask \in 0..(2 * created)
    /\ at \in [Threads -> {"idle", "apply", "save", "dead"}]
    /\ argument \in [Threads -> Setpoints]

\* No set_setpoints is under way.
Settled == \A t \in Threads : at[t] # "save"

Loops == queue \cup ({running} \ {0})

\* However the two threads, sessions and ended loops interleave, a loop that set_setpoints
\* replaces is not run again, unless it was running at that very time: then it goes on
\* beside the new one.  The loop of the heaters never gets lost.
ReplacedLoopsStop ==
    /\ Loops \subseteq {glycolTask, heatersTask} \cup overtaken
    /\ heatersTask # 0 => heatersTask \in Loops

\* The file holds the setpoints the last set_setpoints applied, whichever thread's
\* call came last.
SavedIsApplied ==
    Settled /\ setBy = "set_setpoints" =>
        file = [stamp |-> "own", setpoints |-> applied]

\* An Enabled CSC has both setpoints, wherever they came from.
EnabledHasSetpoints == summaryState = "Enabled" => Valid(applied)

\* A correction the supervision is about to apply is in the safe range.
CorrectionIsSafe ==
    at["temperature"] \in {"apply", "save"} => ~Far(argument["temperature"].glycol, air)

\* More failed reads than ErrorLimit are not forgotten by a CSC that goes on:
\* updated() fails it with "Cannot read data from the temperature sensors".
SilentSensorsFault ==
    [][errors > ErrorLimit /\ errors' = 0 /\ Active => summaryState' = "Fault"]_vars

\* The setpoints the daemon has saved are those it starts with.
SavedIsRestored ==
    setBy = "start" /\ file.stamp = "own" => applied = file.setpoints
=============================================================================
