# A TLA+ model of the M1M3 Thermal System CSC

The daemon `ts-M1M3thermald` of this repository (a "CSC", a commandable SAL
component, on a compact RIO) runs the thermal system of the LSST M1M3 mirror: 96 fan
coil units (FCUs) on a Modbus, a mixing valve, a pump of the ethylene
glycol/water (EGW) loop behind a VFD drive, and temperature sensors. It executes the
commands of the observatory, keeps a summary state (Offline, Standby, Disabled, Enabled,
Fault) and has to bring the plant to a safe state when something fails.

This directory holds TLA+ modules of its core, configurations that check them with
TLC, and proofs that TLAPS checks. Paths below are relative to
`src/src/LSST/M1M3/TS/` unless they begin with `src/`.

## 1. Inventory

### Threads

| thread | code | what it does |
|---|---|---|
| controller | cRIO `ControllerThread` (external) | takes tasks from a queue and runs them one after the other: SAL commands, `Update`, the control loops, `ReloadConfiguration` |
| pump | `Telemetry/PumpThread.cpp` | sends requests to the drive and reads it every 2 s; may call `SummaryState::fail` |
| outer loop clock | `OuterLoopClockThread.cpp` | queues an `Update` task every 500 ms in an active state |
| glycol temperature | `MPU/GlycolTemperature.cpp` | reads the sensors, stores them and supervises the glycol setpoint |
| flow meter | `Telemetry/FlowMeterThread.cpp` | telemetry only |
| SAL subscriber, main | `TSSubscriber.cpp`, `ts-M1M3thermald.cpp` | queue the commands; wait for the exit request |

All of them share singletons: `SummaryState` (a mutex), `FinerControl` (a mutex),
`TSPublisher::pump_thread` (a bare pointer), `AppliedSetpoints`, `FcuTargets`, the ILC
list of `TSApplication` (no mutex).

### Components, their state, and what makes them correct

| component | state | operations | hard because | correct when |
|---|---|---|---|---|
| SAL commands, summary state | `summaryState`, `engineeringMode`, `errorCode` | the commands of `Commands/SAL.cpp`, `fail`, `_switch_state` | a command is a dozen calls, any of which throws, and a fault of the pump thread comes between any two | pump and its thread go together; Fault is left only to a shut down plant; acknowledgements tell the outcome |
| FPGA outputs (`IFPGA`) | FCU power, pump power, valve command | `setFCUPower`, `setCoolantPumpPower`, `setMixingValvePosition`, `panic` | two threads write, `panic` throws half way | a fault shuts down what `panic` says |
| mixing valve (`FinerControl`, `MixingValve`) | state, `_comp_setpoint`, `_last_setpoint`, `_move_timeout` | `set_target`, `get_target` | the timeout and the state outlive sessions; demands change while it moves; NAN | the valve gets to its demand or faults, and only faults when it does not follow |
| EGW pump thread (`PumpThread`, `GlycolPumpStatus`) | request queue, attempts, contact count, timeout, error count | requests, `run`, `_check_commands`, `update` | startup is deferred, retried and counted in three places | no startup is lost; silence and lasting errors fault |
| FCU bus (`Update::_sendFCU`, `FcuTargets`, `EnabledILC`) | `_bus_state`, targets, enabled ILCs | poll, recovery, demands | a power failure of the bus in any state, recovery over seven polls | ILCs end in the mode of the summary state |
| setpoints and control loops (`Tasks`, `AppliedSetpoints`, `GlycolLoopTemperature`, `Setpoint`) | setpoints, loop tasks, violation count, saved file | `set_setpoints`, loops, supervision | set from two threads; loops end and are replaced | a loop that is replaced stops; the glycol stays in the safe range |
| temperature reader | line buffer, temperatures | parser | partial lines | - |
| settings loaders | all settings | `load` | throws half way, while threads use them | - |
| telemetry, simulators, CLI, NiFpga | - | - | I/O or vendored | not modelled |

They interact by direct calls through the singletons, by the controller queue, and by
the pump thread's request queue. The hard behaviours are the interleaving of
the controller with the pump thread, the exceptions that leave a command half done, state
that outlives a session (singletons, statics), shared lists without a mutex, and timeouts.

`PROJECT.json` lists every component with what is modelled of it, and the hazards at
their lines with the properties that watch them.

## 2. The plan

In the order of importance, and as it was carried out:

1. `ThermalCSC`: the command lifecycle and faults. Everything else hangs on it. It
   implements `SummaryStateSpec`, what the CSC promises about its summary state.
2. `FinerControl`: the mixing valve state machine. It implements `ValveSpec`, what
   `ThermalCSC` takes it for.
3. `PumpThread`: the pump thread.
4. `BusRecovery`: the FCU bus, the modes of the ILCs and their recovery.
5. `SetpointControl`: the setpoints, the control loops, the supervision, saved setpoints.

Each has an `MC` module with the constants of its runs and one or more proof modules.
`ThermalCSC` abstracts what 2 to 5 detail: the valve to what the next poll commands, the
pump thread to one that may call `fail` at any time, an exchange with the ILCs to one that
may throw, setpoints to their validity.

What would come next: the values of the FCU demands; the line buffer of
`MPU/GlycolTemperature.cpp`; the glycol control loop as a task of `ThermalCSC`.

## 3. The modules

### ThermalCSC

A *task* (a command's `execute`, `Update::run`, `fail` with `panic`) is the sequence of
calls it makes, `Body[task]`; a thread is at one call of the task it is doing. Every
call is one action, so the other thread's calls come between any two. A call that
throws continues where the code catches (`CatchAt`): at the end of the task,
or after the try blocks of `start` and `disable`. `Validates` is `validate()`; a refused
command changes nothing and is no step.

| variable | code |
|---|---|
| `summaryState`, `engineeringMode`, `errorCode` | the event singletons |
| `pumpEnabled`, `setpoints`, `air` | `GlycolPump.enabled`; `AppliedSetpoints::is_valid`; above mirror temperature measured |
| `fcuPower`, `pumpPower`, `valve` | what was last written to the FPGA |
| `finer`, `finerLock` | what `get_target` returns next, the mutex when held across calls |
| `pumpThread` | `TSPublisher::pump_thread`: null, running, stopping, ended |
| `doing`, `at`, `acks` | the task and the call of each thread, the acknowledgements of the command |
| `updates`, `process` | queued `Update` tasks; the daemon running, exiting, crashed |

`SummaryStateSpec` is the lifecycle without the calls: five states, who is shutting the plant
down, and three facts about the plant. `Lifecycle` in `ThermalCSC` is the refinement
mapping; `ImplementsLifecycle` is checked in `csc_safety` and proved. A client could rely on
it: Standby is entered with a pump without power and thread and no shutdown under way,
Enabled with powered FCUs, and the transitions are those of `_switch_state`.

Left out: the ILC modes (`changeAllILCsMode` swallows its errors; `BusRecovery` has them), the
flow meter thread, the values of the demands, the control loops, logging. A null
`pump_thread` that is used is the end of the process (`crashed`).

Assumed of cRIO (external): the controller thread calls `validate()` directly
before `execute()`; an exception that leaves `execute()` fails the acknowledgement and
ends the task; `Thread::stop()` returns after `run()` did; the `EnterControl` task
comes first.

### FinerControl

The state machine line by line, with a valve that moves `Speed` towards its
command per tick or slips or sticks, and a session around it: `Start`, `Disable`,
`Standby`, a `setMixingValve` whose validation and execution are two steps, the glycol control
loop, which goes on in every state (`ControlLoop`, any demand), and a `Panic`
of the pump thread at any time. NAN is a constant outside of the integers with the
comparisons of a float NAN written out. Time is counted in polls, which an active CSC
makes once per tick. Positions are whole percents, so rounding of floats is not modelled.
Commands come in the states they lead from.

Any call may throw. `disable` closes the valve first and tells `FinerControl` last, so a throw
between them (`ClosePartly`) leaves a closed valve and a state machine with its old demand;
`start` does it the other way round. A poll that throws in the write has already changed the
state (`WriteThrows`), one that can not read the position does nothing (a `Tick` without a
poll). `panic` ends when its write throws. Three variables are history of the time since the
timeout was set: `stuck` (the valve did not follow), `untold` (a poll threw before it told the
valve, or a disable before it told `FinerControl`) and `watched` (none of these, the CSC was
active, and no command closed the valve in its first leg).

`ValveSpec` is the `finer` of `ThermalCSC` on its own: closed, open, faulted, or closing over a
leg away from closed, and which positions the polls may command in each. The refinement
mapping `Finer` computes it from the setpoint and the state. The two differ in one
thing: a poll of `FinerControl` commands what `get_target` returned in the same step, and
`ThermalCSC` in a step of its own (`csc_valve` shows what comes of that).

### PumpThread

One cycle of `run()` is the check of the request queue and the readout. Both may meet a link
that is down, and then take the catch block (`Catch`). `_success_count` is only compared with 2
and saturates at 3; `_error_count` saturates above `ErrorLimit`; `_fail_after` is a count of
failed cycles. A request that meets a dead link may or may not have reached the drive.
`GlycolPumpStatus::update` runs in the readout; its two variables survive `Restart`, as the
singleton does. It remembers an error only once the event of it was sent (`Remember`): while
that fails, the error is a new one in every cycle, reset again and not counted. The read in the
catch block is taken not to throw. `wanted`, `unanswered`, `startups`, `outages` and
`unreported` are history for the properties: the last one is the number of cycles which the
present trouble of the drive has lasted without a fault, where an error counts from the cycle on
that has sent its event (`Published`). It saturates at `Horizon`, one more cycle than the
longest delay the properties allow, so a trouble that is reported too late, or never, is still
seen.

### BusRecovery

Two threads use one list of ILC commands, `TSApplication::ilc()`, without a mutex: the controller
(commands, polls, the loop of the heaters) and the pump thread (`panic`). So an exchange is
three steps - the list is cleared (`Clear`), filled (`Fill`), sent and the replies read (`Answer`,
`Missing` or `Throw`) - with the other thread's between them. `NextState` is `_bus_state`:
a missing reply in a poll makes it FAILED, and one poll each clears the faults, sets
Standby, reads the server IDs, sets Disabled, sets Enabled and reads the status. A command that
misses a reply logs it. An ILC that loses its power boots in Standby.

| variable | code |
|---|---|
| `busState` | the static `_bus_state` of `Update::_sendFCU` |
| `list`, `phase` | the ILC list: the mode appended last and whether there is anything else; how far each thread's exchange is |
| `powered`, `mode` | the ILCs that answer, the mode each is in (external; as `SimulatedFPGA` has it) |
| `summaryState`, `serving`, `queued` | what the bus depends on: the state, whether the pump thread may fault, a queued `Update` |
| `doing`, `at` | as in `ThermalCSC`, of the calls that matter here |
| `astray` | history: an ILC came back between two polls, or an exchange that sets modes threw before it was sent; nothing in the code notices either |

Two threads that fill the list at the same time are a data race of the code; the model has its
steps whole. All ILCs are enabled (`EnabledILC::communicationProblem` has no caller), and an
ILC reads all of the list or nothing of it. Clients send a command only in a
state it leads from; `ThermalCSC` is about the others.

### SetpointControl

Who sets the setpoints and what pursues them. The temperature thread reads its sensors
(`ReadFails`, `ReadsNothing`, or a complete line with `Measure`) and supervises the setpoint.
`ApplySetpoints` (a command) and `Measure` (the temperature thread) begin a call of
`set_setpoints`; `Apply` and `Save` are its two halves, with the mutex held between them, so the
threads interleave wherever they do in the code: between the check of a setpoint and the call,
and while the other one saves.

| variable | code |
|---|---|
| `applied`, `setBy` | `AppliedSetpoints`; history: who applied them |
| `file`, `loaded` | `saved_setpoints.yaml` and who stamped it; the settings were loaded once |
| `errors` | `receiving_error_count`, saturated at `ErrorLimit + 1`; the constructor leaves it uninitialized (`InitialErrors`) |
| `air`, `coolant` | what `GlycolLoopTemperature` knows; coolant temperatures only as known or not |
| `violations` | `_safety_violations_count` |
| `queue`, `created`, `glycolTask`, `heatersTask` | the loops in the controller's queue by number (odd: glycol, even: heaters), the two task pointers |
| `running`, `overtaken` | the loop the controller has taken off the queue and runs; history: those that were replaced while they ran |
| `at`, `argument` | where each thread is in `set_setpoints`, and with what |

A run of a loop is the controller's, so it never comes between two steps of a command
(`Free`). But it takes time, up to a second in the loop of the heaters, and the temperature thread may call
`set_setpoints` in the middle of it: `LoopBegins` takes the loop off the queue, where the
call does not find it, and `LoopReturns` puts it back, unless it is a glycol loop that ends. The
loop of the heaters always asks to be run again. A file that can not be written, which `save` ignores,
is not modelled. `Measure` reads the applied setpoint with
the new temperature; an air temperature of NAN throws, and the thread is dead. `start` and
`enable` are one action each: what a fault does between their calls is in `ThermalCSC`.
The date of a saved file is abstracted to whether `load` can accept it (`Restored`).

Assumed: cRIO's `remove` takes a task out of the queue, in which the one it runs is not
(external); the controller is not in a loop while it executes a command; applied requests are
numbers within `Low..High`.

## 4. What is checked

| run | question | answer |
|---|---|---|
| `csc_safety` | all commands but `setMixingValve` and `exitControl`, all failures | the pump interlock, fault handling and acknowledgements hold; nobody waits for the pump thread with the mutex it may want; `SummaryStateSpec` is implemented |
| `csc_live` | sessions, moving valve, exit; fairness | no task blocks, every fault powers the FCUs down |
| `csc_deadlock` | the same with faults of the valve | violated: `get_target` calls `fail` with the mutex held that `panic` needs |
| `csc_valve` | a fault closes the valve | violated: a poll under way opens it again |
| `finer` | four demands over sessions, sticking valve, throws | compensation in range and long enough, no early ON_TARGET and only a stuck valve faults where nothing threw half way, a demand is waited for at most two legs, settles; `ValveSpec` is implemented |
| `finer_stale` | only a stuck valve faults | violated: timeout of an earlier session |
| `pump` | three requests or restarts, three disturbances, lost events among them | startup kept, retries bounded, silence and errors that are told of fault, and within the cycles that the settings give them |
| `pump_lost` | a failed startup is retried | violated: not when sending it is what failed |
| `bus` | two ILCs that go and come back, every exchange of both threads | ILCs agree on their mode, those of an Enabled CSC are Enabled, outside of Fault the controller sends the commands it has put in the list and no others, silence is noticed, recovery ends |
| `setpoints` | three calls of `set_setpoints`, also while a loop runs, sessions, faults, failing sensors | a replaced loop stops unless it was running, the file follows, Enabled has setpoints, a correction is to a safe one |
| `setpoints_sensors` | silent sensors fault the CSC | violated: the count of errors is cleared before it is checked |
| `setpoints_saved` | saved setpoints are restored | violated: the date of every saved file is refused |

Bounds. `ThermalCSC` has no bound but `MaxUpdates = 1` queued Update tasks: they are alike and
change nothing but the valve, so a second one in the queue only repeats the first; every
sequence of commands is explored. `FinerControl` has `MaxDemands = 4` changes of the demand: a
stale state needs one session to create it, one change to expose it and a `Panic` or `Disable`
between them, and one is left to follow; the demands are one on each side of every comparison of
`set_target`, and the settings are the ratio of those in `_init.yaml` on a valve of 12
positions. `PumpThread` has `MaxRequests = 3` (a startup, a restart, and another, or a stop
between) and `MaxDisturbances = 3` (down, up, down again, or an error, or one and two lost
events of it); `AutoRecoverAttempts = 1`, `Timeout = 2` and `ErrorLimit = 1` are the smallest
with both sides of each counter. `BusRecovery` has no bound but `queued`, one waiting `Update`;
its two ILCs are the fewest of which one may be silent while the other answers, and the theorems
are for any set of them. `SetpointControl` has `MaxCalls = 3` calls: one to create the loops,
one that makes a small change and one that replaces them, by either thread. The requests are one
degree and more apart with `ClearGlycol = ClearHeaters = 2`; the air goes from 10 to 4 and back,
which leaves all of them out of a `SafetyRange` of 3, or is not known; `MaxViolations` and
`ErrorLimit` are 1, the smallest with both sides of each count.

Fairness. `csc_live` has weak fairness of each thread's step: the threads are preempted but run,
and none waits on anything but the join and the mutex that the model has. Nothing makes
commands, faults or the clock happen. `finer` has it for the clock and the execution of a
validated command, and strong fairness of the poll: the outer loop clock queues one every 500 ms
as long as the CSC is active, and not all of them fail to read the position. `pump` has it for
the cycle of the thread, whose waits all have timeouts. `bus` has weak fairness of each thread's
step and of the clock, and strong fairness of the beginning of a poll: the controller takes its
tasks in the order they were queued, so a waiting `Update` is not overtaken for ever. The other
two are of the outcome: a poll that finds its ILCs answering again and again, with a list that
is there, once gets all replies, and one that finds an ILC silent again and again once misses it;
a bus on which every single poll throws something else is not claimed to recover. No
assumption is made on the drive, the link or the operator.

`CHECK_DEADLOCK FALSE` stands where the program does stop: the daemon exits or crashes, the
pump thread ends after a fault.

## 5. What is proved

For every value of the constants, by TLAPS:

* `ThermalCSC_proofs`: `TypeCorrect`. What carries it: `CatchAt` of any call is at most one past
  the end of its task (`Lengths`, `ThrowType`, `StepType`), and each call leaves every other
  variable in its type. One lemma per group of actions.
* `ThermalCSC_pump_proofs`: `PumpThreadPowered`, `StandbyPumpOff`, `PanicOnlyInFault` and
  `NoCircularWait` as invariants, `FaultLeft` as an action property. None is inductive:
  `standby` switches to Standby in its third call, and that the pump is off by then is a fact of
  where the controller is in the task. `PumpInv` adds what each task has established at each
  call (`PumpTakenUp`, `PumpTakenDown`), that the pump thread runs nothing but `fail` and not
  once joined (`PumpThreadRuns`), and that the engineering mode is held while `coolantPumpPower`
  runs (`EngineeringHeld`). `NoCircularWait` follows from `HeldByFail`: the mutex is held across
  calls by the `fail` of the controller's own poll alone, before its `set_target`, so a thread
  that joins does not hold it. It does not say that this `fail` ends: it does not, and that is
  `csc_deadlock`; with a valve that never faults the mutex is never held (`LockIsFree`).
  `TasksDoRunOut` and `TasksAreShort` say why tasks end wherever no one waits: `Left` counts the
  steps a task has left, every step of a thread takes some, those of the other thread add none,
  and it is at most 27.
* `ThermalCSC_session_proofs`: `EnabledEntry` and `StartedClean` as action properties, and
  `ImplementsLifecycle`. `SessionInv` has what `enable` and `start` have established at each
  call or lost to a fault (`EnableHolds`, `StartHolds`), and why a pump thread is not running
  any more (`StoppedWhy`). With `TypeOK`, `PumpInv` and it, each action of `ThermalCSC` is a
  step of `SummaryStateSpec` or a stutter.
* `ThermalCSC_ack_proofs`: `AckTellsOutcome`, which speaks of a finished command only. `AckInv`
  ties the number of acknowledgements to the place in the task: none before its end
  (`Unanswered`), one there (`Answered`), and the state already switched at the call that
  completes (`Reached`). For `standby` it also needs that no pump thread is left to fault the
  CSC once joined (`ThreadGone`).
* `PumpThread_proofs`: `TypeOK`, `StartupKept`, `StartupsBounded`, `SilenceInTime`,
  `ErrorInTime` and `WorkIsDone`. `StartupsBounded` is not inductive, as a retry adds a startup
  without a new outage. `Multiplied` counts the attempts that an outage under way has left with
  those queued already; `Counted` bounds the history counters. `SilenceInTime` and `ErrorInTime`
  follow from `Timing`: the cycles of a silence and those left to its timeout are together at
  most `Timeout` (`SilenceCounted`), and an error of the drive that was told of is the one
  remembered and all its cycles but the first are in `_error_count` (`ErrorCounted`).
  `WorkIsDone` is about a drive that answers and whose events are sent - a readout whose event
  is lost will append the reset once more: the missing contacts, the requests queued and those a
  new error will still append (`Work`) become fewer in every step of a cycle, as long as
  anything is queued. The property `WorkShrinks` is stated with the proof.
* `BusRecovery_proofs`: `TypeOK`, `OwnCommands`, `ModesAgree` and `EnabledModes`. `BusInv` says
  where the threads can not meet (`PumpApart`: the pump thread exchanges in Fault only, and
  never once `standby` has joined it), what the controller's list holds there (`OwnList`:
  exactly what the call that filled it appends, which is `OwnCommands`), and what the ILCs agree
  on in the middle of commands (`Agreed`, `EnabledThroughout`).
* `SetpointControl_proofs`: `TypeOK`, `ReplacedLoopsStop`, `SavedIsApplied`,
  `EnabledHasSetpoints` and `CorrectionIsSafe`. `SetpointInv` adds that the heaters' tasks have
  even numbers (an end of a glycol loop never takes one), that a thread behind the lock saves
  what it applied unless `start` or `enable` replaced it, and that a call is only made with two
  numbers. `ReplacedLoopsStop` counts the loop that runs with those in the queue.
* `FinerControl_proofs`: `TypeOK`, `CompInRange`, `SettledAtDemand`, `BacklashLegs`,
  `WaitRunsOut`, `WatchedFaultIsStuck` and `ImplementsValve`. The strengthening
  `DemandCommanded` says why `ON_TARGET` is right, as long as nothing threw half way (`untold`):
  a valve that moves to a demand it is not yet commanded to was given it at most one poll ago,
  which the 20 % of `MaxMovingTime` in `Transition` cover - if they are two polls long
  (`SettleAssumption`). For the refinement the leg that begins a move to closed must lead away
  from closed (`LeavesFirst`). For `WaitRunsOut`, what is waited for is the rest of the leg, and
  in the first leg all of the second, so the timer set again between them gives nothing that was
  not counted before; that every tick takes some needs that a poll does not leave a leg whose
  time has passed (`Overdue`). `CourseInv` adds what makes a timeout fair: a valve that follows
  is never farther from its leg's end than it gets in the time that remains (`InTime`), and does
  not leave it (`StaysThere`). `WatchedFaultIsStuck` is about valves that get anywhere in
  `MaxMovingTime` less one poll (`FastEnough`), a hypothesis on the valve and the settings that
  no line of the code states.

The assumptions are the named ASSUMEs of the modules. Three are not checked by the code:
`MinOffset <= 2 * SafetyRange` (a range below half of an offset of at most 2),
`SettingsAssumption` (2 * BacklashStep + MinimalMove <= 100) and `SettleAssumption`
(MaxMovingTime of at least five polls) are met by `_init.yaml`, but `Settings/MixingValve.cpp`
loads settings that violate them.

Only model-checked: the liveness properties (fairness and ENABLED are out of the
prover's reach). For most of them the theorems have the half that needs no fairness, the bound
on how many steps there can be before the end:

| liveness property | what is proved of it |
|---|---|
| `Settles` | `WaitRunsOut`: every tick of a moving valve takes from a wait that only another demand renews |
| `SilenceFaults`, `ErrorFaults` | `SilenceInTime`, `ErrorInTime`: no silence, and no error that is told of, outlasts its number of cycles without a fault |
| `TasksFinish` | `TasksRunOut` and `NoCircularWait`: a task has finitely many steps, and those who wait for the pump thread do not hold the mutex |
| `SilenceNoticed` | `OwnCommands`: a poll asks the ILCs for what it counts the replies of |
| `FaultPowersDownFCU` | `TasksRunOut`, of `fail`; that it does not leave the call out is seen by TLC alone |
| `StartupSettles` | `WorkIsDone` while the drive answers and its events are sent, `SilenceInTime` while it does not |
| `RecoveryEnds` | nothing: how long it takes rests on the fairness of the replies |

## 6. Findings

1. `FinerControl::get_target` calls `SummaryState::fail` with `_lock` held; `panic()` locks it
   again. The controller thread hangs in Fault and the FCUs stay powered (`csc_deadlock`).
2. `MixingValve::sendPosition` may open the valve after a fault has closed it (`csc_valve`).
3. `set_target` of an unchanged demand keeps a stale timeout, which faults a healthy valve in
   the next session (`finer_stale`).
4. A startup whose exchange with the drive fails is forgotten (`pump_lost`).
5. `SavedSetpoints::load` refuses every file `save` writes (`setpoints_saved`).
6. Sensors that do not answer never fault the CSC (`setpoints_sensors`).

Seen in the code and not made into runs.

*Commands and states.* `setMixingValve` and the glycol loop open the valve in Disabled, where
`src/doc/states.rst:11` says "Mixing valve can only be opened in enabled state". A failing
`enable` leaves the FCUs powered. `coolantPumpStop`, `coolantPumpFrequency` and
`coolantPumpReset` do not check `pump_thread`. `fanCoilsHeatersPower`, `applySetpoints` and a
refused `coolantPumpPower` send no final acknowledgement. `disable` is accepted in Standby and
`start` in Enabled; `standby` in Enabled tears the session down before the switch of the state
throws, and the CSC stays Enabled. `IFPGA.h:90` says `panic` shuts down the pump, which it does
not touch. `startFlowMeterThread` deletes a thread it has not stopped. `disable` writes 0 to the
valve whatever `FinerControl` is at: sent again and again while the valve makes its leg away
from closed, it holds it back until it times out (`WatchedFaultIsStuck` leaves this case out
through `watched`). When its `setFCUPower(false)` throws (`Commands/SAL.cpp:166`),
`set_target(0)` is skipped with a warning: the valve closes, and the next poll of the Disabled
CSC opens it again, or, from ON_TARGET, finds a healthy valve "moved out of target" and faults
the CSC. An `enable` that powers the FCUs after `panic()` is done leaves them powered in Fault.

*The bus.* A recovery ends with Enabled ILCs whatever the summary state is. An ILC that is
away between two polls comes back in Standby and stays there, though
`src/doc/version-history.rst:80` says "Auto-recover ILCs after bus failure". The
modes `enable` sets are not set again when the exchange fails. One ILC that is dead keeps the
recovery in its first step for ever. `panic`'s zero demands may be wiped from the list by the
controller's `clear()`, and in Fault the loop of the heaters goes on and demands heat again.
`FcuTargets` replaces a demand that is out of range by the published one: a percentage, or
ten times the speed. Demands are published only when every ILC replied.
`FcuTargets::recover` has no caller, and fills vectors of size 0.

*Setpoints and temperatures.* The glycol control loop ends for ever at one temperature that is
NAN (`Tasks/GlycolTemperatureControl.cpp:50`), and a later small change of the setpoints keeps
the ended loop, though `src/doc/states.rst:13` says "When CSC control is enable, the mixing
valve is opened and closed as needed in a closed-loop." `src/SettingFiles/v1/_init.yaml:103`
calls `MaxViolations: 100` the "Maximal number of range violations to be ignored"; the code
ignores 101 and corrects the setpoint at the 102nd (`count > Max`,
`Telemetry/GlycolLoopTemperature.cpp:69`). The model counts as the code does, and no property
bounds the violations. A correction that comes while a control loop runs leaves the loop it
replaces going on beside the new one (`Tasks/Controller.cpp:45`, `:60`): two loops of the
heaters, or two of the glycol with a PID each, until the daemon ends. A correction may give the
heaters a setpoint that `applySetpoints` would refuse. `GlycolTemperature` keeps a value of a
line it refuses, and its `receiving_error_count` is not initialised.

*The pump.* A deferred startup overtakes a later stop. As long as the event of the drive's
status can not be sent, `GlycolPumpStatus::update` returns before it remembers the error
(`Events/GlycolPumpStatus.cpp:97-100`): a lasting one is reset in every cycle, never counted,
and does not fault the CSC.

## 7. Not modelled

* The vendored NiFpga code and its C interface (5455 of the 14705 lines) and the access to the
  hardware through it: generated or pure I/O.
* The command line client `m1m3tscli.cpp`, a program of its own that calls the same classes in sequence.
* Telemetry and events without control (`ThermalData`, `ThermalInfo`, `ThermalWarning`,
  `Heartbeat`, ...), logging, and the flow meter thread, which reads registers and publishes them.
* `MPU/VFD.cpp`: register maps. What the drive does with a request is external to
  `PumpThread`.
* The line parser of `MPU/GlycolTemperature.cpp`: sequential, its failures are steps of
  `SetpointControl`.
* The YAML and CSV loaders, beyond that a load may throw half way.
* The values of the FCU demands and the PID of the loops: floating-point computation without
  control of its own.
* The simulators, beyond what an ILC does at boot and with a mode.
