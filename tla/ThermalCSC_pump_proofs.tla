------------------------ MODULE ThermalCSC_pump_proofs ------------------------
(***************************************************************************)
(* PumpInv is inductive: the interlock between the power of the EGW pump,  *)
(* the pump thread, and the summary state, for every set of commands, every *)
(* failing call and any number of sessions.                                *)
(*                                                                         *)
(* Only ten kinds of calls matter to the interlock.  Any other moves its   *)
(* thread from a place the invariant does not name to another such place   *)
(* (QuietCalls, QuietStep); the ten are taken one by one.                  *)
(***************************************************************************)
EXTENDS ThermalCSC_proofs

-----------------------------------------------------------------------------
(* Strengthening of the three invariants into an inductive one *)

\* The pump thread runs nothing but fail(), and not once it was joined.
PumpThreadRuns ==
    /\ doing["pump"] \in {"idle", "fail"}
    /\ doing["pump"] = "fail" => pumpThread \in {"running", "stopping"}

\* What the commands have established about the pump when they are part way.
PumpTakenUp ==
    /\ Between("controller", "start", {8}) => pumpPower
    /\ Between("controller", "coolantPumpOn", {2}) => pumpPower

PumpTakenDown ==
    /\ Between("controller", "enterControl", {1}) => pumpThread = "null" /\ ~pumpPower
    /\ Between("controller", "standby", {2, 3}) => pumpThread = "null"
    /\ Between("controller", "standby", {3}) => ~pumpPower

\* The engineering mode is left outside of Standby, and the pump powered by
\* command inside of it.
EngineeringHeld ==
    /\ doing["controller"] = "coolantPumpOn" => engineeringMode
    /\ Between("controller", "engineeringOff", {1}) \/ Between("controller", "start", {10})
           => summaryState \notin {"Standby", "Offline"}

PumpInv ==
    /\ TypeOK
    /\ PumpThreadRuns
    /\ PumpTakenUp
    /\ PumpTakenDown
    /\ EngineeringHeld
    /\ PumpThreadPowered
    /\ StandbyPumpOff
    /\ PanicOnlyInFault

\* PumpInv without the types.
PumpHeld ==
    /\ PumpThreadRuns
    /\ PumpTakenUp
    /\ PumpTakenDown
    /\ EngineeringHeld
    /\ PumpThreadPowered
    /\ StandbyPumpOff
    /\ PanicOnlyInFault

InterlockCalls ==
    {"pumpPowerOn", "pumpPowerOff", "startPumpThread", "stopPumpThread",
     "toStandby", "toDisabled", "toEnabled", "toFault", "leaveEngineering"}

\* Going from the i-th to the j-th call of the task neither leaves a place that
\* excuses an exception to the invariant, nor enters one that must have
\* established something.
Quiet(task, i, j) ==
    /\ j # 1
    /\ task = "start" => i \notin {8, 9} /\ j \notin {8, 10}
    /\ task = "coolantPumpOff" => i # 2
    /\ task = "coolantPumpOn" => j # 2
    /\ task = "standby" => j \notin {2, 3}
    /\ task = "fail" => i # 1

\* Every call that is not one of the interlock's is quiet, however it goes on.
LEMMA QuietCalls ==
    ASSUME NEW task \in Tasks, NEW i \in 1..Len(Body[task]),
           Body[task][i] \notin InterlockCalls
    PROVE  /\ Quiet(task, i, i + 1)
           /\ Quiet(task, i, CatchAt(task, i))
           /\ Quiet(task, i, Len(Body[task]) + 1)
           /\ task = "start" /\ i = 6 => Quiet(task, i, i + 3)
           /\ task = "update" => Quiet(task, i, i + 2)
  <1> USE DEF Quiet, CatchAt, InterlockCalls
  <1>1. CASE task = "start"
    BY <1>1, Bodies, Lengths DEF StartBody
  <1>2. CASE task = "standby"
    BY <1>2, Bodies, Lengths DEF StandbyBody
  <1>3. CASE task = "coolantPumpOn"
    BY <1>3, Bodies, Lengths DEF CoolantPumpOnBody
  <1>4. CASE task = "coolantPumpOff"
    BY <1>4, Bodies, Lengths DEF CoolantPumpOffBody
  <1>5. CASE task = "fail"
    BY <1>5, Bodies, Lengths DEF FailBody
  <1>6. CASE task \notin {"start", "standby", "coolantPumpOn", "coolantPumpOff", "fail"}
    <2>1. Len(Body[task]) \in Nat
      BY LengthType
    <2> QED BY <2>1, <1>6
  <1> QED BY <1>1, <1>2, <1>3, <1>4, <1>5, <1>6

\* A quiet move that leaves the pump and the states alone keeps the invariant.
LEMMA QuietStep ==
    ASSUME TypeOK, PumpHeld, NEW t \in Threads, NEW j \in Nat,
           Goto(t, j), Quiet(doing[t], at[t], j), at[t] \in 1..Len(Body[doing[t]]),
           pumpPower' = pumpPower, pumpThread' = pumpThread,
           summaryState' = summaryState,
           engineeringMode => engineeringMode'
    PROVE  PumpHeld'
  <1> USE DEF Threads, Goto, Quiet, TypeOK, ControlOK, Between
  <1>1. PumpThreadRuns'
    BY DEF PumpHeld, PumpThreadRuns
  <1>2. PumpTakenUp'
    BY DEF PumpHeld, PumpTakenUp
  <1>3. PumpTakenDown'
    BY DEF PumpHeld, PumpTakenDown
  <1>4. EngineeringHeld'
    BY DEF PumpHeld, EngineeringHeld
  <1>5. PumpThreadPowered'
    BY DEF PumpHeld, PumpThreadPowered
  <1>6. StandbyPumpOff'
    BY DEF PumpHeld, StandbyPumpOff
  <1>7. PanicOnlyInFault'
    BY DEF PumpHeld, PanicOnlyInFault
  <1> QED BY <1>1, <1>2, <1>3, <1>4, <1>5, <1>6, <1>7 DEF PumpHeld

\* A call that is not one of the interlock's, and changes none of its variables,
\* keeps the invariant wherever its thread goes on.
LEMMA QuietCallKeeps ==
    ASSUME TypeOK, PumpHeld, NEW t \in Threads, NEW call, Calling(t, call),
           call \notin InterlockCalls,
           \/ Return(t) \/ Throw(t) \/ Goto(t, Len(Body[doing[t]]) + 1)
           \/ call = "checkPump" /\ Goto(t, at[t] + 3)
           \/ call = "getTarget" /\ Goto(t, at[t] + 2),
           pumpPower' = pumpPower, pumpThread' = pumpThread,
           summaryState' = summaryState, engineeringMode => engineeringMode'
    PROVE  PumpHeld'
  <1> DEFINE task == doing[t]
             i == at[t]
  <1>1. task \in Tasks /\ i \in 1..Len(Body[task]) /\ Body[task][i] = call
    BY DEF Calling, TypeOK, ControlOK
  <1>2. Len(Body[task]) \in Nat
    BY <1>1, LengthType
  <1>3. /\ call = "checkPump" => task = "start" /\ i = 6
        /\ call = "getTarget" => task = "update" /\ i = 1
    BY <1>1, CallSites
  <1>4. PICK j \in Nat : Goto(t, j) /\ Quiet(task, i, j)
    <2>1. CatchAt(task, i) \in Nat
      BY <1>2 DEF CatchAt
    <2>2. CASE Return(t)
      BY <1>1, <2>2, QuietCalls DEF Return
    <2>3. CASE Throw(t)
      BY <1>1, <2>1, <2>3, QuietCalls DEF Throw
    <2>4. CASE Goto(t, Len(Body[doing[t]]) + 1)
      BY <1>1, <1>2, <2>4, QuietCalls
    <2>5. CASE call = "checkPump" /\ Goto(t, at[t] + 3)
      BY <1>1, <1>3, <2>5, QuietCalls
    <2>6. CASE call = "getTarget" /\ Goto(t, at[t] + 2)
      BY <1>1, <1>3, <2>6, QuietCalls
    <2> QED BY <2>2, <2>3, <2>4, <2>5, <2>6
  <1> QED BY <1>1, <1>4, QuietStep

\* The thread that powers, starts, stops or switches, except for toFault, is the
\* controller: the pump thread only runs fail().
LEMMA InterlockThread ==
    ASSUME TypeOK, PumpHeld, NEW t \in Threads, doing[t] \notin {"idle", "fail"}
    PROVE  t = "controller"
  BY DEF PumpHeld, PumpThreadRuns, Threads

-----------------------------------------------------------------------------
(* The calls of the interlock *)

\* Switching the summary state keeps the interlock.
LEMMA SwitchKeeps ==
    ASSUME TypeOK, PumpHeld, NEW t \in Threads, Switch(t)
    PROVE  PumpHeld'
  <1> USE DEF TypeOK, ControlOK, Threads, Between
  <1>1. CASE SwitchState(t, "toDisabled", "Disabled")
    <2>1. (doing[t] = "start" /\ at[t] = 9) \/ (doing[t] = "disable" /\ at[t] = 5)
      BY <1>1, CallSites DEF SwitchState, Calling
    <2>2. t = "controller"
      BY <2>1, InterlockThread
    <2>3. /\ pumpPower' = pumpPower /\ pumpThread' = pumpThread
          /\ engineeringMode' = engineeringMode /\ doing' = doing
      BY <1>1 DEF SwitchState, plant, Return, Throw, Goto
    <2>4. CASE CanSwitch("Disabled")
      <3>1. /\ summaryState \in {"Standby", "Enabled"} /\ summaryState' = "Disabled"
            /\ at' = [at EXCEPT ![t] = at[t] + 1]
        BY <1>1, <2>4 DEF SwitchState, CanSwitch, From, Return, Goto
      <3> QED
        BY <2>1, <2>2, <2>3, <3>1
        DEF PumpHeld, PumpThreadRuns, PumpTakenUp, PumpTakenDown, EngineeringHeld,
            PumpThreadPowered, StandbyPumpOff, PanicOnlyInFault
    <2>5. CASE ~CanSwitch("Disabled")
      <3>1. /\ summaryState \notin {"Standby", "Enabled"} /\ summaryState' = summaryState
            /\ at' = [at EXCEPT ![t] = CatchAt(doing[t], at[t])]
        BY <1>1, <2>5 DEF SwitchState, CanSwitch, From, Throw, Goto
      <3>2. CatchAt("start", 9) = 13 /\ CatchAt("disable", 5) = 7
        BY Lengths DEF CatchAt
      <3> QED
        BY <2>1, <2>2, <2>3, <3>1, <3>2
        DEF PumpHeld, PumpThreadRuns, PumpTakenUp, PumpTakenDown, EngineeringHeld,
            PumpThreadPowered, StandbyPumpOff, PanicOnlyInFault
    <2> QED BY <2>4, <2>5
  <1>2. CASE SwitchState(t, "toEnabled", "Enabled")
    <2>1. doing[t] = "enable" /\ at[t] = 4
      BY <1>2, CallSites DEF SwitchState, Calling
    <2>2. t = "controller"
      BY <2>1, InterlockThread
    <2>3. /\ pumpPower' = pumpPower /\ pumpThread' = pumpThread
          /\ engineeringMode' = engineeringMode /\ doing' = doing
          /\ \E j \in {5, 6} : at' = [at EXCEPT ![t] = j]
      BY <1>2, <2>1, Lengths DEF SwitchState, plant, Return, Throw, Goto, CatchAt
    <2>4. \/ summaryState = "Disabled" /\ summaryState' = "Enabled"
          \/ summaryState' = summaryState
      BY <1>2 DEF SwitchState, CanSwitch, From
    <2> QED
      BY <2>1, <2>2, <2>3, <2>4
      DEF PumpHeld, PumpThreadRuns, PumpTakenUp, PumpTakenDown, EngineeringHeld,
          PumpThreadPowered, StandbyPumpOff, PanicOnlyInFault
  <1>3. CASE SwitchState(t, "toStandby", "Standby")
    <2>1. (doing[t] = "standby" /\ at[t] = 3) \/ (doing[t] = "enterControl" /\ at[t] = 1)
      BY <1>3, CallSites DEF SwitchState, Calling
    <2>2. t = "controller"
      BY <2>1, InterlockThread
    <2>3. /\ pumpPower' = pumpPower /\ pumpThread' = pumpThread
          /\ engineeringMode' = engineeringMode /\ doing' = doing
      BY <1>3 DEF SwitchState, plant, Return, Throw, Goto
    <2>4. summaryState' \in {"Standby", summaryState}
      BY <1>3 DEF SwitchState
    <2>5. pumpThread = "null" /\ ~pumpPower
      BY <2>1, <2>2 DEF PumpHeld, PumpTakenDown
    <2>6. CatchAt("standby", 3) = 5 /\ CatchAt("enterControl", 1) = 2
      BY Lengths DEF CatchAt
    <2>7. /\ at' = [at EXCEPT ![t] = at'[t]]
          /\ doing[t] = "standby" => at'[t] \in {4, 5}
          /\ doing[t] = "enterControl" => at'[t] = 2
      BY <1>3, <2>1, <2>6 DEF SwitchState, Return, Throw, Goto
    <2> QED
      BY <2>1, <2>2, <2>3, <2>4, <2>5, <2>7
      DEF PumpHeld, PumpThreadRuns, PumpTakenUp, PumpTakenDown, EngineeringHeld,
          PumpThreadPowered, StandbyPumpOff, PanicOnlyInFault
  <1>4. CASE SwitchState(t, "toFault", "Fault")
    <2>1. doing[t] = "fail" /\ at[t] = 1
      BY <1>4, CallSites DEF SwitchState, Calling
    <2>2. CanSwitch("Fault")
      BY DEF CanSwitch, From, PlantOK
    <2>3. /\ pumpPower' = pumpPower /\ pumpThread' = pumpThread
          /\ engineeringMode' = engineeringMode /\ doing' = doing
          /\ summaryState' = "Fault" /\ at' = [at EXCEPT ![t] = 2]
      BY <1>4, <2>1, <2>2 DEF SwitchState, plant, Return, Goto
    <2> QED
      BY <2>1, <2>3
      DEF PumpHeld, PumpThreadRuns, PumpTakenUp, PumpTakenDown, EngineeringHeld,
          PumpThreadPowered, StandbyPumpOff, PanicOnlyInFault
  <1> QED BY <1>1, <1>2, <1>3, <1>4 DEF Switch

\* Powering the pump up and down keeps it.
LEMMA PowerKeeps ==
    ASSUME TypeOK, PumpHeld, NEW t \in Threads,
           \/ SetCoolantPumpPower(t, "pumpPowerOn", TRUE)
           \/ SetCoolantPumpPower(t, "pumpPowerOff", FALSE)
    PROVE  PumpHeld'
  <1> USE DEF TypeOK, ControlOK, Threads, Between
  <1>1. \/ doing[t] = "start" /\ at[t] = 7
        \/ doing[t] = "coolantPumpOn" /\ at[t] = 1
        \/ doing[t] = "standby" /\ at[t] = 2
        \/ doing[t] = "coolantPumpOff" /\ at[t] = 1
    BY CallSites DEF SetCoolantPumpPower, Calling
  <1>2. t = "controller"
    BY <1>1, InterlockThread
  <1>3. /\ summaryState' = summaryState /\ engineeringMode' = engineeringMode
        /\ pumpThread' = pumpThread
    BY DEF SetCoolantPumpPower, state
  <1>4. CASE Throw(t) /\ pumpPower' = pumpPower
    <2>1. CatchAt(doing[t], at[t]) \in {4, 5, 13}
      <3>1. /\ CatchAt("start", 7) = 13 /\ CatchAt("coolantPumpOn", 1) = 4
            /\ CatchAt("standby", 2) = 5 /\ CatchAt("coolantPumpOff", 1) = 4
        BY Lengths DEF CatchAt
      <3> QED BY <1>1, <3>1
    <2>2. Quiet(doing[t], at[t], CatchAt(doing[t], at[t]))
      BY <1>1, <2>1 DEF Quiet
    <2>3. at[t] \in 1..Len(Body[doing[t]])
      BY <1>4 DEF SetCoolantPumpPower, Calling
    <2> QED
      BY <1>3, <1>4, <2>1, <2>2, <2>3, QuietStep DEF Throw
  <1>5. CASE SetCoolantPumpPower(t, "pumpPowerOn", TRUE) /\ Return(t) /\ pumpPower' = TRUE
    <2>1. \/ doing[t] = "start" /\ at[t] = 7
          \/ doing[t] = "coolantPumpOn" /\ at[t] = 1
      BY <1>5, CallSites DEF SetCoolantPumpPower, Calling
    <2> QED
      BY <1>2, <1>3, <1>5, <2>1
      DEF PumpHeld, PumpThreadRuns, PumpTakenUp, PumpTakenDown, EngineeringHeld,
          PumpThreadPowered, StandbyPumpOff, PanicOnlyInFault, Return, Goto
  <1>6. CASE SetCoolantPumpPower(t, "pumpPowerOff", FALSE) /\ Return(t) /\ pumpPower' = FALSE
    <2>1. \/ doing[t] = "standby" /\ at[t] = 2
          \/ doing[t] = "coolantPumpOff" /\ at[t] = 1
      BY <1>6, CallSites DEF SetCoolantPumpPower, Calling
    <2> QED
      BY <1>2, <1>3, <1>6, <2>1
      DEF PumpHeld, PumpThreadRuns, PumpTakenUp, PumpTakenDown, EngineeringHeld,
          PumpThreadPowered, StandbyPumpOff, PanicOnlyInFault, Return, Goto
  <1> QED BY <1>4, <1>5, <1>6 DEF SetCoolantPumpPower

\* Starting, stopping and asking the pump thread keep it: both calls that replace
\* or delete the thread have joined it.
LEMMA PumpKeeps ==
    ASSUME TypeOK, PumpHeld, NEW t \in Threads, Pump(t)
    PROVE  PumpHeld'
  <1>1. CASE RequestStop(t)
    BY <1>1 DEF RequestStop, state, plant, control, PumpHeld, PumpThreadRuns, PumpTakenUp,
         PumpTakenDown, EngineeringHeld, PumpThreadPowered, StandbyPumpOff,
         PanicOnlyInFault, Between
  <1>2. CASE StartPumpThread(t)
    <2>1. (doing[t] = "start" /\ at[t] = 8) \/ (doing[t] = "coolantPumpOn" /\ at[t] = 2)
      BY <1>2, CallSites DEF StartPumpThread, Calling, TypeOK, ControlOK
    <2>2. t = "controller"
      BY <2>1, InterlockThread
    <2> QED
      BY <1>2, <2>1, <2>2
      DEF StartPumpThread, Joined, state, plant, Return, Goto, TypeOK, ControlOK, Threads,
          PumpHeld, PumpThreadRuns, PumpTakenUp, PumpTakenDown, EngineeringHeld,
          PumpThreadPowered, StandbyPumpOff, PanicOnlyInFault, Between
  <1>3. CASE StopPumpThread(t)
    <2>1. (doing[t] = "standby" /\ at[t] = 1) \/ (doing[t] = "coolantPumpOff" /\ at[t] = 2)
      BY <1>3, CallSites DEF StopPumpThread, Calling, TypeOK, ControlOK
    <2>2. t = "controller"
      BY <2>1, InterlockThread
    <2> QED
      BY <1>3, <2>1, <2>2
      DEF StopPumpThread, Joined, state, plant, Return, Goto, TypeOK, ControlOK, Threads,
          PumpHeld, PumpThreadRuns, PumpTakenUp, PumpTakenDown, EngineeringHeld,
          PumpThreadPowered, StandbyPumpOff, PanicOnlyInFault, Between
  <1>4. ASSUME NEW call \in {"startupPump", "pumpRequest"}, NEW needed,
               PumpRequest(t, call, needed)
        PROVE  PumpHeld'
    <2>1. call \notin InterlockCalls
      BY DEF InterlockCalls
    <2>2. CASE UNCHANGED control
      BY <1>4, <2>2
      DEF PumpRequest, control, state, plant, PumpHeld, PumpThreadRuns, PumpTakenUp,
          PumpTakenDown, EngineeringHeld, PumpThreadPowered, StandbyPumpOff,
          PanicOnlyInFault, Between
    <2>3. CASE Return(t)
      BY <1>4, <2>1, <2>3, QuietCallKeeps DEF PumpRequest, state, plant
    <2> QED BY <1>4, <2>2, <2>3 DEF PumpRequest
  <1> QED BY <1>1, <1>2, <1>3, <1>4 DEF Pump

\* Leaving the engineering mode outside of Standby keeps it.
LEMMA LeaveKeeps ==
    ASSUME TypeOK, PumpHeld, NEW t \in Threads,
           SetEngineeringMode(t, "leaveEngineering", FALSE)
    PROVE  PumpHeld'
  <1>1. \/ doing[t] = "start" /\ at[t] = 10
        \/ doing[t] = "engineeringOff" /\ at[t] = 1
    BY CallSites DEF SetEngineeringMode, Calling, TypeOK, ControlOK
  <1>2. t = "controller"
    BY <1>1, InterlockThread
  <1>3. summaryState # "Standby"
    BY <1>1, <1>2 DEF PumpHeld, EngineeringHeld, Between
  <1> QED
    BY <1>1, <1>2, <1>3
    DEF SetEngineeringMode, plant, Return, Goto, TypeOK, ControlOK, Threads, PumpHeld,
        PumpThreadRuns, PumpTakenUp, PumpTakenDown, EngineeringHeld, PumpThreadPowered,
        StandbyPumpOff, PanicOnlyInFault, Between

-----------------------------------------------------------------------------
(* The other steps *)

\* The calls that report, drive, configure or poll are quiet.
LEMMA OtherCallsKeep ==
    ASSUME TypeOK, PumpHeld, NEW t \in Threads,
           Report(t) \/ Drive(t) \/ Configure(t)
    PROVE  PumpHeld'
  <1> USE DEF InterlockCalls, state, plant
  <1>1. CASE Report(t)
    <2>1. CASE SetErrorCode(t, "clearError", FALSE) \/ SetErrorCode(t, "setError", TRUE)
      BY <2>1, QuietCallKeeps DEF SetErrorCode
    <2>2. CASE SetEngineeringMode(t, "enterEngineering", TRUE)
      BY <2>2, QuietCallKeeps DEF SetEngineeringMode
    <2>3. CASE SetEngineeringMode(t, "leaveEngineering", FALSE)
      BY <2>3, LeaveKeeps
    <2>4. CASE AckComplete(t)
      <3>1. at[t] + 1 \in Nat /\ doing[t] \in Tasks /\ at[t] \in 1..Len(Body[doing[t]])
        BY <2>4 DEF AckComplete, Calling, TypeOK, ControlOK
      <3>2. Quiet(doing[t], at[t], at[t] + 1)
        BY <2>4, <3>1, QuietCalls DEF AckComplete, Calling
      <3> QED BY <2>4, <3>1, <3>2, QuietStep DEF AckComplete
    <2>5. CASE RequestExit(t)
      BY <2>5, QuietCallKeeps DEF RequestExit
    <2> QED BY <1>1, <2>1, <2>2, <2>3, <2>4, <2>5 DEF Report
  <1>2. CASE Drive(t)
    <2>1. CASE SetFCUPower(t, "fcuPowerOn", TRUE) \/ SetFCUPower(t, "fcuPowerOff", FALSE)
      BY <2>1, QuietCallKeeps DEF SetFCUPower
    <2>2. CASE \/ SetCoolantPumpPower(t, "pumpPowerOn", TRUE)
               \/ SetCoolantPumpPower(t, "pumpPowerOff", FALSE)
      BY <2>2, PowerKeeps
    <2>3. CASE CloseValve(t) \/ OpenValve(t)
      BY <2>3, QuietCallKeeps DEF CloseValve, OpenValve
    <2>4. CASE SendDemand(t, "setDemand") \/ SendDemand(t, "zeroDemand")
      BY <2>4, QuietCallKeeps DEF SendDemand
    <2> QED BY <1>2, <2>1, <2>2, <2>3, <2>4 DEF Drive
  <1>3. CASE Configure(t)
    <2>1. CASE LoadSettings(t) \/ ReportServerID(t)
      BY <2>1, QuietCallKeeps DEF LoadSettings, ReportServerID
    <2>2. CASE CheckPump(t)
      <3>1. Return(t) \/ Goto(t, at[t] + 3)
        BY <2>2 DEF CheckPump, Return
      <3> QED BY <2>2, <3>1, QuietCallKeeps DEF CheckPump
    <2>3. CASE ApplySaved(t) \/ DefaultSetpoints(t) \/ SetSetpoints(t)
      BY <2>3, QuietCallKeeps DEF ApplySaved, DefaultSetpoints, SetSetpoints
    <2> QED BY <1>3, <2>1, <2>2, <2>3 DEF Configure
  <1> QED BY <1>1, <1>2, <1>3

\* FinerControl's calls are quiet, and its fault is raised by the controller.
LEMMA FinerKeeps ==
    ASSUME TypeOK, PumpHeld, NEW t \in Threads, Finer(t)
    PROVE  PumpHeld'
  <1> USE DEF InterlockCalls, state, plant
  <1>1. ASSUME NEW call \in {"finerDemand", "finerClose", "finerFault"}, NEW new,
               SetFinerTarget(t, call, new)
        PROVE  PumpHeld'
    BY <1>1, QuietCallKeeps DEF SetFinerTarget
  <1>2. CASE GetTargetNone(t) \/ GetTargetOpen(t) \/ GetTargetClosed(t)
    BY <1>2, QuietCallKeeps DEF GetTargetNone, GetTargetOpen, GetTargetClosed
  <1>3. CASE GetTargetFails(t)
    <2>1. doing[t] = "update" /\ at[t] = 1
      BY <1>3, CallSites DEF GetTargetFails, Calling, TypeOK, ControlOK
    <2>2. t = "controller"
      BY <2>1, InterlockThread
    <2>3. /\ doing' = [doing EXCEPT !["controller"] = "fail"]
          /\ at' = [at EXCEPT !["controller"] = 1]
          /\ UNCHANGED <<pumpPower, pumpThread, summaryState, engineeringMode>>
      BY <1>3, <2>2 DEF GetTargetFails
    <2> QED
      BY <2>1, <2>2, <2>3
      DEF TypeOK, ControlOK, Threads, PumpHeld, PumpThreadRuns, PumpTakenUp, PumpTakenDown,
          EngineeringHeld, PumpThreadPowered, StandbyPumpOff, PanicOnlyInFault, Between
  <1> QED BY <1>1, <1>2, <1>3 DEF Finer

\* At the end of a task nothing is half done.
LEMMA FinishKeeps ==
    ASSUME TypeOK, PumpHeld, NEW t \in Threads, Finish(t)
    PROVE  PumpHeld'
  <1>1. /\ doing[t] = "start" => at[t] = 13
        /\ doing[t] = "coolantPumpOff" => at[t] = 4
    <2>1. at[t] = Len(Body[doing[t]]) + 1
      BY DEF Finish
    <2>2. CASE doing[t] = "start"
      BY <2>1, <2>2, Lengths
    <2>3. CASE doing[t] = "coolantPumpOff"
      BY <2>1, <2>3, Lengths
    <2> QED BY <2>2, <2>3
  <1>2. UNCHANGED <<pumpPower, summaryState, engineeringMode>>
    BY DEF Finish, state, plant
  <1>3. /\ t = "controller" => pumpThread' = pumpThread
        /\ t = "pump" /\ doing["pump"] = "fail" => pumpThread # "null"
    BY DEF Finish, PumpHeld, PumpThreadRuns
  <1>4. CASE t = "controller"
    BY <1>1, <1>2, <1>3, <1>4
    DEF Finish, TypeOK, ControlOK, Threads, PumpHeld, PumpThreadRuns, PumpTakenUp,
        PumpTakenDown, EngineeringHeld, PumpThreadPowered, StandbyPumpOff,
        PanicOnlyInFault, Between
  <1>5. CASE t = "pump"
    <2>1. doing["pump"] = "fail" /\ pumpThread # "null"
      BY <1>3, <1>5 DEF Finish, PumpHeld, PumpThreadRuns
    <2>2. pumpThread' # "null"
      BY <1>5, <2>1 DEF Finish
    <2> QED
      BY <1>2, <1>5, <2>1, <2>2
      DEF Finish, TypeOK, ControlOK, Threads, PumpHeld, PumpThreadRuns, PumpTakenUp,
          PumpTakenDown, EngineeringHeld, PumpThreadPowered, StandbyPumpOff,
          PanicOnlyInFault, Between
  <1> QED BY <1>4, <1>5 DEF Threads

\* A command taken from the queue has passed its validation.
LEMMA QueueKeeps ==
    ASSUME TypeOK, PumpHeld,
           \/ \E command \in Commands : BeginCommand(command)
           \/ BeginUpdate
           \/ BeginReload
    PROVE  PumpHeld'
  <1> USE DEF Begin, TypeOK, ControlOK, Threads, state, plant, PumpHeld, PumpThreadRuns,
              PumpTakenUp, PumpTakenDown, EngineeringHeld, PumpThreadPowered,
              StandbyPumpOff, PanicOnlyInFault, Between
  <1>1. ASSUME NEW command \in Commands, BeginCommand(command)
        PROVE  PumpHeld'
    <2>1. command \in SALCommands
      BY CommandsAssumption
    <2>2. command # "enterControl"
      BY <2>1 DEF SALCommands
    <2>3. /\ command = "engineeringOff" => summaryState \notin {"Standby", "Offline"}
          /\ command = "coolantPumpOn" => engineeringMode
      BY <1>1 DEF BeginCommand, Validates, Active
    <2> QED BY <1>1, <2>2, <2>3 DEF BeginCommand
  <1>2. CASE BeginUpdate \/ BeginReload
    BY <1>2 DEF BeginUpdate, BeginReload
  <1> QED BY <1>1, <1>2

\* The other threads keep it.
LEMMA EnvironmentKeeps ==
    ASSUME TypeOK, PumpHeld, Environment
    PROVE  PumpHeld'
  <1> USE DEF TypeOK, ControlOK, Threads, PumpHeld, PumpThreadRuns, PumpTakenUp,
              PumpTakenDown, EngineeringHeld, PumpThreadPowered, StandbyPumpOff,
              PanicOnlyInFault, Between
  <1>1. CASE PumpFault
    BY <1>1 DEF PumpFault, Begin, state, plant
  <1>2. CASE OuterLoopClock \/ TemperatureUpdate
    BY <1>2 DEF OuterLoopClock, TemperatureUpdate, state, plant, control
  <1>3. CASE Done
    <2>1. \/ summaryState = "Standby" /\ summaryState' = "Offline"
          \/ summaryState' = summaryState
      BY <1>3 DEF Done, CanSwitch, From
    <2>2. UNCHANGED <<pumpPower, engineeringMode, pumpThread, doing, at>>
      BY <1>3 DEF Done, plant, control
    <2> QED BY <2>1, <2>2
  <1>4. CASE StopThreads \/ Exit
    BY <1>4 DEF StopThreads, Exit, Joined, state, plant, control
  <1> QED BY <1>1, <1>2, <1>3, <1>4 DEF Environment

-----------------------------------------------------------------------------
(* The inductive invariant *)

\* The daemon starts with the pump off, and no pump thread.
LEMMA InitPump == Init => PumpInv
  BY InitType
  DEF Init, PumpInv, PumpThreadRuns, PumpTakenUp, PumpTakenDown, EngineeringHeld,
      PumpThreadPowered, StandbyPumpOff, PanicOnlyInFault, Between, Threads

\* Every step keeps it.
LEMMA NextPump == PumpInv /\ [Next]_vars => PumpInv'
  <1> SUFFICES ASSUME PumpInv, [Next]_vars PROVE PumpInv'
    OBVIOUS
  <1>1. TypeOK /\ PumpHeld
    BY DEF PumpInv, PumpHeld
  <1>2. TypeOK'
    BY <1>1, NextType
  <1>3. PumpHeld'
    <2>1. ASSUME NEW t \in Threads, Step(t)
          PROVE  PumpHeld'
      BY <1>1, <2>1, SwitchKeeps, OtherCallsKeep, FinerKeeps, PumpKeeps, FinishKeeps DEF Step
    <2>2. CASE UNCHANGED vars
      BY <1>1, <2>2
      DEF vars, state, plant, control, PumpHeld, PumpThreadRuns, PumpTakenUp,
          PumpTakenDown, EngineeringHeld, PumpThreadPowered, StandbyPumpOff,
          PanicOnlyInFault, Between
    <2> QED BY <1>1, <2>1, <2>2, QueueKeeps, EnvironmentKeeps DEF Next
  <1> QED BY <1>2, <1>3 DEF PumpInv, PumpHeld

\* PumpInv always holds.
THEOREM PumpInvariant == Spec => []PumpInv
  BY InitPump, NextPump, PTL DEF Spec

\* The pump thread exists only while the pump has power, however start, standby
\* and the engineering commands interleave with the faults of that thread.
THEOREM PumpThreadIsPowered == Spec => []PumpThreadPowered
  BY PumpInvariant, PTL DEF PumpInv

\* Outside of the engineering mode the pump has no power in Standby, except while
\* start is about to leave it.
THEOREM PumpOffInStandby == Spec => []StandbyPumpOff
  BY PumpInvariant, PTL DEF PumpInv

\* The shutdown of a fault is only ever carried out in Fault.
THEOREM PanicIsInFault == Spec => []PanicOnlyInFault
  BY PumpInvariant, PTL DEF PumpInv

-----------------------------------------------------------------------------
(* Leaving Fault *)

\* In Fault only standby and EnterControl can switch the state, and what they
\* have established is what FaultLeft promises.
LEMMA NextFaultLeft ==
    ASSUME PumpInv, Next, summaryState = "Fault", summaryState' # "Fault"
    PROVE  /\ summaryState' = "Standby"
           /\ pumpThread = "null" /\ doing["pump"] = "idle" /\ ~pumpPower
  <1>1. TypeOK /\ PumpHeld
    BY DEF PumpInv, PumpHeld
  <1>2. PICK t \in Threads : Step(t)
    <2>1. summaryState' = summaryState
          \/ \E t \in Threads : Step(t)
      BY DEF Next, BeginCommand, BeginUpdate, BeginReload, Environment, PumpFault,
             OuterLoopClock, TemperatureUpdate, Done, StopThreads, Exit, state, CanSwitch,
             From
    <2> QED BY <2>1
  <1>3. Switch(t)
    <2>1. Report(t) => summaryState' = summaryState
      BY DEF Report, SetErrorCode, SetEngineeringMode, AckComplete, RequestExit, state
    <2>2. Drive(t) => summaryState' = summaryState
      BY DEF Drive, SetFCUPower, SetCoolantPumpPower, CloseValve, OpenValve, SendDemand, state
    <2>3. Finer(t) => summaryState' = summaryState
      BY DEF Finer, SetFinerTarget, GetTargetNone, GetTargetOpen, GetTargetClosed,
             GetTargetFails, state
    <2>4. Configure(t) => summaryState' = summaryState
      BY DEF Configure, LoadSettings, ReportServerID, CheckPump, ApplySaved,
             DefaultSetpoints, SetSetpoints, state
    <2>5. Pump(t) \/ Finish(t) => summaryState' = summaryState
      BY DEF Pump, RequestStop, StartPumpThread, StopPumpThread, PumpRequest, Finish, state
    <2> QED BY <1>2, <2>1, <2>2, <2>3, <2>4, <2>5 DEF Step
  <1>4. SwitchState(t, "toStandby", "Standby") /\ CanSwitch("Standby")
    BY <1>3 DEF Switch, SwitchState, CanSwitch, From
  <1>5. (doing[t] = "standby" /\ at[t] = 3) \/ (doing[t] = "enterControl" /\ at[t] = 1)
    BY <1>1, <1>4, CallSites DEF SwitchState, Calling, TypeOK, ControlOK
  <1>6. t = "controller"
    BY <1>1, <1>5, InterlockThread
  <1>7. pumpThread = "null" /\ ~pumpPower
    BY <1>1, <1>5, <1>6 DEF PumpHeld, PumpTakenDown, Between
  <1>8. doing["pump"] = "idle"
    BY <1>1, <1>7 DEF PumpHeld, PumpThreadRuns
  <1> QED BY <1>4, <1>7, <1>8 DEF SwitchState

\* Fault is left only to Standby, with the pump thread joined and the pump off,
\* whatever failed on the way there.
THEOREM FaultIsLeftSafely == Spec => FaultLeft
  <1>1. PumpInv /\ [Next]_vars =>
          [summaryState = "Fault" /\ summaryState' # "Fault" =>
             /\ summaryState' = "Standby"
             /\ pumpThread = "null" /\ doing["pump"] = "idle"
             /\ ~pumpPower]_vars
    BY NextFaultLeft
  <1> QED BY <1>1, PumpInvariant, PTL DEF Spec, FaultLeft

-----------------------------------------------------------------------------
(* Who holds the mutex of FinerControl *)

\* Between two calls it is held by get_target's fail() alone, on its way to the
\* set_target that wants it again.
HeldByFail == finerLock => Between("controller", "fail", {1, 2, 3})

\* A thread moves nothing but itself.
LEMMA MovesItself ==
    ASSUME TypeOK, NEW t \in Threads, NEW u \in Threads, u # t, Step(t)
    PROVE  doing'[u] = doing[u] /\ at'[u] = at[u]
  <1> USE DEF Return, Throw, Goto, TypeOK, ControlOK
  <1>1. CASE Switch(t)
    BY <1>1 DEF Switch, SwitchState
  <1>2. CASE Report(t)
    BY <1>2 DEF Report, SetErrorCode, SetEngineeringMode, AckComplete, RequestExit
  <1>3. CASE Drive(t)
    BY <1>3 DEF Drive, SetFCUPower, SetCoolantPumpPower, CloseValve, OpenValve, SendDemand
  <1>4. CASE Finer(t)
    BY <1>4 DEF Finer, SetFinerTarget, GetTargetNone, GetTargetOpen, GetTargetClosed,
                GetTargetFails
  <1>5. CASE Configure(t)
    BY <1>5 DEF Configure, LoadSettings, ReportServerID, CheckPump, ApplySaved,
                DefaultSetpoints, SetSetpoints
  <1>6. CASE Pump(t)
    BY <1>6 DEF Pump, RequestStop, StartPumpThread, StopPumpThread, PumpRequest, control
  <1>7. CASE Finish(t)
    BY <1>7 DEF Finish
  <1> QED BY <1>1, <1>2, <1>3, <1>4, <1>5, <1>6, <1>7 DEF Step

\* Only get_target keeps the mutex when it calls fail().
LEMMA StepLocks ==
    ASSUME NEW t \in Threads, Step(t)
    PROVE  finerLock' = finerLock \/ GetTargetFails(t)
  <1> USE DEF finerVars
  <1>1. CASE Switch(t)
    BY <1>1 DEF Switch, SwitchState
  <1>2. CASE Report(t)
    BY <1>2 DEF Report, SetErrorCode, SetEngineeringMode, AckComplete, RequestExit
  <1>3. CASE Drive(t)
    BY <1>3 DEF Drive, SetFCUPower, SetCoolantPumpPower, CloseValve, OpenValve, SendDemand
  <1>4. CASE Finer(t)
    BY <1>4 DEF Finer, SetFinerTarget, GetTargetNone, GetTargetOpen, GetTargetClosed
  <1>5. CASE Configure(t)
    BY <1>5 DEF Configure, LoadSettings, ReportServerID, CheckPump, ApplySaved,
                DefaultSetpoints, SetSetpoints
  <1>6. CASE Pump(t)
    BY <1>6 DEF Pump, RequestStop, StartPumpThread, StopPumpThread, PumpRequest
  <1>7. CASE Finish(t)
    BY <1>7 DEF Finish
  <1> QED BY <1>1, <1>2, <1>3, <1>4, <1>5, <1>6, <1>7 DEF Step

\* get_target is a call of the controller's alone.
LEMMA ControllerPolls ==
    ASSUME TypeOK, PumpThreadRuns, NEW t \in Threads, Calling(t, "getTarget")
    PROVE  t = "controller"
  <1>1. doing[t] = "update"
    BY CallSites DEF Calling, TypeOK, ControlOK
  <1> QED BY <1>1 DEF PumpThreadRuns, Threads

\* fail() with the mutex held does not get past the call that locks it.
LEMMA FailStaysLocked ==
    ASSUME TypeOK, Step("controller"), finerLock,
           Between("controller", "fail", {1, 2, 3})
    PROVE  Between("controller", "fail", {1, 2, 3})'
  <1> DEFINE i == at["controller"]
  <1>1. /\ doing["controller"] = "fail" /\ i \in {1, 2, 3} /\ Len(Body["fail"]) = 6
        /\ Body["fail"][1] = "toFault" /\ Body["fail"][2] = "setError"
        /\ Body["fail"][3] = "finerFault"
    BY Bodies, Lengths DEF Between, FailBody
  <1>2. \A call : Calling("controller", call) =>
            \/ i = 1 /\ call = "toFault"
            \/ i = 2 /\ call = "setError"
            \/ i = 3 /\ call = "finerFault"
    BY <1>1 DEF Calling
  <1>3. CASE Switch("controller")
    <2>1. i = 1 /\ SwitchState("controller", "toFault", "Fault")
      BY <1>2, <1>3 DEF Switch, SwitchState
    <2>2. CanSwitch("Fault")
      BY DEF CanSwitch, From, TypeOK, PlantOK
    <2>3. Goto("controller", 2)
      BY <2>1, <2>2 DEF SwitchState, Return
    <2> QED BY <1>1, <2>3 DEF Goto, Between, TypeOK, ControlOK, Threads
  <1>4. CASE Report("controller")
    <2>1. i = 2 /\ Return("controller")
      BY <1>2, <1>4 DEF Report, SetErrorCode, SetEngineeringMode, AckComplete, RequestExit
    <2>2. Goto("controller", 3)
      BY <2>1 DEF Return
    <2> QED BY <1>1, <2>2 DEF Goto, Between, TypeOK, ControlOK, Threads
  <1>5. ~Drive("controller") /\ ~Configure("controller") /\ ~Pump("controller")
    <2>1. ~Drive("controller")
      BY <1>2 DEF Drive, SetFCUPower, SetCoolantPumpPower, CloseValve, OpenValve, SendDemand
    <2>2. ~Configure("controller")
      BY <1>2 DEF Configure, LoadSettings, ReportServerID, CheckPump, ApplySaved,
                  DefaultSetpoints, SetSetpoints
    <2>3. ~Pump("controller")
      BY <1>2 DEF Pump, RequestStop, StartPumpThread, StopPumpThread, PumpRequest
    <2> QED BY <2>1, <2>2, <2>3
  <1>6. ~Finer("controller")
    BY DEF Finer, SetFinerTarget, GetTargetNone, GetTargetOpen, GetTargetClosed,
           GetTargetFails
  <1>7. ~Finish("controller")
    BY <1>1 DEF Finish
  <1> QED BY <1>3, <1>4, <1>5, <1>6, <1>7 DEF Step

\* Every step keeps the mutex with that fail().
LEMMA NextHeld ==
    ASSUME PumpInv, HeldByFail, [Next]_vars
    PROVE  HeldByFail'
  <1>1. TypeOK /\ PumpThreadRuns /\ "controller" \in Threads
    BY DEF PumpInv, Threads
  <1>2. ASSUME NEW t \in Threads, Step(t), finerLock'
        PROVE  Between("controller", "fail", {1, 2, 3})'
    <2>1. CASE GetTargetFails(t)
      <3>1. t = "controller"
        BY <1>1, <2>1, ControllerPolls DEF GetTargetFails
      <3> QED BY <1>1, <2>1, <3>1 DEF GetTargetFails, Between, TypeOK, ControlOK
    <2>2. CASE finerLock /\ t = "controller"
      BY <1>1, <1>2, <2>2, FailStaysLocked DEF HeldByFail
    <2>3. CASE finerLock /\ t # "controller"
      BY <1>1, <1>2, <2>3, MovesItself DEF HeldByFail, Between
    <2> QED BY <1>2, <2>1, <2>2, <2>3, StepLocks
  <1>3. ASSUME ~(\E t \in Threads : Step(t)), finerLock'
        PROVE  Between("controller", "fail", {1, 2, 3})'
    <2>1. finerLock' = finerLock
      BY <1>3 DEF Next, BeginCommand, BeginUpdate, BeginReload, Environment, PumpFault,
                  OuterLoopClock, TemperatureUpdate, Done, StopThreads, Exit, vars, finerVars
    <2>2. doing["controller"] = "fail" /\ at["controller"] \in {1, 2, 3}
      BY <1>3, <2>1 DEF HeldByFail, Between
    <2>3. doing'["controller"] = doing["controller"] /\ at'["controller"] = at["controller"]
      BY <1>1, <1>3, <2>2
      DEF Next, BeginCommand, BeginUpdate, BeginReload, Environment, PumpFault, Begin,
          OuterLoopClock, TemperatureUpdate, Done, StopThreads, Exit, vars, control,
          TypeOK, ControlOK, Threads
    <2> QED BY <2>2, <2>3 DEF Between
  <1> QED BY <1>2, <1>3 DEF HeldByFail

\* Across calls FinerControl's mutex is only ever held by the controller, in the
\* fail() its own get_target called, and not beyond the call it blocks in.
THEOREM OnlyFailHoldsLock == Spec => []HeldByFail
  <1>1. Init => HeldByFail
    BY DEF Init, HeldByFail
  <1>2. PumpInv /\ HeldByFail /\ [Next]_vars => HeldByFail'
    BY NextHeld
  <1> QED BY <1>1, <1>2, PumpInvariant, PTL DEF Spec

\* So no thread that waits for the pump thread holds what that thread may wait for.
THEOREM NoCircle == Spec => []NoCircularWait
  <1>1. HeldByFail => NoCircularWait
    BY Bodies DEF HeldByFail, NoCircularWait, Joining, Between, Calling, FailBody
  <1> QED BY <1>1, OnlyFailHoldsLock, PTL

\* And a CSC whose valve never times out nor leaves its target has no thread that
\* waits for the mutex across calls at all.
THEOREM LockIsFree ==
    ASSUME ~ValveMayFault
    PROVE  Spec => []~finerLock
  <1>1. Init => ~finerLock
    BY DEF Init
  <1>2. ~finerLock /\ [Next]_vars => ~finerLock'
    <2> SUFFICES ASSUME ~finerLock, [Next]_vars PROVE ~finerLock'
      OBVIOUS
    <2>1. ASSUME NEW t \in Threads, Step(t) PROVE ~finerLock'
      BY <2>1, StepLocks DEF GetTargetFails
    <2>2. CASE ~(\E t \in Threads : Step(t))
      BY <2>2 DEF Next, BeginCommand, BeginUpdate, BeginReload, Environment, PumpFault,
                  OuterLoopClock, TemperatureUpdate, Done, StopThreads, Exit, vars, finerVars
    <2> QED BY <2>1, <2>2
  <1> QED BY <1>1, <1>2, PTL DEF Spec

-----------------------------------------------------------------------------
(* Every task runs out *)

\* The steps a task has left, two for every call: a call that joins the pump thread
\* also stops it, and an Update may still turn into a fail().
Left(t) ==
    IF doing[t] = "idle" THEN 0
    ELSE 2 * (Len(Body[doing[t]]) + 2 - at[t])
         + (IF doing[t] = "update" THEN 14 ELSE 0)
         + (IF t = "controller" /\ pumpThread = "running" THEN 1 ELSE 0)

\* A step of a thread leaves it fewer, unless it crashes the daemon, and a step of
\* another thread leaves it no more: no command can keep the controller for ever by
\* calling, throwing and catching, nor by starting what it has stopped.
TasksRunOut ==
    [][\A t \in Threads :
        /\ Step(t) => Left(t)' < Left(t) \/ process' = "crashed"
        /\ ~Step(t) /\ doing[t] # "idle" => Left(t)' <= Left(t)]_vars

\* The steps left are a number, and never many.
LEMMA LeftType ==
    ASSUME TypeOK, NEW t \in Threads
    PROVE  /\ Left(t) \in 0..27
           /\ doing[t] # "idle" => Left(t) > 0
  <1>1. doing[t] \in Tasks /\ at[t] \in 1..(Len(Body[doing[t]]) + 1)
    BY DEF TypeOK, ControlOK
  <1>2. \A task \in Tasks : Len(Body[task]) \in 0..12 /\ (task = "update" => Len(Body[task]) = 3)
    BY Lengths, TaskNames
  <1>3. PICK n \in 0..12 : n = Len(Body[doing[t]])
    BY <1>1, <1>2
  <1>4. doing[t] = "update" => n = 3
    BY <1>1, <1>2, <1>3
  <1>5. PICK i \in 1..(n + 1) : i = at[t]
    BY <1>1, <1>3
  <1>6. PICK b \in 0..1 :
            b = IF t = "controller" /\ pumpThread = "running" THEN 1 ELSE 0
    OBVIOUS
  <1>7. CASE doing[t] = "update"
    <2>1. Left(t) = 2 * (n + 2 - i) + 14 + b
      BY <1>3, <1>5, <1>6, <1>7 DEF Left
    <2>2. n = 3
      BY <1>4, <1>7
    <2>3. 2 * (n + 2 - i) + 14 + b \in 16..27
      BY <2>2
    <2> QED BY <2>1, <2>3
  <1>8. CASE doing[t] \notin {"update", "idle"}
    <2>1. Left(t) = 2 * (n + 2 - i) + 0 + b
      BY <1>3, <1>5, <1>6, <1>8 DEF Left
    <2>2. 2 * (n + 2 - i) + 0 + b \in 2..27
      OBVIOUS
    <2> QED BY <2>1, <2>2
  <1>9. CASE doing[t] = "idle"
    BY <1>9 DEF Left
  <1> QED BY <1>7, <1>8, <1>9

\* A thread that goes on in its task has fewer left, even if it starts the pump thread.
LEMMA OnwardRunsOut ==
    ASSUME TypeOK, NEW t \in Threads, doing[t] # "idle", NEW j \in Nat, j > at[t], Goto(t, j)
    PROVE  Left(t)' < Left(t)
  <1>1. doing' = doing /\ at'[t] = j
    BY DEF Goto, TypeOK, ControlOK
  <1>2. PICK n \in Nat : n = Len(Body[doing[t]])
    BY LengthType DEF TypeOK, ControlOK
  <1>3. PICK i \in Nat : i = at[t]
    BY DEF TypeOK, ControlOK
  <1>4. PICK extra \in {0, 14} : extra = IF doing[t] = "update" THEN 14 ELSE 0
    OBVIOUS
  <1>5. \E b \in {0, 1} : Left(t) = 2 * (n + 2 - i) + extra + b
    BY <1>2, <1>3, <1>4 DEF Left
  <1>6. \E b \in {0, 1} : Left(t)' = 2 * (n + 2 - j) + extra + b
    BY <1>1, <1>2, <1>4 DEF Left
  <1> QED BY <1>3, <1>5, <1>6

\* So has one whose call returns or throws, as no catch block leads back.
LEMMA CallRunsOut ==
    ASSUME TypeOK, NEW t \in Threads, NEW call, Calling(t, call),
           \/ Return(t) \/ Throw(t) \/ Goto(t, Len(Body[doing[t]]) + 1)
           \/ Goto(t, at[t] + 1) \/ Goto(t, at[t] + 2) \/ Goto(t, at[t] + 3)
    PROVE  Left(t)' < Left(t)
  <1>1. /\ doing[t] \in Tasks /\ doing[t] # "idle" /\ at[t] \in Nat
        /\ Len(Body[doing[t]]) \in Nat /\ at[t] < Len(Body[doing[t]]) + 1
    BY LengthType, Lengths DEF Calling, TypeOK, ControlOK
  <1>2. CatchAt(doing[t], at[t]) \in Nat /\ CatchAt(doing[t], at[t]) > at[t]
    BY <1>1 DEF CatchAt
  <1> QED BY <1>1, <1>2, OnwardRunsOut DEF Return, Throw

\* Every step of a thread: most are such calls,
LEMMA StepRunsOut ==
    ASSUME TypeOK, PumpThreadRuns, NEW t \in Threads, Step(t), process' # "crashed"
    PROVE  Left(t)' < Left(t)
  <1>1. CASE Switch(t)
    BY <1>1, CallRunsOut DEF Switch, SwitchState
  <1>2. CASE Report(t)
    BY <1>2, CallRunsOut DEF Report, SetErrorCode, SetEngineeringMode, AckComplete, RequestExit
  <1>3. CASE Drive(t)
    BY <1>3, CallRunsOut
    DEF Drive, SetFCUPower, SetCoolantPumpPower, CloseValve, OpenValve, SendDemand
  <1>4. CASE Finer(t)
    <2>1. CASE GetTargetFails(t)
      <3>1. doing[t] = "update" /\ at[t] = 1 /\ Len(Body["update"]) = 3 /\ Len(Body["fail"]) = 6
        BY <2>1, CallSites, Lengths DEF GetTargetFails, Calling, TypeOK, ControlOK
      <3>2. doing'[t] = "fail" /\ at'[t] = 1 /\ pumpThread' = pumpThread
        BY <2>1 DEF GetTargetFails, TypeOK, ControlOK
      <3>3. PICK b \in 0..1 : b = IF t = "controller" /\ pumpThread = "running" THEN 1 ELSE 0
        OBVIOUS
      <3>4. Left(t) = 2 * (3 + 2 - 1) + 14 + b
        BY <3>1, <3>3 DEF Left
      <3>5. Left(t)' = 2 * (6 + 2 - 1) + 0 + b
        BY <3>1, <3>2, <3>3 DEF Left
      <3> QED BY <3>4, <3>5
    <2> QED BY <1>4, <2>1, CallRunsOut
            DEF Finer, SetFinerTarget, GetTargetNone, GetTargetOpen, GetTargetClosed
  <1>5. CASE Configure(t)
    BY <1>5, CallRunsOut
    DEF Configure, LoadSettings, ReportServerID, CheckPump, ApplySaved, DefaultSetpoints,
        SetSetpoints
  <1>6. CASE Pump(t)
    <2>1. CASE RequestStop(t)
      <3>1. doing[t] \in {"start", "standby", "coolantPumpOn", "coolantPumpOff"}
        <4>1. /\ doing[t] \in Tasks /\ at[t] \in 1..Len(Body[doing[t]])
              /\ Body[doing[t]][at[t]] \in {"startPumpThread", "stopPumpThread"}
          BY <2>1 DEF RequestStop, Calling, TypeOK, ControlOK
        <4> QED BY <4>1, CallSites
      <3>2. t = "controller"
        BY <3>1 DEF PumpThreadRuns, Threads
      <3>3. doing' = doing /\ at' = at /\ pumpThread = "running" /\ pumpThread' = "stopping"
        BY <2>1 DEF RequestStop, control
      <3>4. PICK n \in Nat : n = Len(Body[doing[t]])
        BY LengthType DEF TypeOK, ControlOK
      <3>5. at[t] \in Nat
        BY DEF TypeOK, ControlOK
      <3>6. Left(t) = 2 * (n + 2 - at[t]) + 0 + 1
        BY <3>1, <3>2, <3>3, <3>4 DEF Left
      <3>7. Left(t)' = 2 * (n + 2 - at[t]) + 0 + 0
        BY <3>1, <3>2, <3>3, <3>4 DEF Left
      <3> QED BY <3>5, <3>6, <3>7
    <2> QED BY <1>6, <2>1, CallRunsOut DEF Pump, StartPumpThread, StopPumpThread, PumpRequest
  <1>7. CASE Finish(t)
    <2>1. Left(t) > 0 /\ Left(t) \in 0..27
      BY <1>7, LeftType DEF Finish
    <2>2. Left(t)' = 0
      BY <1>7 DEF Finish, Left, TypeOK, ControlOK
    <2> QED BY <2>1, <2>2
  <1> QED BY <1>1, <1>2, <1>3, <1>4, <1>5, <1>6, <1>7 DEF Step

\* and no other leaves a thread more than it had.
LEMMA OthersRunNoneUp ==
    ASSUME TypeOK, PumpThreadRuns, [Next]_vars, NEW t \in Threads, doing[t] # "idle",
           ~Step(t)
    PROVE  Left(t)' <= Left(t)
  <1>1. SUFFICES /\ doing'[t] = doing[t] /\ at'[t] = at[t]
                 /\ t = "controller" /\ pumpThread' = "running" => pumpThread = "running"
    <2>1. Left(t) \in 0..27
      BY LeftType
    <2>2. Left(t)' = Left(t) \/ Left(t)' = Left(t) - 1
      <3>1. PICK n \in Nat : n = Len(Body[doing[t]])
        BY LengthType DEF TypeOK, ControlOK
      <3>2. PICK i \in Nat : i = at[t]
        BY DEF TypeOK, ControlOK
      <3>3. PICK extra \in {0, 14} : extra = IF doing[t] = "update" THEN 14 ELSE 0
        OBVIOUS
      <3>4. Left(t) = 2 * (n + 2 - i) + extra
                      + (IF t = "controller" /\ pumpThread = "running" THEN 1 ELSE 0)
        BY <3>1, <3>2, <3>3 DEF Left
      <3>5. Left(t)' = 2 * (n + 2 - i) + extra
                       + (IF t = "controller" /\ pumpThread' = "running" THEN 1 ELSE 0)
        BY <1>1, <3>1, <3>2, <3>3 DEF Left
      <3> QED BY <1>1, <3>4, <3>5
    <2> QED BY <2>1, <2>2
  <1>2. ASSUME NEW u \in Threads, u # t, Step(u)
        PROVE  /\ doing'[t] = doing[t] /\ at'[t] = at[t]
               /\ t = "controller" /\ pumpThread' = "running" => pumpThread = "running"
    <2>1. doing'[t] = doing[t] /\ at'[t] = at[t]
      BY <1>2, MovesItself
    <2>2. ASSUME t = "controller", pumpThread' = "running" PROVE pumpThread = "running"
      <3>1. u = "pump" /\ doing[u] \in {"idle", "fail"}
        BY <1>2, <2>2 DEF PumpThreadRuns, Threads
      <3>2. ~StartPumpThread(u)
        BY <3>1, CallSites DEF StartPumpThread, Calling, TypeOK, ControlOK
      <3> QED
        BY <1>2, <2>2, <3>2
        DEF Step, Switch, SwitchState, Report, SetErrorCode, SetEngineeringMode, AckComplete,
            RequestExit, Drive, SetFCUPower, SetCoolantPumpPower, CloseValve, OpenValve,
            SendDemand, Finer, SetFinerTarget, GetTargetNone, GetTargetOpen,
            GetTargetClosed, GetTargetFails, Configure, LoadSettings, ReportServerID,
            CheckPump, ApplySaved, DefaultSetpoints, SetSetpoints, Pump, RequestStop,
            StopPumpThread, PumpRequest, Finish
    <2> QED BY <2>1, <2>2
  <1>3. CASE ~(\E u \in Threads : Step(u))
    BY <1>3
    DEF Next, BeginCommand, BeginUpdate, BeginReload, Environment, PumpFault, Begin,
        OuterLoopClock, TemperatureUpdate, Done, StopThreads, Exit, vars, control,
        TypeOK, ControlOK
  <1> QED BY <1>2, <1>3

\* Every task runs out, a fail() the controller is turned into included.
THEOREM TasksDoRunOut == Spec => TasksRunOut
  <1>1. PumpInv /\ [Next]_vars =>
          [\A t \in Threads :
             /\ Step(t) => Left(t)' < Left(t) \/ process' = "crashed"
             /\ ~Step(t) /\ doing[t] # "idle" => Left(t)' <= Left(t)]_vars
    BY StepRunsOut, OthersRunNoneUp DEF PumpInv
  <1> QED BY <1>1, PumpInvariant, PTL DEF Spec, TasksRunOut

\* And none is longer than 27 steps, whatever throws and whoever faults meanwhile.
THEOREM TasksAreShort == Spec => [](\A t \in Threads : Left(t) \in 0..27)
  <1>1. TypeOK => \A t \in Threads : Left(t) \in 0..27
    BY LeftType
  <1> QED BY <1>1, TypeCorrect, PTL
=============================================================================
