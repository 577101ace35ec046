-------------------------- MODULE ThermalCSC_proofs --------------------------
(***************************************************************************)
(* Proofs about ThermalCSC, for every set of commands and every failure.   *)
(***************************************************************************)
EXTENDS ThermalCSC, TLAPS

\* The body of every task, written out.
LEMMA Bodies ==
    /\ Body["start"] = StartBody
    /\ Body["enable"] = EnableBody
    /\ Body["disable"] = DisableBody
    /\ Body["standby"] = StandbyBody
    /\ Body["exitControl"] = <<"requestExit", "ackComplete">>
    /\ Body["engineeringOn"] = <<"enterEngineering", "ackComplete">>
    /\ Body["engineeringOff"] = <<"leaveEngineering", "ackComplete">>
    /\ Body["fanCoilsOn"] = <<"fcuPowerOn">>
    /\ Body["fanCoilsOff"] = <<"fcuPowerOff">>
    /\ Body["heaterFanDemand"] = <<"setDemand", "ackComplete">>
    /\ Body["setMixingValve"] = <<"finerDemand", "ackComplete">>
    /\ Body["coolantPumpOn"] = CoolantPumpOnBody
    /\ Body["coolantPumpOff"] = CoolantPumpOffBody
    /\ Body["coolantPumpStart"] = <<"pumpRequest", "ackComplete">>
    /\ Body["coolantPumpStop"] = <<"pumpRequest", "ackComplete">>
    /\ Body["coolantPumpFrequency"] = <<"pumpRequest", "ackComplete">>
    /\ Body["coolantPumpReset"] = <<"pumpRequest", "ackComplete">>
    /\ Body["applySetpoints"] = <<"setSetpoints">>
    /\ Body["enterControl"] = <<"toStandby">>
    /\ Body["reload"] = <<"load">>
    /\ Body["update"] = UpdateBody
    /\ Body["fail"] = FailBody
    /\ Body["idle"] = <<>>
  BY DEF Body

\* The tasks, by name.
LEMMA TaskNames ==
    Tasks =
      {"start", "enable", "disable", "standby",
       "exitControl", "engineeringOn", "engineeringOff", "fanCoilsOn",
       "fanCoilsOff", "heaterFanDemand", "setMixingValve", "coolantPumpOn",
       "coolantPumpOff", "coolantPumpStart", "coolantPumpStop", "coolantPumpFrequency",
       "coolantPumpReset", "applySetpoints",
       "enterControl", "reload", "update", "fail",
       "idle"}
  BY DEF Tasks, Body

\* Where the calls that power, start, stop or switch something are made.
LEMMA CallSites ==
    ASSUME NEW task \in Tasks, NEW i \in 1..Len(Body[task])
    PROVE  /\ Body[task][i] = "pumpPowerOn" =>
                (task = "start" /\ i = 7) \/ (task = "coolantPumpOn" /\ i = 1)
           /\ Body[task][i] = "pumpPowerOff" =>
                (task = "standby" /\ i = 2) \/ (task = "coolantPumpOff" /\ i = 1)
           /\ Body[task][i] = "startPumpThread" =>
                (task = "start" /\ i = 8) \/ (task = "coolantPumpOn" /\ i = 2)
           /\ Body[task][i] = "stopPumpThread" =>
                (task = "standby" /\ i = 1) \/ (task = "coolantPumpOff" /\ i = 2)
           /\ Body[task][i] = "checkPump" => task = "start" /\ i = 6
           /\ Body[task][i] = "getTarget" => task = "update" /\ i = 1
           /\ Body[task][i] = "toStandby" =>
                (task = "standby" /\ i = 3) \/ (task = "enterControl" /\ i = 1)
           /\ Body[task][i] = "toDisabled" =>
                (task = "start" /\ i = 9) \/ (task = "disable" /\ i = 5)
           /\ Body[task][i] = "toEnabled" => task = "enable" /\ i = 4
           /\ Body[task][i] = "toFault" => task = "fail" /\ i = 1
           /\ Body[task][i] = "leaveEngineering" =>
                (task = "start" /\ i = 10) \/ (task = "engineeringOff" /\ i = 1)
  <1>1. CASE task = "start"  BY <1>1, Bodies DEF StartBody
  <1>2. CASE task = "enable"  BY <1>2, Bodies DEF EnableBody
  <1>3. CASE task = "disable"  BY <1>3, Bodies DEF DisableBody
  <1>4. CASE task = "standby"  BY <1>4, Bodies DEF StandbyBody
  <1>5. CASE task = "exitControl"  BY <1>5, Bodies
  <1>6. CASE task = "engineeringOn"  BY <1>6, Bodies
  <1>7. CASE task = "engineeringOff"  BY <1>7, Bodies
  <1>8. CASE task = "fanCoilsOn"  BY <1>8, Bodies
  <1>9. CASE task = "fanCoilsOff"  BY <1>9, Bodies
  <1>10. CASE task = "heaterFanDemand"  BY <1>10, Bodies
  <1>11. CASE task = "setMixingValve"  BY <1>11, Bodies
  <1>12. CASE task = "coolantPumpOn"  BY <1>12, Bodies DEF CoolantPumpOnBody
  <1>13. CASE task = "coolantPumpOff"  BY <1>13, Bodies DEF CoolantPumpOffBody
  <1>14. CASE task = "coolantPumpStart"  BY <1>14, Bodies
  <1>15. CASE task = "coolantPumpStop"  BY <1>15, Bodies
  <1>16. CASE task = "applySetpoints"  BY <1>16, Bodies
  <1>17. CASE task = "enterControl"  BY <1>17, Bodies
  <1>18. CASE task = "reload"  BY <1>18, Bodies
  <1>19. CASE task = "update"  BY <1>19, Bodies DEF UpdateBody
  <1>20. CASE task = "fail"  BY <1>20, Bodies DEF FailBody
  <1>21. CASE task = "idle"  BY <1>21, Bodies
  <1>22. CASE task = "coolantPumpFrequency"  BY <1>22, Bodies
  <1>23. CASE task = "coolantPumpReset"  BY <1>23, Bodies
  <1> QED BY TaskNames, <1>1, <1>2, <1>3, <1>4, <1>5, <1>6, <1>7, <1>8, <1>9, <1>10, <1>11,
             <1>12, <1>13, <1>14, <1>15, <1>16, <1>17, <1>18, <1>19, <1>20, <1>21, <1>22, <1>23

\* How many calls every task makes.
LEMMA Lengths ==
    /\ Len(Body["start"]) = 12 /\ Len(Body["enable"]) = 5
    /\ Len(Body["disable"]) = 6 /\ Len(Body["standby"]) = 4
    /\ Len(Body["exitControl"]) = 2 /\ Len(Body["engineeringOn"]) = 2
    /\ Len(Body["engineeringOff"]) = 2 /\ Len(Body["fanCoilsOn"]) = 1
    /\ Len(Body["fanCoilsOff"]) = 1 /\ Len(Body["heaterFanDemand"]) = 2
    /\ Len(Body["setMixingValve"]) = 2 /\ Len(Body["coolantPumpOn"]) = 3
    /\ Len(Body["coolantPumpOff"]) = 3 /\ Len(Body["coolantPumpStart"]) = 2
    /\ Len(Body["coolantPumpStop"]) = 2 /\ Len(Body["coolantPumpFrequency"]) = 2
    /\ Len(Body["coolantPumpReset"]) = 2 /\ Len(Body["applySetpoints"]) = 1
    /\ Len(Body["enterControl"]) = 1 /\ Len(Body["reload"]) = 1
    /\ Len(Body["update"]) = 3 /\ Len(Body["fail"]) = 6
    /\ Len(Body["idle"]) = 0
  BY Bodies DEF StartBody, EnableBody, DisableBody, StandbyBody, CoolantPumpOnBody,
                CoolantPumpOffBody, UpdateBody, FailBody

\* Every body has a length.
LEMMA LengthType == \A task \in Tasks : Len(Body[task]) \in Nat
  BY Lengths, TaskNames

-----------------------------------------------------------------------------
(* Type correctness *)

\* A thread moved to a place of the task it runs is in a place of that task.
LEMMA GotoType ==
    ASSUME ControlOK, NEW t \in Threads, NEW i \in 1..(Len(Body[doing[t]]) + 1),
           Goto(t, i), acks' \in Seq({"complete", "failed"})
    PROVE  ControlOK'
  BY LengthType DEF ControlOK, Goto, Threads

\* A call that returns leaves the thread in a place of its task ...
LEMMA ReturnType ==
    ASSUME ControlOK, NEW t \in Threads, NEW call, Calling(t, call), Return(t)
    PROVE  ControlOK'
  <1>1. at[t] + 1 \in 1..(Len(Body[doing[t]]) + 1)
    BY LengthType DEF Calling, ControlOK
  <1> QED BY <1>1, GotoType DEF Return, ControlOK

\* ... so does one that throws, whatever catch block it continues in ...
LEMMA ThrowType ==
    ASSUME ControlOK, NEW t \in Threads, NEW call, Calling(t, call), Throw(t)
    PROVE  ControlOK'
  <1>1. CatchAt(doing[t], at[t]) \in 1..(Len(Body[doing[t]]) + 1)
    <2>1. Len(Body[doing[t]]) \in Nat
      BY LengthType DEF ControlOK
    <2>2. CASE doing[t] = "disable"
      BY <2>2, Lengths DEF CatchAt
    <2>3. CASE doing[t] = "start"
      BY <2>3, Lengths DEF CatchAt
    <2>4. CASE doing[t] # "disable" /\ doing[t] # "start"
      BY <2>1, <2>4 DEF CatchAt
    <2> QED BY <2>2, <2>3, <2>4
  <1>2. acks' \in Seq({"complete", "failed"})
    BY DEF Throw, ControlOK
  <1> QED BY <1>1, <1>2, GotoType DEF Throw

\* ... and a task begins at its first call, or at its end if it makes none.
LEMMA BeginType ==
    ASSUME ControlOK, NEW t \in Threads, NEW task \in Tasks, Begin(t, task)
    PROVE  ControlOK'
  BY LengthType DEF Begin, ControlOK, Threads

\* The calls that switch the state or report something keep the types ...
LEMMA SwitchReportType ==
    ASSUME TypeOK, NEW t \in Threads, Switch(t) \/ Report(t)
    PROVE  TypeOK'
  <1> USE DEF TypeOK
  <1>1. ASSUME NEW call, NEW new \in {"Disabled", "Enabled", "Standby", "Fault"},
               SwitchState(t, call, new)
        PROVE  TypeOK'
    <2>1. PlantOK'
      BY <1>1 DEF SwitchState, PlantOK, setup, plant, finerVars
    <2>2. ControlOK'
      BY <1>1, ReturnType, ThrowType DEF SwitchState
    <2> QED BY <2>1, <2>2
  <1>2. ASSUME NEW call, NEW error \in BOOLEAN, SetErrorCode(t, call, error)
        PROVE  TypeOK'
    <2>1. PlantOK'
      BY <1>2 DEF SetErrorCode, PlantOK, setup, plant, finerVars
    <2>2. ControlOK'
      BY <1>2, ReturnType DEF SetErrorCode
    <2> QED BY <2>1, <2>2
  <1>3. ASSUME NEW call, NEW on \in BOOLEAN, SetEngineeringMode(t, call, on)
        PROVE  TypeOK'
    <2>1. PlantOK'
      BY <1>3 DEF SetEngineeringMode, PlantOK, setup, plant, finerVars
    <2>2. ControlOK'
      BY <1>3, ReturnType DEF SetEngineeringMode
    <2> QED BY <2>1, <2>2
  <1>4. CASE AckComplete(t)
    <2>1. PlantOK'
      BY <1>4 DEF AckComplete, PlantOK, state, setup, plant, finerVars
    <2>2. acks' \in Seq({"complete", "failed"})
      BY <1>4 DEF AckComplete, ControlOK
    <2>3. at[t] + 1 \in 1..(Len(Body[doing[t]]) + 1)
      BY <1>4, LengthType DEF AckComplete, Calling, ControlOK
    <2>4. ControlOK'
      BY <1>4, <2>2, <2>3, GotoType DEF AckComplete
    <2> QED BY <2>1, <2>4
  <1>5. CASE RequestExit(t)
    <2>1. PlantOK'
      BY <1>5 DEF RequestExit, PlantOK, state, setup, plant, finerVars
    <2>2. ControlOK'
      BY <1>5, ReturnType DEF RequestExit
    <2> QED BY <2>1, <2>2
  <1> QED BY <1>1, <1>2, <1>3, <1>4, <1>5 DEF Switch, Report

\* ... so do the calls that drive the plant ...
LEMMA DriveType ==
    ASSUME TypeOK, NEW t \in Threads, Drive(t)
    PROVE  TypeOK'
  <1> USE DEF TypeOK
  <1>1. ASSUME NEW call, NEW on \in BOOLEAN,
               SetFCUPower(t, call, on) \/ SetCoolantPumpPower(t, call, on)
        PROVE  TypeOK'
    <2>1. PlantOK'
      BY <1>1 DEF SetFCUPower, SetCoolantPumpPower, PlantOK, state, setup, finerVars
    <2>2. ControlOK'
      BY <1>1, ReturnType, ThrowType DEF SetFCUPower, SetCoolantPumpPower
    <2> QED BY <2>1, <2>2
  <1>2. CASE CloseValve(t)
    <2>1. PlantOK'
      BY <1>2 DEF CloseValve, PlantOK, state, setup, finerVars
    <2>2. ControlOK'
      BY <1>2, ReturnType, ThrowType DEF CloseValve
    <2> QED BY <2>1, <2>2
  <1>3. CASE OpenValve(t)
    <2>1. PlantOK'
      BY <1>3 DEF OpenValve, PlantOK, state, setup, finerVars
    <2>2. ControlOK'
      BY <1>3, LengthType, GotoType DEF OpenValve, ControlOK
    <2> QED BY <2>1, <2>2
  <1>4. ASSUME NEW call, SendDemand(t, call)
        PROVE  TypeOK'
    <2>1. PlantOK'
      BY <1>4 DEF SendDemand, PlantOK, state, setup, plant, finerVars
    <2>2. ControlOK'
      BY <1>4, ReturnType, ThrowType DEF SendDemand
    <2> QED BY <2>1, <2>2
  <1> QED BY <1>1, <1>2, <1>3, <1>4 DEF Drive

\* ... and those of the finer control of the valve.
LEMMA FinerType ==
    ASSUME TypeOK, NEW t \in Threads, Finer(t)
    PROVE  TypeOK'
  <1> USE DEF TypeOK
  <1>1. ASSUME NEW call, NEW new \in SUBSET {"faulted", "closed", "closing", "open"},
               SetFinerTarget(t, call, new)
        PROVE  TypeOK'
    <2>1. PlantOK'
      BY <1>1 DEF SetFinerTarget, PlantOK, state, setup, plant
    <2>2. ControlOK'
      BY <1>1, ReturnType DEF SetFinerTarget
    <2> QED BY <2>1, <2>2
  <1>2. CASE GetTargetNone(t)
    <2>1. PlantOK'
      BY <1>2 DEF GetTargetNone, PlantOK, state, setup, plant, finerVars
    <2>2. ControlOK'
      BY <1>2, LengthType, GotoType DEF GetTargetNone, ControlOK
    <2> QED BY <2>1, <2>2
  <1>3. CASE GetTargetOpen(t)
    <2>1. PlantOK'
      BY <1>3 DEF GetTargetOpen, PlantOK, state, setup, plant, finerVars
    <2>2. ControlOK'
      BY <1>3, ReturnType DEF GetTargetOpen
    <2> QED BY <2>1, <2>2
  <1>4. CASE GetTargetClosed(t)
    <2>1. PlantOK'
      BY <1>4 DEF GetTargetClosed, PlantOK, state, setup, plant
    <2>2. doing[t] = "update" /\ at[t] = 1
      BY <1>4, CallSites DEF GetTargetClosed, Calling, ControlOK
    <2>3. at[t] + 2 \in 1..(Len(Body[doing[t]]) + 1)
      BY <2>2, Lengths
    <2>4. ControlOK'
      BY <1>4, <2>3, GotoType DEF GetTargetClosed, ControlOK
    <2> QED BY <2>1, <2>4
  <1>5. CASE GetTargetFails(t)
    <2>1. PlantOK'
      BY <1>5 DEF GetTargetFails, PlantOK, state, setup, plant
    <2>2. ControlOK'
      BY <1>5, Lengths, TaskNames DEF GetTargetFails, ControlOK, Threads
    <2> QED BY <2>1, <2>2
  <1>6. Closing \in SUBSET {"faulted", "closed", "closing", "open"}
    BY DEF Closing, PlantOK
  <1> QED BY <1>1, <1>2, <1>3, <1>4, <1>5, <1>6 DEF Finer

\* The calls that load the settings and choose the setpoints keep the types ...
LEMMA ConfigureType ==
    ASSUME TypeOK, NEW t \in Threads, Configure(t)
    PROVE  TypeOK'
  <1> USE DEF TypeOK
  <1>1. CASE LoadSettings(t)
    <2>1. PlantOK'
      BY <1>1, PumpConfigsAssumption DEF LoadSettings, PlantOK, state, plant, finerVars
    <2>2. ControlOK'
      BY <1>1, ReturnType, ThrowType DEF LoadSettings
    <2> QED BY <2>1, <2>2
  <1>2. CASE ReportServerID(t)
    <2>1. PlantOK'
      BY <1>2 DEF ReportServerID, PlantOK, state, setup, plant, finerVars
    <2>2. ControlOK'
      BY <1>2, ReturnType, ThrowType DEF ReportServerID
    <2> QED BY <2>1, <2>2
  <1>3. CASE CheckPump(t)
    <2>1. PlantOK'
      BY <1>3 DEF CheckPump, PlantOK, state, setup, plant, finerVars
    <2>2. doing[t] = "start" /\ at[t] = 6
      BY <1>3, CallSites DEF CheckPump, Calling, ControlOK
    <2>3. (IF pumpEnabled THEN at[t] + 1 ELSE at[t] + 3) \in 1..(Len(Body[doing[t]]) + 1)
      BY <2>2, Lengths
    <2>4. ControlOK'
      BY <1>3, <2>3, GotoType DEF CheckPump, ControlOK
    <2> QED BY <2>1, <2>4
  <1>4. CASE ApplySaved(t)
    <2>1. PlantOK'
      BY <1>4 DEF ApplySaved, PlantOK, state, plant, finerVars
    <2>2. ControlOK'
      BY <1>4, ReturnType DEF ApplySaved
    <2> QED BY <2>1, <2>2
  <1>5. CASE DefaultSetpoints(t)
    <2>1. setpoints' \in BOOLEAN
      BY <1>5 DEF DefaultSetpoints, PlantOK
    <2>2. PlantOK'
      BY <1>5, <2>1 DEF DefaultSetpoints, PlantOK, state, plant, finerVars
    <2>3. ControlOK'
      BY <1>5, ReturnType, ThrowType DEF DefaultSetpoints
    <2> QED BY <2>2, <2>3
  <1>6. CASE SetSetpoints(t)
    <2>1. PlantOK'
      BY <1>6 DEF SetSetpoints, PlantOK, state, plant, finerVars
    <2>2. ControlOK'
      BY <1>6, ReturnType DEF SetSetpoints
    <2> QED BY <2>1, <2>2
  <1> QED BY <1>1, <1>2, <1>3, <1>4, <1>5, <1>6 DEF Configure

\* ... so do those on the pump thread ...
LEMMA PumpType ==
    ASSUME TypeOK, NEW t \in Threads, Pump(t)
    PROVE  TypeOK'
  <1> USE DEF TypeOK
  <1>1. CASE RequestStop(t)
    <2>1. PlantOK'
      BY <1>1 DEF RequestStop, PlantOK, state, setup, plant, finerVars
    <2>2. ControlOK'
      BY <1>1 DEF RequestStop, ControlOK, control
    <2> QED BY <2>1, <2>2
  <1>2. CASE StartPumpThread(t)
    <2>1. PlantOK'
      BY <1>2 DEF StartPumpThread, PlantOK, state, setup, plant, finerVars
    <2>2. ControlOK'
      BY <1>2, ReturnType DEF StartPumpThread
    <2> QED BY <2>1, <2>2
  <1>3. CASE StopPumpThread(t)
    <2>1. PlantOK'
      BY <1>3 DEF StopPumpThread, PlantOK, state, setup, plant, finerVars
    <2>2. ControlOK'
      BY <1>3, ReturnType DEF StopPumpThread
    <2> QED BY <2>1, <2>2
  <1>4. ASSUME NEW call, NEW needed, PumpRequest(t, call, needed)
        PROVE  TypeOK'
    <2>1. PlantOK'
      BY <1>4 DEF PumpRequest, PlantOK, state, setup, plant, finerVars
    <2>2. CASE needed /\ pumpThread = "null"
      BY <1>4, <2>1, <2>2 DEF PumpRequest, ControlOK, control
    <2>3. CASE ~(needed /\ pumpThread = "null")
      BY <1>4, <2>1, <2>3, ReturnType DEF PumpRequest
    <2> QED BY <2>2, <2>3
  <1> QED BY <1>1, <1>2, <1>3, <1>4 DEF Pump

\* ... and the end of a task.
LEMMA FinishType ==
    ASSUME TypeOK, NEW t \in Threads, Finish(t)
    PROVE  TypeOK'
  <1>1. PlantOK'
    BY DEF TypeOK, Finish, PlantOK, state, setup, plant, finerVars
  <1>2. ControlOK'
    BY Lengths, TaskNames DEF TypeOK, Finish, ControlOK, Threads
  <1> QED BY <1>1, <1>2 DEF TypeOK

\* A step of a thread is one of these.
LEMMA StepType ==
    ASSUME TypeOK, NEW t \in Threads, Step(t)
    PROVE  TypeOK'
  BY SwitchReportType, DriveType, FinerType, ConfigureType, PumpType, FinishType DEF Step

\* Taking a task from the queue keeps the types ...
LEMMA QueueType ==
    ASSUME TypeOK,
           \/ \E command \in Commands : BeginCommand(command)
           \/ BeginUpdate
           \/ BeginReload
    PROVE  TypeOK'
  <1> USE DEF TypeOK
  <1>1. "controller" \in Threads
    BY DEF Threads
  <1>2. ASSUME NEW command \in Commands, BeginCommand(command)
        PROVE  TypeOK'
    <2>1. PlantOK'
      BY <1>2 DEF BeginCommand, PlantOK, state, setup, plant, finerVars
    <2>2. command \in Tasks
      BY CommandsAssumption, TaskNames DEF SALCommands
    <2>3. ControlOK'
      BY <1>1, <1>2, <2>2, BeginType DEF BeginCommand
    <2> QED BY <2>1, <2>3
  <1>3. CASE BeginUpdate
    <2>1. PlantOK'
      BY <1>3, MaxUpdatesAssumption DEF BeginUpdate, PlantOK, state, setup, plant, finerVars
    <2>2. ControlOK'
      BY <1>1, <1>3, TaskNames, BeginType DEF BeginUpdate
    <2> QED BY <2>1, <2>2
  <1>4. CASE BeginReload
    <2>1. PlantOK'
      BY <1>4 DEF BeginReload, PlantOK, state, setup, plant, finerVars
    <2>2. ControlOK'
      BY <1>1, <1>4, TaskNames, BeginType DEF BeginReload
    <2> QED BY <2>1, <2>2
  <1> QED BY <1>2, <1>3, <1>4

\* ... and so do the other threads.
LEMMA EnvironmentType ==
    ASSUME TypeOK, Environment
    PROVE  TypeOK'
  <1> USE DEF TypeOK
  <1>1. CASE PumpFault
    <2>1. PlantOK'
      BY <1>1 DEF PumpFault, PlantOK, state, setup, plant, finerVars
    <2>2. ControlOK'
      BY <1>1, TaskNames, BeginType DEF PumpFault, Threads
    <2> QED BY <2>1, <2>2
  <1>2. CASE OuterLoopClock
    <2>1. PlantOK'
      BY <1>2, MaxUpdatesAssumption DEF OuterLoopClock, PlantOK, state, setup, plant, finerVars
    <2>2. ControlOK'
      BY <1>2 DEF OuterLoopClock, ControlOK, control
    <2> QED BY <2>1, <2>2
  <1>3. CASE TemperatureUpdate
    <2>1. PlantOK'
      BY <1>3 DEF TemperatureUpdate, PlantOK, state, plant, finerVars
    <2>2. ControlOK'
      BY <1>3 DEF TemperatureUpdate, ControlOK, control
    <2> QED BY <2>1, <2>2
  <1>4. CASE Done \/ StopThreads \/ Exit
    <2>1. PlantOK'
      BY <1>4 DEF Done, StopThreads, Exit, PlantOK, state, setup, plant, finerVars
    <2>2. ControlOK'
      BY <1>4 DEF Done, StopThreads, Exit, ControlOK, control
    <2> QED BY <2>1, <2>2
  <1> QED BY <1>1, <1>2, <1>3, <1>4 DEF Environment

\* The daemon starts with every variable in its type.
LEMMA InitType == Init => TypeOK
  <1> SUFFICES ASSUME Init PROVE TypeOK
    OBVIOUS
  <1>1. updates \in 0..MaxUpdates
    BY MaxUpdatesAssumption DEF Init
  <1>2. PlantOK
    BY <1>1 DEF Init, PlantOK
  <1>3. ControlOK
    BY Lengths, TaskNames DEF Init, ControlOK, Threads
  <1> QED BY <1>2, <1>3 DEF TypeOK

\* Every step, and every stutter, keeps the types.
LEMMA NextType == TypeOK /\ [Next]_vars => TypeOK'
  <1> SUFFICES ASSUME TypeOK, [Next]_vars PROVE TypeOK'
    OBVIOUS
  <1>1. CASE UNCHANGED vars
    <2>1. PlantOK'
      BY <1>1 DEF TypeOK, PlantOK, vars, state, setup, plant, finerVars
    <2>2. ControlOK'
      BY <1>1 DEF TypeOK, ControlOK, vars, control
    <2> QED BY <2>1, <2>2 DEF TypeOK
  <1> QED BY <1>1, StepType, QueueType, EnvironmentType DEF Next

\* Type correctness: in particular, no thread is ever past the end of its task,
\* whatever call of it throws.
THEOREM TypeCorrect == Spec => []TypeOK
  BY InitType, NextType, PTL DEF Spec
=============================================================================
