----------------------- MODULE ThermalCSC_session_proofs -----------------------
(***************************************************************************)
(* What start and enable have established when they switch the state, a    *)
(* fault of the pump thread between any two of their calls or not, and the *)
(* refinement of SummaryStateSpec that rests on it.                        *)
(***************************************************************************)
EXTENDS ThermalCSC_pump_proofs

-----------------------------------------------------------------------------
(* The invariant *)

\* enable keeps what its calls have established, or the CSC has faulted.
EnableHolds ==
    /\ Between("controller", "enable", 2..4) => fcuPower \/ summaryState = "Fault"
    /\ Between("controller", "enable", 3..4) /\ pumpEnabled => pumpThread # "null"
    /\ Between("controller", "enable", {4}) => setpoints

\* start keeps the error code clear, or the CSC has faulted.
StartHolds ==
    Between("controller", "start", 3..9) => ~errorCode \/ summaryState = "Fault"

\* A pump thread that was stopped or ended is about to be joined, has faulted the
\* CSC, or is stopped with the daemon.
StoppedWhy ==
    pumpThread \in {"stopping", "ended"} =>
        \/ summaryState = "Fault"
        \/ Calling("controller", "startPumpThread") \/ Calling("controller", "stopPumpThread")
        \/ process \in {"stopping", "exited"} /\ doing["controller"] = "idle"

SessionInv == EnableHolds /\ StartHolds /\ StoppedWhy

\* The calls SessionInv speaks about.
SessionCalls ==
    {"load", "clearError", "setError", "fcuPowerOn", "fcuPowerOff", "startupPump",
     "defaultSetpoints", "applySaved", "setSetpoints", "startPumpThread", "stopPumpThread",
     "toDisabled", "toEnabled", "toStandby", "toFault"}

\* The commands that only pass a request to the pump thread.
PumpRequests ==
    {"coolantPumpStart", "coolantPumpStop", "coolantPumpFrequency", "coolantPumpReset"}

\* Where they are made.
LEMMA SessionSites ==
    ASSUME NEW task \in Tasks, NEW i \in 1..Len(Body[task])
    PROVE  /\ Body[task][i] = "load" =>
                (task = "start" /\ i = 1) \/ (task = "reload" /\ i = 1)
           /\ Body[task][i] = "clearError" => task = "start" /\ i = 2
           /\ Body[task][i] = "setError" => task = "fail" /\ i = 2
           /\ Body[task][i] = "fcuPowerOn" =>
                (task = "enable" /\ i = 1) \/ (task = "fanCoilsOn" /\ i = 1)
           /\ Body[task][i] = "fcuPowerOff" =>
                \/ task = "disable" /\ i = 3
                \/ task = "fail" /\ i = 5
                \/ task = "fanCoilsOff" /\ i = 1
           /\ Body[task][i] = "startupPump" => task = "enable" /\ i = 2
           /\ Body[task][i] = "defaultSetpoints" => task = "enable" /\ i = 3
           /\ Body[task][i] = "applySaved" => task = "start" /\ i = 11
           /\ Body[task][i] = "setSetpoints" => task = "applySetpoints" /\ i = 1
           /\ Body[task][i] = "openValve" => task = "update" /\ i = 2
           /\ Body[task][i] = "requestExit" => task = "exitControl"
           /\ Body[task][i] = "pumpRequest" => task \in PumpRequests
  <1>1. CASE task = "start"
    BY <1>1, Bodies DEF StartBody
  <1>2. CASE task = "enable"
    BY <1>2, Bodies DEF EnableBody
  <1>3. CASE task = "disable"
    BY <1>3, Bodies DEF DisableBody
  <1>4. CASE task = "standby"
    BY <1>4, Bodies DEF StandbyBody
  <1>5. CASE task = "fail"
    BY <1>5, Bodies DEF FailBody
  <1>6. CASE task = "update"
    BY <1>6, Bodies DEF UpdateBody
  <1>7. CASE task \in {"coolantPumpOn", "coolantPumpOff"}
    BY <1>7, Bodies DEF CoolantPumpOnBody, CoolantPumpOffBody
  <1>8. CASE task \in PumpRequests \cup {"applySetpoints"}
    BY <1>8, Bodies DEF PumpRequests
  <1>9. CASE task \in {"enterControl", "reload", "exitControl", "idle"}
    BY <1>9, Bodies
  <1>10. CASE task \in {"engineeringOn", "engineeringOff", "setMixingValve"}
    BY <1>10, Bodies
  <1>11. CASE task \in {"fanCoilsOn", "fanCoilsOff", "heaterFanDemand"}
    BY <1>11, Bodies
  <1> QED
    BY <1>1, <1>2, <1>3, <1>4, <1>5, <1>6, <1>7, <1>8, <1>9, <1>10, <1>11, TaskNames
       DEF PumpRequests

\* All calls of enable but the acknowledgement are session calls, and so are those
\* that start of a clear error code.
LEMMA QuietSession ==
    ASSUME NEW task \in Tasks, NEW i \in 1..Len(Body[task]),
           Body[task][i] \notin SessionCalls
    PROVE  /\ task = "enable" => i = 5
           /\ task = "start" => i \in 3..12 /\ CatchAt(task, i) \in {6, 13}
           /\ i + 1 \in Nat /\ CatchAt(task, i) \in Nat
           /\ task = "enable" => CatchAt(task, i) = 6
  <1>1. CASE task = "enable"
    BY <1>1, Bodies, Lengths DEF EnableBody, SessionCalls, CatchAt
  <1>2. CASE task = "start"
    BY <1>2, Bodies, Lengths DEF StartBody, SessionCalls, CatchAt
  <1>3. CASE task \notin {"enable", "start"}
    <2>1. Len(Body[task]) + 1 \in Nat /\ i + 1 \in Nat
      BY LengthType
    <2> QED BY <1>3, <2>1 DEF CatchAt
  <1> QED BY <1>1, <1>2, <1>3

-----------------------------------------------------------------------------
(* Steps that are none of the session's *)

Untouched ==
    UNCHANGED <<summaryState, fcuPower, setpoints, pumpEnabled, errorCode, pumpThread, process>>

\* A call that is not one of the session's keeps the invariant, however it goes on.
LEMMA OtherCallKeeps ==
    ASSUME TypeOK, PumpHeld, SessionInv, NEW t \in Threads, NEW call, Calling(t, call),
           call \notin SessionCalls, NEW j \in Nat, Goto(t, j),
           \/ j \in {at[t] + 1, CatchAt(doing[t], at[t])}
           \/ call = "checkPump" /\ j = at[t] + 3
           \/ call = "getTarget" /\ j > 1,
           Untouched
    PROVE  SessionInv'
  <1> USE DEF TypeOK, ControlOK, Threads, Between
  <1>1. doing[t] \in Tasks /\ at[t] \in 1..Len(Body[doing[t]]) /\ Body[doing[t]][at[t]] = call
    BY DEF Calling
  <1>2. /\ call = "checkPump" => doing[t] = "start" /\ at[t] = 6
        /\ call = "getTarget" => doing[t] = "update"
    BY <1>1, CallSites
  <1>3. /\ doing[t] = "enable" => j = 6
        /\ doing[t] = "start" => at[t] \in 3..12 /\ j \in Nat
    <2>1. /\ doing[t] = "enable" => at[t] = 5 /\ CatchAt(doing[t], at[t]) = 6
          /\ doing[t] = "start" => at[t] \in 3..12
      BY <1>1, QuietSession
    <2> QED BY <1>2, <2>1
  <1>4. /\ doing' = doing /\ at' = [at EXCEPT ![t] = j]
        /\ UNCHANGED <<summaryState, fcuPower, setpoints, pumpEnabled, errorCode,
                       pumpThread, process>>
    BY DEF Goto, Untouched
  <1>5. EnableHolds'
    BY <1>3, <1>4 DEF SessionInv, EnableHolds
  <1>6. StartHolds'
    <2>1. CASE t = "controller" /\ doing[t] = "start" /\ at[t] \in 3..9
      BY <1>4, <2>1 DEF SessionInv, StartHolds
    <2>2. CASE t = "controller" /\ doing[t] = "start" /\ at[t] \in 10..12
      <3>1. j \in {at[t] + 1, 13}
        BY <1>1, <1>2, <2>2, Lengths DEF CatchAt
      <3> QED BY <1>4, <2>2, <3>1 DEF StartHolds
    <2>3. CASE t # "controller" \/ doing[t] # "start"
      BY <1>4, <2>3 DEF SessionInv, StartHolds
    <2> QED BY <1>3, <2>1, <2>2, <2>3
  <1>7. StoppedWhy'
    <2>1. t = "controller" => call \notin {"startPumpThread", "stopPumpThread"}
      BY DEF SessionCalls
    <2>2. \A c : Calling("controller", c) /\ t # "controller" => Calling("controller", c)'
      BY <1>4 DEF Calling
    <2>3. \A c : t = "controller" /\ Calling("controller", c) => c = call
      BY DEF Calling
    <2> QED BY <1>4, <2>1, <2>2, <2>3 DEF SessionInv, StoppedWhy
  <1> QED BY <1>5, <1>6, <1>7 DEF SessionInv

-----------------------------------------------------------------------------
(* The calls of the session *)

\* Where a thread is that makes a call.
LEMMA Place ==
    ASSUME TypeOK, NEW t \in Threads, NEW call, Calling(t, call)
    PROVE  /\ doing[t] \in Tasks
           /\ at[t] \in 1..Len(Body[doing[t]])
           /\ Body[doing[t]][at[t]] = call
           /\ doing[t] # "idle"
  BY Lengths DEF Calling, TypeOK, ControlOK

\* Switching the state keeps the invariant.
LEMMA SwitchHolds ==
    ASSUME TypeOK, PumpHeld, SessionInv, NEW t \in Threads, Switch(t)
    PROVE  SessionInv'
  <1> USE DEF TypeOK, ControlOK, Threads, Between
  <1>0. ASSUME NEW call, NEW new, SwitchState(t, call, new)
        PROVE  /\ UNCHANGED <<fcuPower, setpoints, pumpEnabled, errorCode, pumpThread,
                              process, doing>>
               /\ Calling(t, call)
               /\ \E j : at' = [at EXCEPT ![t] = j]
    BY <1>0 DEF SwitchState, setup, plant, Return, Throw, Goto
  <1>1. CASE SwitchState(t, "toDisabled", "Disabled")
    <2>1. (doing[t] = "start" /\ at[t] = 9) \/ (doing[t] = "disable" /\ at[t] = 5)
      BY <1>1, CallSites DEF SwitchState, Calling
    <2>2. t = "controller"
      BY <2>1, InterlockThread
    <2>3. CatchAt("start", 9) = 13
      BY Lengths DEF CatchAt
    <2>4. doing[t] = "start" => at'[t] \in {10, 13}
      BY <1>1, <2>1, <2>3 DEF SwitchState, Return, Throw, Goto
    <2>5. summaryState' # summaryState => summaryState # "Fault"
      BY <1>1 DEF SwitchState, CanSwitch, From
    <2>6. /\ ~Calling("controller", "startPumpThread")
          /\ ~Calling("controller", "stopPumpThread")
      BY <1>0, <1>1, <2>2 DEF Calling
    <2> QED
      BY <1>0, <1>1, <2>1, <2>2, <2>4, <2>5, <2>6
      DEF SessionInv, EnableHolds, StartHolds, StoppedWhy
  <1>2. CASE SwitchState(t, "toEnabled", "Enabled")
    <2>1. doing[t] = "enable" /\ at[t] = 4
      BY <1>2, CallSites DEF SwitchState, Calling
    <2>2. t = "controller"
      BY <2>1, InterlockThread
    <2>3. at'[t] \in {5, 6}
      BY <1>2, <2>1, Lengths DEF SwitchState, Return, Throw, Goto, CatchAt
    <2>4. summaryState' # summaryState => summaryState # "Fault"
      BY <1>2 DEF SwitchState, CanSwitch, From
    <2>5. /\ ~Calling("controller", "startPumpThread")
          /\ ~Calling("controller", "stopPumpThread")
      BY <1>0, <1>2, <2>2 DEF Calling
    <2>6. doing' = doing /\ at'["controller"] \notin 2..4 /\ doing["controller"] = "enable"
      BY <1>0, <1>2, <2>1, <2>2, <2>3
    <2>7. EnableHolds' /\ StartHolds'
      BY <2>6 DEF EnableHolds, StartHolds
    <2>8. StoppedWhy'
      BY <1>0, <1>2, <2>1, <2>2, <2>4, <2>5, <2>6 DEF SessionInv, StoppedWhy
    <2> QED BY <2>7, <2>8 DEF SessionInv
  <1>3. CASE SwitchState(t, "toStandby", "Standby")
    <2>1. (doing[t] = "standby" /\ at[t] = 3) \/ (doing[t] = "enterControl" /\ at[t] = 1)
      BY <1>3, CallSites DEF SwitchState, Calling
    <2>2. t = "controller"
      BY <2>1, InterlockThread
    <2>3. pumpThread = "null"
      BY <2>1, <2>2 DEF PumpHeld, PumpTakenDown
    <2> QED
      BY <1>0, <1>3, <2>1, <2>2, <2>3 DEF SessionInv, EnableHolds, StartHolds, StoppedWhy
  <1>4. CASE SwitchState(t, "toFault", "Fault")
    <2>1. doing[t] = "fail"
      BY <1>4, CallSites DEF SwitchState, Calling
    <2>2. summaryState' = "Fault"
      BY <1>4 DEF SwitchState, CanSwitch, From, PlantOK
    <2> QED
      BY <1>0, <1>4, <2>1, <2>2 DEF SessionInv, EnableHolds, StartHolds, StoppedWhy
  <1> QED BY <1>1, <1>2, <1>3, <1>4 DEF Switch

\* Reporting an error keeps it: only fail() does, in Fault.
LEMMA ErrorHolds ==
    ASSUME TypeOK, PumpHeld, SessionInv, NEW t \in Threads,
           \/ SetErrorCode(t, "clearError", FALSE)
           \/ SetErrorCode(t, "setError", TRUE)
    PROVE  SessionInv'
  <1> USE DEF TypeOK, ControlOK, Threads, Between
  <1>1. /\ UNCHANGED <<summaryState, fcuPower, setpoints, pumpEnabled, pumpThread, process, doing>>
        /\ at' = [at EXCEPT ![t] = at[t] + 1]
    BY DEF SetErrorCode, setup, plant, Return, Goto
  <1>2. PICK call \in {"clearError", "setError"} : Calling(t, call)
    BY DEF SetErrorCode
  <1>3. \/ doing[t] = "start" /\ at[t] = 2 /\ errorCode' = FALSE
        \/ doing[t] = "fail" /\ at[t] = 2 /\ summaryState = "Fault"
    <2>1. CASE SetErrorCode(t, "clearError", FALSE)
      BY <2>1, Place, SessionSites DEF SetErrorCode
    <2>2. CASE SetErrorCode(t, "setError", TRUE)
      <3>1. doing[t] = "fail" /\ at[t] = 2
        BY <2>2, Place, SessionSites DEF SetErrorCode
      <3> QED BY <3>1 DEF PumpHeld, PanicOnlyInFault
    <2> QED BY <2>1, <2>2
  <1>4. \A c \in {"startPumpThread", "stopPumpThread"} :
            Calling("controller", c) => Calling("controller", c)'
    BY <1>1, <1>2 DEF Calling
  <1> QED BY <1>1, <1>3, <1>4 DEF SessionInv, EnableHolds, StartHolds, StoppedWhy

\* Powering the FCUs keeps it: enable powers them on, and only a fault powers them
\* off while it runs.
LEMMA HeatingHolds ==
    ASSUME TypeOK, PumpHeld, SessionInv, NEW t \in Threads,
           \/ SetFCUPower(t, "fcuPowerOn", TRUE)
           \/ SetFCUPower(t, "fcuPowerOff", FALSE)
    PROVE  SessionInv'
  <1> USE DEF TypeOK, ControlOK, Threads, Between
  <1>1. /\ UNCHANGED <<summaryState, setpoints, pumpEnabled, pumpThread, errorCode, process, doing>>
        /\ \E j : at' = [at EXCEPT ![t] = j]
    BY DEF SetFCUPower, state, setup, Return, Throw, Goto
  <1>2. PICK call \in {"fcuPowerOn", "fcuPowerOff"} : Calling(t, call)
    BY DEF SetFCUPower
  <1>3. \/ doing[t] = "enable" /\ (fcuPower' = TRUE \/ at'[t] = 6) /\ at'[t] \in {2, 6}
        \/ doing[t] = "fail" /\ summaryState = "Fault"
        \/ doing[t] \in {"disable", "fanCoilsOn", "fanCoilsOff"}
    <2>1. CASE SetFCUPower(t, "fcuPowerOn", TRUE)
      <3>1. (doing[t] = "enable" /\ at[t] = 1) \/ doing[t] = "fanCoilsOn"
        BY <2>1, Place, SessionSites DEF SetFCUPower
      <3>2. CatchAt("enable", 1) = 6
        BY Lengths DEF CatchAt
      <3>3. \/ fcuPower' = TRUE /\ at' = [at EXCEPT ![t] = at[t] + 1]
            \/ at' = [at EXCEPT ![t] = CatchAt(doing[t], at[t])]
        BY <2>1 DEF SetFCUPower, Return, Throw, Goto
      <3> QED BY <3>1, <3>2, <3>3
    <2>2. CASE SetFCUPower(t, "fcuPowerOff", FALSE)
      <3>1. (doing[t] = "fail" /\ at[t] = 5) \/ doing[t] \in {"disable", "fanCoilsOff"}
        BY <2>2, Place, SessionSites DEF SetFCUPower
      <3> QED BY <3>1 DEF PumpHeld, PanicOnlyInFault
    <2> QED BY <2>1, <2>2
  <1>4. doing[t] \notin {"idle", "fail"} => t = "controller"
    BY InterlockThread
  <1>5. \A c \in {"startPumpThread", "stopPumpThread"} :
            Calling("controller", c) => Calling("controller", c)'
    BY <1>1, <1>2 DEF Calling
  <1> QED BY <1>1, <1>3, <1>4, <1>5 DEF SessionInv, EnableHolds, StartHolds, StoppedWhy

\* Loading the settings keeps it: nothing of the session is under way then.
LEMMA LoadHolds ==
    ASSUME TypeOK, PumpHeld, SessionInv, NEW t \in Threads, LoadSettings(t)
    PROVE  SessionInv'
  <1> USE DEF TypeOK, ControlOK, Threads, Between
  <1>1. /\ UNCHANGED <<summaryState, fcuPower, setpoints, pumpThread, errorCode, process, doing>>
        /\ Calling(t, "load")
        /\ \E j : at' = [at EXCEPT ![t] = j]
    BY DEF LoadSettings, state, plant, Return, Throw, Goto
  <1>2. doing[t] \in {"start", "reload"} /\ at[t] = 1
    BY <1>1, Place, SessionSites
  <1>3. t = "controller"
    BY <1>2, InterlockThread
  <1>4. doing[t] = "start" => at'[t] \in {2, 13}
    <2>1. CatchAt("start", 1) = 13
      BY Lengths DEF CatchAt
    <2> QED BY <1>2, <2>1 DEF LoadSettings, Return, Throw, Goto
  <1>5. /\ ~Calling("controller", "startPumpThread")
        /\ ~Calling("controller", "stopPumpThread")
    BY <1>1, <1>3 DEF Calling
  <1> QED BY <1>1, <1>2, <1>3, <1>4, <1>5 DEF SessionInv, EnableHolds, StartHolds, StoppedWhy

\* The setpoints keep it: enable makes sure of them.
LEMMA SetpointsHold ==
    ASSUME TypeOK, PumpHeld, SessionInv, NEW t \in Threads,
           ApplySaved(t) \/ DefaultSetpoints(t) \/ SetSetpoints(t)
    PROVE  SessionInv'
  <1> USE DEF TypeOK, ControlOK, Threads, Between
  <1>1. /\ UNCHANGED <<summaryState, fcuPower, pumpEnabled, pumpThread, errorCode, process, doing>>
        /\ \E j : at' = [at EXCEPT ![t] = j]
    BY DEF ApplySaved, DefaultSetpoints, SetSetpoints, state, plant, Return, Throw, Goto
  <1>2. PICK call \in {"applySaved", "defaultSetpoints", "setSetpoints"} : Calling(t, call)
    BY DEF ApplySaved, DefaultSetpoints, SetSetpoints
  <1>3. \/ doing[t] = "start" /\ at[t] = 11 /\ at'[t] = 12
        \/ doing[t] = "enable" /\ at[t] = 3 /\ at'[t] \in {4, 6} /\ (at'[t] = 4 => setpoints')
        \/ doing[t] = "applySetpoints"
    <2>1. CASE ApplySaved(t)
      <3>1. doing[t] = "start" /\ at[t] = 11
        BY <2>1, Place, SessionSites DEF ApplySaved
      <3> QED BY <2>1, <3>1 DEF ApplySaved, Return, Goto
    <2>2. CASE DefaultSetpoints(t)
      <3>1. doing[t] = "enable" /\ at[t] = 3
        BY <2>2, Place, SessionSites DEF DefaultSetpoints
      <3>2. CatchAt("enable", 3) = 6
        BY Lengths DEF CatchAt
      <3> QED BY <2>2, <3>1, <3>2 DEF DefaultSetpoints, Return, Throw, Goto
    <2>3. CASE SetSetpoints(t)
      BY <2>3, Place, SessionSites DEF SetSetpoints
    <2> QED BY <2>1, <2>2, <2>3
  <1>4. t = "controller"
    BY <1>3, InterlockThread
  <1>5. /\ ~Calling("controller", "startPumpThread")
        /\ ~Calling("controller", "stopPumpThread")
    BY <1>2, <1>4 DEF Calling
  <1> QED BY <1>1, <1>3, <1>4, <1>5 DEF SessionInv, EnableHolds, StartHolds, StoppedWhy

\* The calls of the pump keep it: enable goes on only past a pump thread.
LEMMA PumpHolds ==
    ASSUME TypeOK, PumpHeld, SessionInv, NEW t \in Threads, Pump(t)
    PROVE  SessionInv'
  <1> USE DEF TypeOK, ControlOK, Threads, Between
  <1>0. UNCHANGED <<summaryState, fcuPower, setpoints, pumpEnabled, errorCode>>
    BY DEF Pump, RequestStop, StartPumpThread, StopPumpThread, PumpRequest, state, plant, setup
  <1>1. CASE RequestStop(t)
    <2>1. doing[t] \in {"start", "standby", "coolantPumpOn", "coolantPumpOff"}
      BY <1>1, Place, CallSites DEF RequestStop
    <2>2. t = "controller"
      BY <2>1, InterlockThread
    <2>3. /\ UNCHANGED <<doing, at, process>>
          /\ pumpThread' = "stopping" /\ pumpThread = "running"
          /\ Calling("controller", "startPumpThread") \/ Calling("controller", "stopPumpThread")
      BY <1>1, <2>2 DEF RequestStop, control
    <2>4. StoppedWhy'
      BY <2>3 DEF StoppedWhy, Calling
    <2> QED BY <1>0, <2>1, <2>2, <2>3, <2>4 DEF SessionInv, EnableHolds, StartHolds
  <1>2. CASE StartPumpThread(t)
    <2>1. \/ doing[t] = "start" /\ at[t] = 8
          \/ doing[t] = "coolantPumpOn" /\ at[t] = 2
      BY <1>2, Place, CallSites DEF StartPumpThread
    <2>2. t = "controller"
      BY <2>1, InterlockThread
    <2>3. doing' = doing /\ at' = [at EXCEPT ![t] = at[t] + 1] /\ pumpThread' = "running"
      BY <1>2 DEF StartPumpThread, Return, Goto
    <2> QED BY <1>0, <2>1, <2>2, <2>3 DEF SessionInv, EnableHolds, StartHolds, StoppedWhy
  <1>3. CASE StopPumpThread(t)
    <2>1. doing[t] \in {"standby", "coolantPumpOff"}
      BY <1>3, Place, CallSites DEF StopPumpThread
    <2>2. t = "controller"
      BY <2>1, InterlockThread
    <2>3. doing' = doing /\ pumpThread' = "null"
      BY <1>3 DEF StopPumpThread, Return, Goto
    <2> QED BY <1>0, <2>1, <2>2, <2>3 DEF SessionInv, EnableHolds, StartHolds, StoppedWhy
  <1>4. CASE PumpRequest(t, "startupPump", pumpEnabled)
    <2>1. doing[t] = "enable" /\ at[t] = 2
      BY <1>4, Place, SessionSites DEF PumpRequest
    <2>2. t = "controller"
      BY <2>1, InterlockThread
    <2>3. /\ ~Calling("controller", "startPumpThread")
          /\ ~Calling("controller", "stopPumpThread")
      BY <1>4, <2>2 DEF PumpRequest, Calling
    <2>4. /\ UNCHANGED <<doing, pumpThread>>
          /\ \/ at' = at
             \/ at' = [at EXCEPT ![t] = at[t] + 1] /\ (pumpEnabled => pumpThread # "null")
      BY <1>4 DEF PumpRequest, Return, Goto, control
    <2> QED
      BY <1>0, <2>1, <2>2, <2>3, <2>4 DEF SessionInv, EnableHolds, StartHolds, StoppedWhy
  <1>5. CASE PumpRequest(t, "pumpRequest", TRUE)
    <2>1. doing[t] \in PumpRequests
      BY <1>5, Place, SessionSites DEF PumpRequest
    <2>2. /\ UNCHANGED <<doing, pumpThread>>
          /\ \E j : at' = [at EXCEPT ![t] = j]
      BY <1>5 DEF PumpRequest, Return, Goto, control
    <2>3. t = "controller"
      BY <2>1, InterlockThread DEF PumpRequests
    <2>4. /\ ~Calling("controller", "startPumpThread")
          /\ ~Calling("controller", "stopPumpThread")
      BY <1>5, <2>3 DEF PumpRequest, Calling
    <2>5. process' = process \/ doing["controller"] # "idle"
      BY <2>1, <2>3 DEF PumpRequests
    <2>6. doing["controller"] \notin {"enable", "start"}
      BY <2>1, <2>3 DEF PumpRequests
    <2> QED
      BY <1>0, <2>1, <2>2, <2>3, <2>4, <2>5, <2>6 DEF SessionInv, EnableHolds, StartHolds, StoppedWhy
  <1> QED BY <1>1, <1>2, <1>3, <1>4, <1>5 DEF Pump

\* So do the calls that are not the session's.
LEMMA OthersHold ==
    ASSUME TypeOK, PumpHeld, SessionInv, NEW t \in Threads,
           \/ \E on \in BOOLEAN, call \in {"enterEngineering", "leaveEngineering"} :
                SetEngineeringMode(t, call, on)
           \/ AckComplete(t)
           \/ \E on \in BOOLEAN, call \in {"pumpPowerOn", "pumpPowerOff"} :
                SetCoolantPumpPower(t, call, on)
           \/ CloseValve(t) \/ OpenValve(t)
           \/ SendDemand(t, "setDemand") \/ SendDemand(t, "zeroDemand")
           \/ ReportServerID(t) \/ CheckPump(t)
    PROVE  SessionInv'
  <1> USE DEF state, plant, setup, Untouched, SessionCalls, Return, Throw
  <1>1. at[t] \in Nat /\ at[t] + 1 \in Nat /\ at[t] + 3 \in Nat
    BY DEF TypeOK, ControlOK
  <1>2. ASSUME NEW on, NEW call \in {"enterEngineering", "leaveEngineering"},
               SetEngineeringMode(t, call, on)
        PROVE  SessionInv'
    BY <1>1, <1>2, OtherCallKeeps DEF SetEngineeringMode
  <1>3. CASE AckComplete(t)
    BY <1>1, <1>3, OtherCallKeeps DEF AckComplete
  <1>4. \A call : Calling(t, call) => CatchAt(doing[t], at[t]) \in Nat
    <2>1. ASSUME NEW call, Calling(t, call) PROVE CatchAt(doing[t], at[t]) \in Nat
      BY <2>1, Place, LengthType DEF CatchAt
    <2> QED BY <2>1
  <1>5. ASSUME NEW on, NEW call \in {"pumpPowerOn", "pumpPowerOff"},
               SetCoolantPumpPower(t, call, on)
        PROVE  SessionInv'
    BY <1>1, <1>4, <1>5, OtherCallKeeps DEF SetCoolantPumpPower
  <1>6. CASE CloseValve(t)
    BY <1>1, <1>4, <1>6, OtherCallKeeps DEF CloseValve
  <1>7. CASE OpenValve(t)
    <2>1. doing[t] = "update" /\ at[t] = 2
      <3>1. Calling(t, "openValve")
        BY <1>7 DEF OpenValve
      <3> QED BY <3>1, Place, SessionSites
    <2>2. CatchAt("update", 2) = 4 /\ Len(Body["update"]) + 1 = 4
      BY Lengths DEF CatchAt
    <2>3. Calling(t, "openValve") /\ Goto(t, CatchAt(doing[t], at[t])) /\ Untouched
      BY <1>7, <2>1, <2>2 DEF OpenValve
    <2> QED BY <1>4, <2>3, OtherCallKeeps
  <1>8. CASE SendDemand(t, "setDemand") \/ SendDemand(t, "zeroDemand")
    BY <1>1, <1>4, <1>8, OtherCallKeeps DEF SendDemand
  <1>9. CASE ReportServerID(t)
    BY <1>1, <1>4, <1>9, OtherCallKeeps DEF ReportServerID
  <1>10. CASE CheckPump(t)
    BY <1>1, <1>10, OtherCallKeeps DEF CheckPump
  <1> QED BY <1>2, <1>3, <1>5, <1>6, <1>7, <1>8, <1>9, <1>10

\* exitControl only asks the daemon to exit.
LEMMA ExitHolds ==
    ASSUME TypeOK, PumpHeld, SessionInv, NEW t \in Threads, RequestExit(t)
    PROVE  SessionInv'
  <1> USE DEF TypeOK, ControlOK, Threads, Between
  <1>1. doing[t] = "exitControl"
    BY Place, SessionSites DEF RequestExit
  <1>2. t = "controller"
    BY <1>1, InterlockThread
  <1>3. /\ ~Calling("controller", "startPumpThread")
        /\ ~Calling("controller", "stopPumpThread")
    BY <1>2 DEF RequestExit, Calling
  <1> QED
    BY <1>1, <1>2, <1>3
    DEF RequestExit, Return, Goto, state, setup, plant, SessionInv, EnableHolds, StartHolds,
        StoppedWhy

\* FinerControl does not meet the session, but for its faults.
LEMMA FinerHolds ==
    ASSUME TypeOK, PumpHeld, SessionInv, NEW t \in Threads, Finer(t)
    PROVE  SessionInv'
  <1> USE DEF state, plant, setup, Untouched, SessionCalls
  <1>1. at[t] \in Nat /\ at[t] + 1 \in Nat /\ at[t] + 2 \in Nat
    BY DEF TypeOK, ControlOK
  <1>2. ASSUME NEW call \in {"finerDemand", "finerClose", "finerFault"}, NEW new,
               SetFinerTarget(t, call, new)
        PROVE  SessionInv'
    BY <1>1, <1>2, OtherCallKeeps DEF SetFinerTarget, Return
  <1>3. ASSUME Calling(t, "getTarget")
        PROVE  /\ doing[t] = "update" /\ at[t] = 1 /\ t = "controller"
               /\ Len(Body[doing[t]]) + 1 = 4
    <2>1. doing[t] = "update" /\ at[t] = 1
      BY <1>3, Place, CallSites
    <2> QED BY <2>1, InterlockThread, Lengths
  <1>4. CASE GetTargetNone(t) \/ GetTargetOpen(t) \/ GetTargetClosed(t)
    <2>1. Calling(t, "getTarget") /\ Untouched
      BY <1>4 DEF GetTargetNone, GetTargetOpen, GetTargetClosed, finerVars
    <2>2. PICK j \in {2, 3, 4} : Goto(t, j)
      BY <1>3, <1>4, <2>1 DEF GetTargetNone, GetTargetOpen, GetTargetClosed, Return
    <2> QED BY <2>1, <2>2, OtherCallKeeps
  <1>5. CASE GetTargetFails(t)
    <2>1. /\ doing["controller"] = "update" /\ doing' = [doing EXCEPT !["controller"] = "fail"]
          /\ at' = [at EXCEPT !["controller"] = 1] /\ Calling("controller", "getTarget")
          /\ Untouched
      BY <1>3, <1>5 DEF GetTargetFails, finerVars
    <2>2. doing'["controller"] = "fail"
      BY <2>1 DEF TypeOK, ControlOK, Threads
    <2>3. EnableHolds' /\ StartHolds'
      BY <2>2 DEF EnableHolds, StartHolds, Between
    <2>4. StoppedWhy'
      BY <2>1 DEF SessionInv, StoppedWhy, Untouched, Calling
    <2> QED BY <2>3, <2>4 DEF SessionInv
  <1> QED BY <1>2, <1>4, <1>5 DEF Finer, Closing

\* A task that ends has nothing left to keep, and a fault ends in Fault.
LEMMA FinishHolds ==
    ASSUME TypeOK, PumpHeld, SessionInv, NEW t \in Threads, Finish(t)
    PROVE  SessionInv'
  <1> USE DEF TypeOK, ControlOK, Threads, Between
  <1>1. UNCHANGED <<summaryState, fcuPower, setpoints, pumpEnabled, errorCode, process>>
    BY DEF Finish, state, plant, setup
  <1>2. doing'[t] = "idle" /\ \A u \in Threads \ {t} : doing'[u] = doing[u] /\ at'[u] = at[u]
    BY DEF Finish
  <1>3. CASE t = "controller"
    <2>1. pumpThread' = pumpThread
      BY <1>3 DEF Finish
    <2>2. /\ ~Calling("controller", "startPumpThread")
          /\ ~Calling("controller", "stopPumpThread")
      BY <1>3, LengthType DEF Finish, Calling
    <2> QED
      BY <1>1, <1>2, <1>3, <2>1, <2>2 DEF SessionInv, EnableHolds, StartHolds, StoppedWhy
  <1>4. CASE t = "pump"
    <2>1. doing[t] = "fail" /\ at[t] = 7
      <3>1. doing["pump"] = "fail"
        BY <1>4 DEF Finish, PumpHeld, PumpThreadRuns
      <3> QED BY <1>4, <3>1, Lengths DEF Finish
    <2>2. summaryState = "Fault"
      BY <2>1 DEF PumpHeld, PanicOnlyInFault
    <2>3. pumpThread # "null" => pumpThread' # "null"
      BY DEF Finish
    <2> QED
      BY <1>1, <1>2, <1>4, <2>2, <2>3 DEF SessionInv, EnableHolds, StartHolds, StoppedWhy
  <1> QED BY <1>3, <1>4

\* A task begins with nothing to keep.
LEMMA QueueHolds ==
    ASSUME TypeOK, PumpHeld, SessionInv,
           \/ \E command \in Commands : BeginCommand(command)
           \/ BeginUpdate
           \/ BeginReload
    PROVE  SessionInv'
  <1> USE DEF TypeOK, ControlOK, Threads, Between
  <1>1. /\ UNCHANGED <<summaryState, fcuPower, setpoints, pumpEnabled, errorCode, pumpThread, process>>
        /\ Accepting
        /\ \E task : Begin("controller", task)
    BY DEF BeginCommand, BeginUpdate, BeginReload, state, plant, setup
  <1>2. at'["controller"] = 1 /\ doing["controller"] = "idle"
    BY <1>1 DEF Begin
  <1>3. /\ ~Calling("controller", "startPumpThread")
        /\ ~Calling("controller", "stopPumpThread")
    BY <1>2, Lengths DEF Calling
  <1>4. process \notin {"stopping", "exited"}
    BY <1>1 DEF Accepting
  <1> QED
    BY <1>1, <1>2, <1>3, <1>4 DEF SessionInv, EnableHolds, StartHolds, StoppedWhy

\* The other threads keep it.
LEMMA EnvironmentHolds ==
    ASSUME TypeOK, PumpHeld, SessionInv, Environment
    PROVE  SessionInv'
  <1> USE DEF TypeOK, ControlOK, Threads, Between, state, setup, plant, control,
              SessionInv, EnableHolds, StartHolds, StoppedWhy, Calling
  <1>1. CASE PumpFault
    BY <1>1 DEF PumpFault, Begin
  <1>2. CASE OuterLoopClock \/ TemperatureUpdate
    BY <1>2 DEF OuterLoopClock, TemperatureUpdate
  <1>3. CASE Done
    <2>1. summaryState = "Fault" => summaryState' = "Fault"
      BY <1>3 DEF Done, CanSwitch, From
    <2>2. UNCHANGED <<fcuPower, setpoints, pumpEnabled, errorCode, pumpThread, doing, at>>
          /\ process = "exiting" /\ process' = "stopping"
      BY <1>3 DEF Done
    <2>3. doing["controller"] \notin {"enable", "start"} \/ summaryState' = summaryState
          \/ summaryState' = "Offline"
      BY <1>3 DEF Done
    <2> QED BY <2>1, <2>2
  <1>4. CASE StopThreads \/ Exit
    BY <1>4 DEF StopThreads, Exit
  <1> QED BY <1>1, <1>2, <1>3, <1>4 DEF Environment

\* It holds at the start, with nothing under way.
LEMMA InitSession == Init => SessionInv
  BY DEF Init, SessionInv, EnableHolds, StartHolds, StoppedWhy, Between, Threads

\* Every step keeps it.
LEMMA NextSession == PumpInv /\ SessionInv /\ [Next]_vars => SessionInv'
  <1> SUFFICES ASSUME PumpInv, SessionInv, [Next]_vars PROVE SessionInv'
    OBVIOUS
  <1>1. TypeOK /\ PumpHeld
    BY DEF PumpInv, PumpHeld
  <1>2. ASSUME NEW t \in Threads, Step(t)
        PROVE  SessionInv'
    <2>1. CASE Switch(t)
      BY <1>1, <2>1, SwitchHolds
    <2>2. CASE Report(t)
      BY <1>1, <2>2, ErrorHolds, OthersHold, ExitHolds DEF Report
    <2>3. CASE Drive(t)
      BY <1>1, <2>3, HeatingHolds, OthersHold DEF Drive
    <2>4. CASE Finer(t)
      BY <1>1, <2>4, FinerHolds
    <2>5. CASE Configure(t)
      BY <1>1, <2>5, LoadHolds, SetpointsHold, OthersHold DEF Configure
    <2>6. CASE Pump(t)
      BY <1>1, <2>6, PumpHolds
    <2>7. CASE Finish(t)
      BY <1>1, <2>7, FinishHolds
    <2> QED BY <1>2, <2>1, <2>2, <2>3, <2>4, <2>5, <2>6, <2>7 DEF Step
  <1>3. CASE UNCHANGED vars
    BY <1>3 DEF vars, state, setup, plant, control, SessionInv, EnableHolds, StartHolds,
                StoppedWhy, Between, Calling
  <1> QED BY <1>1, <1>2, <1>3, QueueHolds, EnvironmentHolds DEF Next

\* In every behaviour, whatever the commands, failures and faults are.
THEOREM SessionInvariant == Spec => []SessionInv
  BY InitSession, NextSession, PumpInvariant, PTL DEF Spec

-----------------------------------------------------------------------------
(* What the commands have established *)

\* Only the calls that switch the summary state, and the end of the daemon, do.
LEMMA StateSwitches ==
    ASSUME TypeOK, Next, summaryState' # summaryState
    PROVE  (\E t \in Threads : Switch(t)) \/ Done
  <1>1. CASE \E t \in Threads : Step(t)
    <2>1. PICK t \in Threads : Step(t)
      BY <1>1
    <2>2. CASE Report(t)
      BY <2>2 DEF Report, SetErrorCode, SetEngineeringMode, AckComplete, RequestExit, state
    <2>3. CASE Drive(t)
      BY <2>3 DEF Drive, SetFCUPower, SetCoolantPumpPower, CloseValve, OpenValve, SendDemand,
                  state
    <2>4. CASE Finer(t)
      BY <2>4 DEF Finer, SetFinerTarget, GetTargetNone, GetTargetOpen, GetTargetClosed,
                  GetTargetFails, state
    <2>5. CASE Configure(t)
      BY <2>5 DEF Configure, LoadSettings, ReportServerID, CheckPump, ApplySaved,
                  DefaultSetpoints, SetSetpoints, state
    <2>6. CASE Pump(t)
      BY <2>6 DEF Pump, RequestStop, StartPumpThread, StopPumpThread, PumpRequest, state
    <2>7. CASE Finish(t)
      BY <2>7 DEF Finish, state
    <2> QED BY <2>1, <2>2, <2>3, <2>4, <2>5, <2>6, <2>7 DEF Step
  <1>2. CASE (\E command \in Commands : BeginCommand(command)) \/ BeginUpdate \/ BeginReload
    BY <1>2 DEF BeginCommand, BeginUpdate, BeginReload, state
  <1>3. CASE Environment /\ ~Done
    BY <1>3 DEF Environment, PumpFault, OuterLoopClock, TemperatureUpdate, StopThreads, Exit,
                state
  <1> QED BY <1>1, <1>2, <1>3 DEF Next, Environment

\* What toEnabled finds.
LEMMA NextEnabled ==
    ASSUME PumpInv, SessionInv, Next, summaryState # "Enabled", summaryState' = "Enabled"
    PROVE  fcuPower /\ setpoints /\ (pumpEnabled => pumpThread = "running")
  <1>1. TypeOK /\ PumpHeld
    BY DEF PumpInv, PumpHeld
  <1>2. PICK t \in Threads : SwitchState(t, "toEnabled", "Enabled") /\ summaryState = "Disabled"
    <2>1. ~Done
      BY DEF Done
    <2>2. PICK t \in Threads : Switch(t)
      BY <1>1, <2>1, StateSwitches
    <2>3. SwitchState(t, "toEnabled", "Enabled")
      BY <2>2 DEF Switch, SwitchState
    <2> QED BY <2>3 DEF SwitchState, CanSwitch, From
  <1>3. doing[t] = "enable" /\ at[t] = 4
    BY <1>1, <1>2, Place, CallSites DEF SwitchState
  <1>4. t = "controller"
    BY <1>1, <1>3, InterlockThread
  <1>5. fcuPower /\ setpoints /\ (pumpEnabled => pumpThread # "null")
    BY <1>2, <1>3, <1>4 DEF SessionInv, EnableHolds, Between
  <1>6. pumpThread \notin {"stopping", "ended"}
    <2>1. /\ ~Calling("controller", "startPumpThread")
          /\ ~Calling("controller", "stopPumpThread")
      BY <1>2, <1>4 DEF SwitchState, Calling
    <2> QED BY <1>2, <1>3, <1>4, <2>1 DEF SessionInv, StoppedWhy
  <1> QED BY <1>1, <1>5, <1>6 DEF TypeOK, PlantOK

\* enable switches to Enabled only over powered FCUs, valid setpoints and a running
\* pump thread, between whichever of its calls a fault came.
THEOREM EnabledIsReady == Spec => EnabledEntry
  <1>1. PumpInv /\ SessionInv /\ [Next]_vars =>
          [summaryState # "Enabled" /\ summaryState' = "Enabled" =>
             fcuPower /\ setpoints /\ (pumpEnabled => pumpThread = "running")]_vars
    BY NextEnabled
  <1> QED BY <1>1, PumpInvariant, SessionInvariant, PTL DEF Spec, EnabledEntry

\* start switches to Disabled only with the error code it has cleared still clear.
THEOREM StartIsClean == Spec => StartedClean
  <1>1. ASSUME PumpInv, SessionInv, Next, Calling("controller", "toDisabled"),
               doing["controller"] = "start",
               summaryState # "Disabled", summaryState' = "Disabled"
        PROVE  ~errorCode'
    <2>1. TypeOK /\ PumpHeld
      BY <1>1 DEF PumpInv, PumpHeld
    <2>2. at["controller"] = 9
      <3>1. "controller" \in Threads
        BY DEF Threads
      <3> QED BY <1>1, <2>1, <3>1, Place, CallSites
    <2>3. PICK t \in Threads : SwitchState(t, "toDisabled", "Disabled")
      BY <1>1, <2>1, StateSwitches DEF Done, Switch, SwitchState
    <2>4. summaryState # "Fault" /\ errorCode' = errorCode
      BY <1>1, <2>3 DEF SwitchState, CanSwitch, From
    <2> QED BY <1>1, <2>2, <2>4 DEF SessionInv, StartHolds, Between
  <1>2. PumpInv /\ SessionInv /\ [Next]_vars =>
          [/\ Calling("controller", "toDisabled")
           /\ doing["controller"] = "start"
           /\ summaryState # "Disabled" /\ summaryState' = "Disabled"
           => ~errorCode']_vars
    BY <1>1
  <1> QED BY <1>2, PumpInvariant, SessionInvariant, PTL DEF Spec, StartedClean

-----------------------------------------------------------------------------
(* The refinement: every step is one of SummaryStateSpec, or none to it *)

Panicking == {t \in Threads : doing[t] = "fail" /\ at[t] > 1}

SeenAbove == <<summaryState, Panicking, fcuPower, pumpPower, pumpThread # "null">>

\* A thread that moves on stays inside, or outside, of the shutdown it is in.
LEMMA PanicKept ==
    ASSUME TypeOK, NEW t \in Threads, NEW call, Calling(t, call), call # "toFault",
           Return(t) \/ Throw(t) \/ \E j \in Nat : j > 1 /\ Goto(t, j)
    PROVE  Panicking' = Panicking
  <1>1. /\ doing[t] \in Tasks /\ at[t] \in Nat /\ at[t] > 0
        /\ Len(Body[doing[t]]) \in Nat /\ Len(Body[doing[t]]) > 0
    BY LengthType DEF TypeOK, ControlOK, Calling
  <1>2. doing[t] = "fail" => at[t] > 1
    BY <1>1, Bodies DEF Calling, FailBody
  <1>3. PICK j \in Nat : j > 1 /\ Goto(t, j)
    <2>1. at[t] + 1 \in Nat /\ at[t] + 1 > 1
      BY <1>1
    <2>2. CatchAt(doing[t], at[t]) \in Nat /\ CatchAt(doing[t], at[t]) > 1
      BY <1>1 DEF CatchAt
    <2> QED BY <2>1, <2>2 DEF Return, Throw
  <1> QED BY <1>2, <1>3 DEF Panicking, Goto, TypeOK, ControlOK

\* Beginning a task begins no shutdown yet.
LEMMA BeginPanic ==
    ASSUME TypeOK, NEW t \in Threads, NEW task, Begin(t, task)
    PROVE  Panicking' = Panicking
  BY DEF Begin, Panicking, TypeOK, ControlOK

\* What most calls are above: nothing.
LEMMA QuietAbove ==
    ASSUME TypeOK, NEW t \in Threads, NEW call, Calling(t, call), call # "toFault",
           Return(t) \/ Throw(t) \/ \E j \in Nat : j > 1 /\ Goto(t, j),
           UNCHANGED <<summaryState, fcuPower, pumpPower, pumpThread>>
    PROVE  UNCHANGED SeenAbove
  BY PanicKept DEF SeenAbove

\* Switching the state is entering it, and a fault begins a shutdown.
LEMMA SwitchAbove ==
    ASSUME PumpInv, SessionInv, NEW t \in Threads, Switch(t)
    PROVE  Lifecycle!Next \/ UNCHANGED SeenAbove
  <1> USE DEF Lifecycle!Next, Lifecycle!Move
  <1>1. TypeOK /\ PumpHeld
    BY DEF PumpInv, PumpHeld
  <1>2. ASSUME NEW call, NEW new, SwitchState(t, call, new), call # "toFault"
        PROVE  /\ UNCHANGED <<fcuPower, pumpPower, pumpThread>>
               /\ Panicking' = Panicking
               /\ \/ summaryState' = summaryState
                  \/ summaryState' = new /\ summaryState \in From[new]
               /\ Calling(t, call)
    BY <1>1, <1>2, PanicKept DEF SwitchState, CanSwitch, plant
  <1>3. CASE SwitchState(t, "toDisabled", "Disabled")
    BY <1>2, <1>3 DEF Lifecycle!EnterDisabled, From, Panicking, SeenAbove
  <1>4. CASE SwitchState(t, "toEnabled", "Enabled")
    <2>1. doing[t] = "enable" /\ at[t] = 4
      BY <1>1, <1>2, <1>4, Place, CallSites
    <2>2. t = "controller"
      BY <1>1, <2>1, InterlockThread
    <2>3. fcuPower \/ summaryState = "Fault"
      BY <2>1, <2>2 DEF SessionInv, EnableHolds, Between
    <2> QED BY <1>2, <1>4, <2>3 DEF Lifecycle!EnterEnabled, From, Panicking, SeenAbove
  <1>5. CASE SwitchState(t, "toStandby", "Standby")
    <2>1. \/ doing[t] = "standby" /\ at[t] = 3
          \/ doing[t] = "enterControl" /\ at[t] = 1
      BY <1>1, <1>2, <1>5, Place, CallSites
    <2>2. t = "controller"
      BY <1>1, <2>1, InterlockThread
    <2>3. pumpThread = "null" /\ ~pumpPower
      BY <1>1, <2>1, <2>2 DEF PumpHeld, PumpTakenDown, Between
    <2>4. Panicking = {}
      BY <1>1, <2>1, <2>2, <2>3 DEF PumpHeld, PumpThreadRuns, Panicking, Threads
    <2> QED BY <1>2, <1>5, <2>3, <2>4 DEF Lifecycle!EnterStandby, From, Panicking, SeenAbove
  <1>6. CASE SwitchState(t, "toFault", "Fault")
    <2>1. Calling(t, "toFault")
      BY <1>6 DEF SwitchState
    <2>2. doing[t] = "fail" /\ at[t] = 1
      BY <1>1, <2>1, Place, CallSites
    <2>3. /\ UNCHANGED <<fcuPower, pumpPower, pumpThread, doing>>
          /\ summaryState' = "Fault" /\ at' = [at EXCEPT ![t] = 2]
      BY <1>1, <1>6, <2>2 DEF SwitchState, CanSwitch, From, Return, Goto, TypeOK, PlantOK, plant
    <2>4. Panicking' = Panicking \cup {t}
      BY <1>1, <2>2, <2>3 DEF Panicking, TypeOK, ControlOK
    <2> QED BY <2>3, <2>4 DEF Lifecycle!Fault, Panicking
  <1> QED BY <1>3, <1>4, <1>5, <1>6 DEF Switch

\* Powering and serving the pump, or the FCUs, is what it is above.
LEMMA PowerAbove ==
    ASSUME PumpInv, NEW t \in Threads,
           \/ \E on \in BOOLEAN, call \in {"fcuPowerOn", "fcuPowerOff"} : SetFCUPower(t, call, on)
           \/ \E on \in BOOLEAN, call \in {"pumpPowerOn", "pumpPowerOff"} :
                SetCoolantPumpPower(t, call, on)
           \/ Pump(t)
    PROVE  Lifecycle!Next \/ UNCHANGED SeenAbove
  <1> USE DEF Lifecycle!Next, state, plant, SeenAbove
  <1>1. TypeOK /\ PumpHeld
    BY DEF PumpInv, PumpHeld
  <1>2. ASSUME NEW on \in BOOLEAN, NEW call \in {"fcuPowerOn", "fcuPowerOff"},
               SetFCUPower(t, call, on)
        PROVE  Lifecycle!Next \/ UNCHANGED SeenAbove
    <2>1. Panicking' = Panicking
      BY <1>1, <1>2, PanicKept DEF SetFCUPower
    <2> QED BY <1>2, <2>1 DEF SetFCUPower, Lifecycle!PowerHeating, Panicking
  <1>3. ASSUME NEW on \in BOOLEAN, NEW call \in {"pumpPowerOn", "pumpPowerOff"},
               SetCoolantPumpPower(t, call, on)
        PROVE  Lifecycle!Next \/ UNCHANGED SeenAbove
    <2>1. Panicking' = Panicking
      BY <1>1, <1>3, PanicKept DEF SetCoolantPumpPower
    <2> QED BY <1>3, <2>1 DEF SetCoolantPumpPower, Lifecycle!PowerPump, Panicking
  <1>4. CASE RequestStop(t)
    BY <1>4 DEF RequestStop, control, Panicking
  <1>5. CASE StartPumpThread(t)
    <2>1. \/ doing[t] = "start" /\ at[t] = 8
          \/ doing[t] = "coolantPumpOn" /\ at[t] = 2
      BY <1>1, <1>5, Place, CallSites DEF StartPumpThread
    <2>2. pumpPower
      BY <1>1, <2>1, InterlockThread DEF PumpHeld, PumpTakenUp, Between
    <2>3. Panicking' = Panicking
      BY <1>1, <1>5, PanicKept DEF StartPumpThread
    <2> QED BY <1>5, <2>2, <2>3 DEF StartPumpThread, Lifecycle!Serve, Panicking
  <1>6. CASE StopPumpThread(t)
    <2>1. Panicking' = Panicking
      BY <1>1, <1>6, PanicKept DEF StopPumpThread
    <2> QED BY <1>6, <2>1 DEF StopPumpThread, Lifecycle!Release, Panicking
  <1>7. ASSUME NEW call \in {"startupPump", "pumpRequest"}, NEW needed,
               PumpRequest(t, call, needed)
        PROVE  UNCHANGED SeenAbove
    <2>1. Panicking' = Panicking
      BY <1>1, <1>7, PanicKept DEF PumpRequest, Panicking, control
    <2> QED BY <1>7, <2>1 DEF PumpRequest
  <1> QED BY <1>2, <1>3, <1>4, <1>5, <1>6, <1>7 DEF Pump

\* The other calls, and the end of a task, are at most the end of a shutdown.
LEMMA CallAbove ==
    ASSUME PumpInv, NEW t \in Threads,
           \/ Report(t) \/ Finer(t) \/ Configure(t) \/ Finish(t)
           \/ CloseValve(t) \/ OpenValve(t)
           \/ SendDemand(t, "setDemand") \/ SendDemand(t, "zeroDemand")
    PROVE  Lifecycle!Next \/ UNCHANGED SeenAbove
  <1> USE DEF state, plant, setup, finerVars
  <1>1. TypeOK /\ PumpHeld
    BY DEF PumpInv, PumpHeld
  <1>2. CASE Report(t)
    <2>1. ASSUME NEW call, NEW on, call # "toFault",
                 SetErrorCode(t, call, on) \/ SetEngineeringMode(t, call, on)
          PROVE  UNCHANGED SeenAbove
      BY <1>1, <2>1, QuietAbove DEF SetErrorCode, SetEngineeringMode
    <2>2. CASE AckComplete(t)
      <3>1. at[t] + 1 \in Nat /\ at[t] + 1 > 1
        BY <1>1 DEF TypeOK, ControlOK
      <3> QED BY <1>1, <2>2, <3>1, QuietAbove DEF AckComplete
    <2>3. CASE RequestExit(t)
      BY <1>1, <2>3, QuietAbove DEF RequestExit
    <2> QED BY <1>2, <2>1, <2>2, <2>3 DEF Report
  <1>3. CASE Finer(t)
    <2>1. ASSUME NEW call \in {"finerDemand", "finerClose", "finerFault"}, NEW new,
                 SetFinerTarget(t, call, new)
          PROVE  UNCHANGED SeenAbove
      BY <1>1, <2>1, QuietAbove DEF SetFinerTarget
    <2>2. ASSUME Calling(t, "getTarget")
          PROVE  doing[t] = "update" /\ at[t] = 1 /\ Len(Body[doing[t]]) + 1 = 4
      <3>1. doing[t] = "update" /\ at[t] = 1
        BY <1>1, <2>2, Place, CallSites
      <3> QED BY <3>1, Lengths
    <2>3. CASE GetTargetNone(t) \/ GetTargetOpen(t) \/ GetTargetClosed(t)
      <3>1. Calling(t, "getTarget") /\ UNCHANGED <<summaryState, fcuPower, pumpPower, pumpThread>>
        BY <2>3 DEF GetTargetNone, GetTargetOpen, GetTargetClosed
      <3>2. PICK j \in {2, 3, 4} : Goto(t, j)
        BY <2>2, <2>3, <3>1 DEF GetTargetNone, GetTargetOpen, GetTargetClosed, Return
      <3>3. j \in Nat /\ j > 1
        OBVIOUS
      <3> QED BY <1>1, <3>1, <3>2, <3>3, QuietAbove
    <2>4. CASE GetTargetFails(t)
      <3>1. doing[t] = "update"
        BY <2>2, <2>4 DEF GetTargetFails
      <3> QED
        BY <1>1, <2>4, <3>1 DEF GetTargetFails, SeenAbove, Panicking, TypeOK, ControlOK
    <2> QED BY <1>3, <2>1, <2>3, <2>4 DEF Finer
  <1>4. CASE Configure(t)
    <2>1. CASE CheckPump(t)
      <3>1. /\ at[t] + 1 \in Nat /\ at[t] + 1 > 1
            /\ at[t] + 3 \in Nat /\ at[t] + 3 > 1
        BY <1>1 DEF TypeOK, ControlOK
      <3> QED BY <1>1, <2>1, <3>1, QuietAbove DEF CheckPump
    <2> QED
      BY <1>1, <1>4, <2>1, QuietAbove
      DEF Configure, LoadSettings, ReportServerID, ApplySaved, DefaultSetpoints, SetSetpoints
  <1>5. CASE Finish(t)
    <2>1. Panicking' = Panicking \ {t}
      BY <1>1, <1>5 DEF Finish, Panicking, TypeOK, ControlOK
    <2>2. (pumpThread' # "null") = (pumpThread # "null")
      BY <1>1, <1>5 DEF Finish, PumpHeld, PumpThreadRuns, Threads
    <2> QED
      BY <1>5, <2>1, <2>2 DEF Finish, Lifecycle!Next, Lifecycle!EndPanic, Panicking
  <1>6. CASE OpenValve(t)
    <2>1. Calling(t, "openValve") /\ Len(Body[doing[t]]) + 1 \in Nat /\ Len(Body[doing[t]]) + 1 > 1
      BY <1>1, <1>6, Place, LengthType DEF OpenValve
    <2> QED BY <1>1, <1>6, <2>1, QuietAbove DEF OpenValve
  <1>7. CASE CloseValve(t)
    BY <1>1, <1>7, QuietAbove DEF CloseValve
  <1>8. CASE SendDemand(t, "setDemand") \/ SendDemand(t, "zeroDemand")
    BY <1>1, <1>8, QuietAbove DEF SendDemand
  <1> QED BY <1>2, <1>3, <1>4, <1>5, <1>6, <1>7, <1>8

\* What the controller takes from its queue, and what the other threads do.
LEMMA OutsideAbove ==
    ASSUME PumpInv,
           \/ \E command \in Commands : BeginCommand(command)
           \/ BeginUpdate
           \/ BeginReload
           \/ Environment
    PROVE  Lifecycle!Next \/ UNCHANGED SeenAbove
  <1> USE DEF state, plant, setup, finerVars, control, SeenAbove
  <1>1. TypeOK /\ PumpHeld
    BY DEF PumpInv, PumpHeld
  <1>2. "controller" \in Threads /\ "pump" \in Threads
    BY DEF Threads
  <1>3. CASE (\E command \in Commands : BeginCommand(command)) \/ BeginUpdate \/ BeginReload
    BY <1>1, <1>2, <1>3, BeginPanic DEF BeginCommand, BeginUpdate, BeginReload
  <1>4. CASE PumpFault
    BY <1>1, <1>2, <1>4, BeginPanic DEF PumpFault
  <1>5. CASE OuterLoopClock \/ TemperatureUpdate
    BY <1>5 DEF OuterLoopClock, TemperatureUpdate, Panicking
  <1>6. CASE Done
    BY <1>6 DEF Done, CanSwitch, From, Lifecycle!Next, Lifecycle!GoOffline, Lifecycle!Move,
                Panicking
  <1>7. CASE StopThreads
    BY <1>7 DEF StopThreads, Panicking
  <1>8. CASE Exit
    BY <1>8 DEF Exit, Panicking, Lifecycle!Next, Lifecycle!Release
  <1> QED BY <1>3, <1>4, <1>5, <1>6, <1>7, <1>8 DEF Environment

\* The CSC starts where SummaryStateSpec does.
LEMMA InitAbove == Init => Lifecycle!Init
  BY DEF Init, Lifecycle!Init, Threads

\* Every step of the CSC is one of SummaryStateSpec, or changes nothing of it.
LEMMA NextAbove ==
    PumpInv /\ SessionInv /\ [Next]_vars => [Lifecycle!Next]_(Lifecycle!vars)
  <1> SUFFICES ASSUME PumpInv, SessionInv, [Next]_vars
               PROVE  Lifecycle!Next \/ UNCHANGED Lifecycle!vars
    OBVIOUS
  <1>1. CASE UNCHANGED vars
    BY <1>1 DEF vars, state, plant, control, Lifecycle!vars
  <1>2. CASE Next
    <2>1. Lifecycle!Next \/ UNCHANGED SeenAbove
      <3>1. ASSUME NEW t \in Threads, Step(t)
            PROVE  Lifecycle!Next \/ UNCHANGED SeenAbove
        BY <3>1, SwitchAbove, PowerAbove, CallAbove DEF Step, Drive
      <3> QED BY <1>2, <3>1, OutsideAbove DEF Next
    <2> QED BY <2>1 DEF SeenAbove, Panicking, Lifecycle!vars
  <1> QED BY <1>1, <1>2

\* The commands, call by call, interleaved with the faults and failures the code
\* handles, keep what SummaryStateSpec promises.
THEOREM LifecycleImplemented == Spec => ImplementsLifecycle
  <1>1. Spec => Lifecycle!Init
    BY InitAbove DEF Spec
  <1> QED
    BY <1>1, NextAbove, PumpInvariant, SessionInvariant, PTL
    DEF Spec, ImplementsLifecycle, Lifecycle!Spec
=============================================================================
