------------------------- MODULE ThermalCSC_ack_proofs -------------------------
(***************************************************************************)
(* The acknowledgements of enable, disable and standby: each command sends *)
(* exactly one, however its calls end, and completes only in the state it  *)
(* asks for or in one that came over it since.                             *)
(***************************************************************************)
EXTENDS ThermalCSC_session_proofs

-----------------------------------------------------------------------------
(* The invariant *)

Asking == {"enable", "disable", "standby"}

\* Nothing is acknowledged before the end of the task, and it is forgotten with it.
Unanswered ==
    \/ doing["controller"] = "idle"
    \/ doing["controller"] \in Asking /\ at["controller"] # Len(Body[doing["controller"]]) + 1
    => acks = <<>>

\* At the end one acknowledgement was sent, and the outcome stands.
Answered ==
    doing["controller"] \in Asking /\ at["controller"] = Len(Body[doing["controller"]]) + 1 =>
        /\ Len(acks) = 1
        /\ acks[1] = "complete" => summaryState \in Outcomes[doing["controller"]]

\* The acknowledgement is only got to when the state was switched.
Reached ==
    doing["controller"] \in Asking /\ at["controller"] = Len(Body[doing["controller"]]) =>
        summaryState \in Outcomes[doing["controller"]]

\* No pump thread is left to fault the CSC once standby has joined it.
ThreadGone == Between("controller", "standby", 2..5) => pumpThread = "null"

AckInv == Unanswered /\ Answered /\ Reached /\ ThreadGone

\* What each of these commands asks for.
LEMMA OutcomeTable ==
    /\ DOMAIN Outcomes = Asking
    /\ Outcomes["enable"] = {"Enabled", "Fault"}
    /\ Outcomes["disable"] = {"Disabled", "Fault"}
    /\ Outcomes["standby"] = {"Standby", "Offline"}
  BY DEF Outcomes, Asking

\* Their last call is the acknowledgement, the one before it switches the state, and a
\* call that throws fails the command, but for the first four of disable.
LEMMA AskingCalls ==
    ASSUME NEW task \in Asking, NEW i \in 1..Len(Body[task])
    PROVE  /\ Body[task][i] = "ackComplete" => i = Len(Body[task])
           /\ i = Len(Body[task]) => Body[task][i] = "ackComplete"
           /\ i + 1 = Len(Body[task]) =>
                \/ task = "enable" /\ Body[task][i] = "toEnabled"
                \/ task = "disable" /\ Body[task][i] = "toDisabled"
                \/ task = "standby" /\ Body[task][i] = "toStandby"
           /\ \/ CatchAt(task, i) = Len(Body[task]) + 1 /\ FailsAck(task, i)
              \/ task = "disable" /\ CatchAt(task, i) \in {2, 5} /\ ~FailsAck(task, i)
           /\ Body[task][i] \notin {"getTarget", "openValve", "checkPump", "startPumpThread"}
           /\ Body[task][i] = "stopPumpThread" => task = "standby" /\ i = 1
           /\ task = "standby" /\ i = 1 => Body[task][i] = "stopPumpThread"
  <1>1. CASE task = "enable"
    BY <1>1, Bodies, Lengths DEF EnableBody, CatchAt, FailsAck, SALCommands
  <1>2. CASE task = "disable"
    BY <1>2, Bodies, Lengths DEF DisableBody, CatchAt, FailsAck, SALCommands
  <1>3. CASE task = "standby"
    BY <1>3, Bodies, Lengths DEF StandbyBody, CatchAt, FailsAck, SALCommands
  <1> QED BY <1>1, <1>2, <1>3 DEF Asking

\* A task that asks for nothing has nothing to keep.
LEMMA NothingAsked ==
    ASSUME doing'["controller"] \notin Asking \cup {"idle"}
    PROVE  AckInv'
  BY DEF AckInv, Unanswered, Answered, Reached, ThreadGone, Between, Asking

-----------------------------------------------------------------------------
(* The calls of the controller *)

\* A call that returns or throws keeps the invariant, if the one that switches the
\* state has switched it when it returns.
LEMMA CallAnswers ==
    ASSUME TypeOK, AckInv, NEW call, Calling("controller", call), call # "ackComplete",
           Return("controller") \/ Throw("controller"),
           pumpThread' = pumpThread \/ call = "startPumpThread"
               \/ (call = "stopPumpThread" /\ pumpThread' = "null"),
           call = "stopPumpThread" => Return("controller") /\ pumpThread' = "null",
           \/ call \notin {"toEnabled", "toDisabled", "toStandby"}
           \/ call = "toEnabled" /\ summaryState' = "Enabled"
           \/ call = "toDisabled" /\ summaryState' = "Disabled"
           \/ call = "toStandby" /\ summaryState' = "Standby"
           \/ Throw("controller")
    PROVE  AckInv'
  <1> DEFINE task == doing["controller"]
             i == at["controller"]
  <1>1. /\ task \in Tasks /\ i \in 1..Len(Body[task]) /\ Body[task][i] = call
        /\ task # "idle"
    BY Place DEF Threads
  <1>2. doing' = doing
    BY DEF Return, Throw, Goto
  <1>3. CASE task \notin Asking
    BY <1>1, <1>2, <1>3, NothingAsked
  <1>4. CASE task \in Asking
    <2>0. Len(Body[task]) \in Nat
      BY <1>1, LengthType
    <2>1. acks = <<>>
      BY <1>1, <1>4, <2>0 DEF AckInv, Unanswered
    <2>2. i # Len(Body[task])
      BY <1>1, <1>4, AskingCalls
    <2>3. CASE Return("controller")
      <3>1. at'["controller"] = i + 1 /\ acks' = acks
        BY <2>3 DEF Return, Goto, TypeOK, ControlOK, Threads
      <3>2. i + 1 = Len(Body[task]) => summaryState' \in Outcomes[task]
        <4>1. ASSUME i + 1 = Len(Body[task])
              PROVE  \/ task = "enable" /\ call = "toEnabled"
                     \/ task = "disable" /\ call = "toDisabled"
                     \/ task = "standby" /\ call = "toStandby"
          BY <1>1, <1>4, <4>1, AskingCalls
        <4>2. Throw("controller") => i + 1 # Len(Body[task])
          <5>1. CatchAt(task, i) # i + 1 \/ i + 1 # Len(Body[task])
            <6>1. CASE CatchAt(task, i) = Len(Body[task]) + 1
              BY <2>0, <6>1
            <6>2. CASE task = "disable" /\ CatchAt(task, i) \in {2, 5}
              BY <6>2, Lengths
            <6> QED BY <1>1, <1>4, <6>1, <6>2, AskingCalls
          <5>2. Throw("controller") => CatchAt(task, i) = i + 1
            BY <3>1 DEF Throw, Goto, TypeOK, ControlOK, Threads
          <5> QED BY <5>1, <5>2
        <4> QED BY <4>1, <4>2, OutcomeTable
      <3>3. Unanswered' /\ Answered' /\ Reached'
        BY <1>1, <1>2, <2>0, <2>1, <2>2, <3>1, <3>2 DEF Unanswered, Answered, Reached
      <3>4. ThreadGone'
        <4>1. ASSUME task = "standby" PROVE pumpThread' = "null"
          <5>1. i = 1 => call = "stopPumpThread"
            BY <1>1, <1>4, <4>1, AskingCalls
          <5>2. i \in 2..5 => pumpThread = "null"
            BY <4>1 DEF AckInv, ThreadGone, Between
          <5>3. call # "startPumpThread"
            BY <1>1, <1>4, AskingCalls
          <5> QED BY <1>1, <4>1, <5>1, <5>2, <5>3, Lengths
        <4> QED BY <1>2, <4>1 DEF ThreadGone, Between
      <3> QED BY <3>3, <3>4 DEF AckInv
    <2>4. CASE Throw("controller")
      <3>1. /\ at'["controller"] = CatchAt(task, i)
            /\ acks' = IF FailsAck(task, i) THEN <<"failed">> ELSE <<>>
        BY <2>1, <2>4 DEF Throw, Goto, TypeOK, ControlOK, Threads
      <3>2. \/ at'["controller"] = Len(Body[task]) + 1 /\ acks' = <<"failed">>
            \/ task = "disable" /\ at'["controller"] \in {2, 5} /\ acks' = <<>>
        BY <1>1, <1>4, <3>1, AskingCalls
      <3>3. Unanswered' /\ Answered' /\ Reached'
        <4>1. CASE at'["controller"] = Len(Body[task]) + 1 /\ acks' = <<"failed">>
          <5>1. Len(acks') = 1 /\ acks'[1] # "complete"
            BY <4>1
          <5> QED BY <1>1, <1>2, <2>0, <4>1, <5>1 DEF Unanswered, Answered, Reached
        <4>2. CASE task = "disable" /\ at'["controller"] \in {2, 5} /\ acks' = <<>>
          BY <1>2, <4>2, Lengths DEF Unanswered, Answered, Reached
        <4> QED BY <3>2, <4>1, <4>2
      <3>4. ThreadGone'
        <4>1. ASSUME task = "standby" PROVE pumpThread' = "null"
          <5>1. i = 1 => call = "stopPumpThread"
            BY <1>1, <1>4, <4>1, AskingCalls
          <5>2. i \in 2..5 => pumpThread = "null"
            BY <4>1 DEF AckInv, ThreadGone, Between
          <5>3. call # "startPumpThread"
            BY <1>1, <1>4, AskingCalls
          <5> QED BY <1>1, <4>1, <5>1, <5>2, <5>3, Lengths
        <4> QED BY <1>2, <4>1 DEF ThreadGone, Between
      <3> QED BY <3>3, <3>4 DEF AckInv
    <2> QED BY <2>3, <2>4
  <1> QED BY <1>3, <1>4

\* The acknowledgement itself.
LEMMA CompleteAnswers ==
    ASSUME TypeOK, AckInv, AckComplete("controller")
    PROVE  AckInv'
  <1> DEFINE task == doing["controller"]
             i == at["controller"]
  <1>1. /\ task \in Tasks /\ i \in 1..Len(Body[task]) /\ Body[task][i] = "ackComplete"
        /\ task # "idle"
    BY Place DEF AckComplete, Threads
  <1>2. /\ doing' = doing /\ at'["controller"] = i + 1 /\ acks' = Append(acks, "complete")
        /\ summaryState' = summaryState /\ pumpThread' = pumpThread
    BY DEF AckComplete, Goto, state, TypeOK, ControlOK, Threads
  <1>3. CASE task \notin Asking
    BY <1>1, <1>2, <1>3, NothingAsked
  <1>4. CASE task \in Asking
    <2>1. i = Len(Body[task])
      BY <1>1, <1>4, AskingCalls
    <2>2. Len(Body[task]) \in Nat
      BY <1>1, LengthType
    <2>3. acks = <<>>
      BY <1>4, <2>1, <2>2 DEF AckInv, Unanswered
    <2>4. Len(acks') = 1 /\ summaryState' \in Outcomes[task]
      BY <1>2, <1>4, <2>1, <2>3 DEF AckInv, Reached
    <2>5. Unanswered' /\ Answered' /\ Reached'
      BY <1>1, <1>2, <2>1, <2>2, <2>4 DEF Unanswered, Answered, Reached
    <2>6. ThreadGone'
      <3>1. ASSUME task = "standby" PROVE i \in 2..5
        BY <2>1, <3>1, Lengths
      <3> QED BY <1>2, <3>1 DEF AckInv, ThreadGone, Between
    <2> QED BY <2>5, <2>6 DEF AckInv
  <1> QED BY <1>3, <1>4

\* A step that leaves the commands where they are keeps the invariant, if the state
\* only changes to one that may come over them.
LEMMA StillAnswers ==
    ASSUME AckInv,
           doing'["controller"] = doing["controller"], at'["controller"] = at["controller"],
           acks' = acks,
           \/ summaryState' = summaryState
           \/ summaryState' = "Fault" /\ ~Between("controller", "standby", 2..5)
           \/ summaryState = "Standby" /\ summaryState' = "Offline",
           pumpThread = "null" => pumpThread' = "null"
    PROVE  AckInv'
  <1>1. Unanswered'
    BY DEF AckInv, Unanswered
  <1>2. ThreadGone'
    BY DEF AckInv, ThreadGone, Between
  <1>3. ASSUME doing["controller"] \in Asking, summaryState \in Outcomes[doing["controller"]],
               \/ at["controller"] = Len(Body[doing["controller"]])
               \/ at["controller"] = Len(Body[doing["controller"]]) + 1
        PROVE  summaryState' \in Outcomes[doing["controller"]]
    <2>1. CASE doing["controller"] = "enable"
      BY <1>3, <2>1, OutcomeTable
    <2>2. CASE doing["controller"] = "disable"
      BY <1>3, <2>2, OutcomeTable
    <2>3. CASE doing["controller"] = "standby"
      <3>1. at["controller"] \in 2..5
        BY <1>3, <2>3, Lengths
      <3> QED BY <1>3, <2>3, <3>1, OutcomeTable DEF Between
    <2> QED BY <1>3, <2>1, <2>2, <2>3 DEF Asking
  <1>4. Answered' /\ Reached'
    BY <1>3 DEF AckInv, Answered, Reached
  <1> QED BY <1>1, <1>2, <1>4 DEF AckInv

-----------------------------------------------------------------------------
(* Steps of the controller *)

\* A call of a task that asks for nothing.
LEMMA ElsewhereAnswers ==
    ASSUME TypeOK, NEW call \in {"getTarget", "openValve", "checkPump", "startPumpThread"},
           AckInv, Calling("controller", call),
           doing'["controller"] \in {doing["controller"], "fail"}
    PROVE  AckInv'
  <1>1. /\ doing["controller"] \in Tasks /\ doing["controller"] # "idle"
        /\ at["controller"] \in 1..Len(Body[doing["controller"]])
        /\ Body[doing["controller"]][at["controller"]] = call
    BY Place DEF Threads
  <1>2. doing["controller"] \notin Asking
    BY <1>1, AskingCalls
  <1> QED BY <1>1, <1>2, NothingAsked DEF Asking

\* Switching the state.
LEMMA SwitchAnswers ==
    ASSUME TypeOK, AckInv, Switch("controller")
    PROVE  AckInv'
  <1> USE DEF SwitchState
  <1>1. CASE SwitchState("controller", "toDisabled", "Disabled")
    BY <1>1, CallAnswers
  <1>2. CASE SwitchState("controller", "toEnabled", "Enabled")
    BY <1>2, CallAnswers
  <1>3. CASE SwitchState("controller", "toStandby", "Standby")
    BY <1>3, CallAnswers
  <1>4. CASE SwitchState("controller", "toFault", "Fault")
    BY <1>4, CallAnswers
  <1> QED BY <1>1, <1>2, <1>3, <1>4 DEF Switch

\* Everything a command reports, writes and configures.
LEMMA ReportAnswers ==
    ASSUME TypeOK, AckInv,
           Report("controller") \/ Drive("controller") \/ Configure("controller")
    PROVE  AckInv'
  <1>1. CASE Report("controller")
    BY <1>1, CallAnswers, CompleteAnswers
    DEF Report, SetErrorCode, SetEngineeringMode, RequestExit
  <1>2. CASE Drive("controller")
    <2>1. CASE OpenValve("controller")
      BY <2>1, ElsewhereAnswers DEF OpenValve, Goto
    <2> QED
      BY <1>2, <2>1, CallAnswers
      DEF Drive, SetFCUPower, SetCoolantPumpPower, CloseValve, SendDemand
  <1>3. CASE Configure("controller")
    <2>1. CASE CheckPump("controller")
      BY <2>1, ElsewhereAnswers DEF CheckPump, Goto
    <2> QED
      BY <1>3, <2>1, CallAnswers
      DEF Configure, LoadSettings, ReportServerID, ApplySaved, DefaultSetpoints, SetSetpoints
  <1> QED BY <1>1, <1>2, <1>3

\* The valve's state machine.
LEMMA FinerAnswers ==
    ASSUME TypeOK, AckInv, Finer("controller")
    PROVE  AckInv'
  <1>1. ASSUME NEW call \in {"finerDemand", "finerClose", "finerFault"}, NEW new,
               SetFinerTarget("controller", call, new)
        PROVE  AckInv'
    BY <1>1, CallAnswers DEF SetFinerTarget
  <1>2. CASE GetTargetNone("controller") \/ GetTargetOpen("controller")
             \/ GetTargetClosed("controller") \/ GetTargetFails("controller")
    <2>1. Calling("controller", "getTarget")
      BY <1>2 DEF GetTargetNone, GetTargetOpen, GetTargetClosed, GetTargetFails
    <2>2. doing'["controller"] \in {doing["controller"], "fail"}
      BY <1>2 DEF GetTargetNone, GetTargetOpen, GetTargetClosed, GetTargetFails, Return, Goto,
                  TypeOK, ControlOK, Threads
    <2> QED BY <2>1, <2>2, ElsewhereAnswers
  <1> QED BY <1>1, <1>2 DEF Finer

\* The pump thread's start, stop and requests.
LEMMA PumpAnswers ==
    ASSUME TypeOK, AckInv, Pump("controller")
    PROVE  AckInv'
  <1>1. CASE RequestStop("controller")
    BY <1>1, StillAnswers DEF RequestStop, control, state
  <1>2. CASE StartPumpThread("controller")
    BY <1>2, ElsewhereAnswers DEF StartPumpThread, Return, Goto
  <1>3. CASE StopPumpThread("controller")
    BY <1>3, CallAnswers DEF StopPumpThread
  <1>4. ASSUME NEW call \in {"startupPump", "pumpRequest"}, NEW needed,
               PumpRequest("controller", call, needed)
        PROVE  AckInv'
    <2>1. CASE needed /\ pumpThread = "null"
      BY <1>4, <2>1, StillAnswers DEF PumpRequest, control, state
    <2>2. CASE ~(needed /\ pumpThread = "null")
      BY <1>4, <2>2, CallAnswers DEF PumpRequest
    <2> QED BY <2>1, <2>2
  <1> QED BY <1>1, <1>2, <1>3, <1>4 DEF Pump

\* The end of a task forgets its acknowledgements.
LEMMA FinishAnswers ==
    ASSUME TypeOK, AckInv, Finish("controller")
    PROVE  AckInv'
  <1>1. doing'["controller"] = "idle" /\ acks' = <<>>
    BY DEF Finish, TypeOK, ControlOK, Threads
  <1> QED
    BY <1>1 DEF AckInv, Unanswered, Answered, Reached, ThreadGone, Between, Asking

-----------------------------------------------------------------------------
(* Steps of the others *)

\* The calls of a fault.
LEMMA FailCalls ==
    ASSUME NEW t \in Threads, doing[t] = "fail", NEW call, Calling(t, call)
    PROVE  /\ call \in {"toFault", "setError", "finerFault", "closeValve", "fcuPowerOff",
                        "zeroDemand"}
           /\ ~FailsAck(doing[t], at[t])
  BY Bodies, Lengths DEF Calling, FailBody, FailsAck, SALCommands

\* Where standby has joined the pump thread, there is no fault to come from it.
LEMMA PumpGone ==
    ASSUME PumpHeld, AckInv, doing["pump"] = "fail"
    PROVE  ~Between("controller", "standby", 2..5)
  BY DEF PumpHeld, PumpThreadRuns, AckInv, ThreadGone

\* The pump thread acknowledges nothing, and only faults the CSC.
LEMMA FaultAnswers ==
    ASSUME TypeOK, PumpHeld, AckInv, Step("pump")
    PROVE  AckInv'
  <1> USE DEF Threads
  <1>1. doing["pump"] = "fail"
    <2>1. doing["pump"] # "idle"
      <3>1. ASSUME NEW call, Calling("pump", call) PROVE doing["pump"] # "idle"
        BY <3>1, Place
      <3>2. CASE Switch("pump")
        BY <3>1, <3>2 DEF Switch, SwitchState
      <3>3. CASE Report("pump")
        BY <3>1, <3>3 DEF Report, SetErrorCode, SetEngineeringMode, AckComplete, RequestExit
      <3>4. CASE Drive("pump")
        BY <3>1, <3>4
        DEF Drive, SetFCUPower, SetCoolantPumpPower, CloseValve, OpenValve, SendDemand
      <3>5. CASE Finer("pump")
        BY <3>1, <3>5 DEF Finer, SetFinerTarget, GetTargetNone, GetTargetOpen,
                          GetTargetClosed, GetTargetFails
      <3>6. CASE Configure("pump")
        BY <3>1, <3>6 DEF Configure, LoadSettings, ReportServerID, CheckPump, ApplySaved,
                          DefaultSetpoints, SetSetpoints
      <3>7. CASE Pump("pump")
        BY <3>1, <3>7 DEF Pump, RequestStop, StartPumpThread, StopPumpThread, PumpRequest
      <3>8. CASE Finish("pump")
        BY <3>8 DEF Finish
      <3> QED BY <3>2, <3>3, <3>4, <3>5, <3>6, <3>7, <3>8 DEF Step
    <2> QED BY <2>1 DEF PumpHeld, PumpThreadRuns
  <1>2. ~Between("controller", "standby", 2..5)
    BY <1>1, PumpGone
  <1>3. ASSUME Return("pump") \/ Throw("pump"), NEW call, Calling("pump", call),
               summaryState' \in {summaryState, "Fault"}, pumpThread' = pumpThread
        PROVE  AckInv'
    <2>1. /\ doing'["controller"] = doing["controller"]
          /\ at'["controller"] = at["controller"]
          /\ acks' = acks
      BY <1>1, <1>3, FailCalls DEF Return, Throw, Goto, TypeOK, ControlOK
    <2> QED BY <1>2, <1>3, <2>1, StillAnswers
  <1>4. CASE Switch("pump")
    BY <1>1, <1>3, <1>4, FailCalls DEF Switch, SwitchState
  <1>5. CASE Report("pump")
    BY <1>1, <1>3, <1>5, FailCalls
    DEF Report, SetErrorCode, SetEngineeringMode, AckComplete, RequestExit, state
  <1>6. CASE Drive("pump")
    BY <1>1, <1>3, <1>6, FailCalls
    DEF Drive, SetFCUPower, SetCoolantPumpPower, CloseValve, OpenValve, SendDemand, state
  <1>7. CASE Finer("pump")
    BY <1>1, <1>3, <1>7, FailCalls
    DEF Finer, SetFinerTarget, GetTargetNone, GetTargetOpen, GetTargetClosed, GetTargetFails,
        state
  <1>8. ~Configure("pump") /\ ~Pump("pump")
    <2>1. ~Configure("pump")
      BY <1>1, FailCalls DEF Configure, LoadSettings, ReportServerID, CheckPump, ApplySaved,
                             DefaultSetpoints, SetSetpoints
    <2>2. ~Pump("pump")
      BY <1>1, FailCalls DEF Pump, RequestStop, StartPumpThread, StopPumpThread, PumpRequest
    <2> QED BY <2>1, <2>2
  <1>9. CASE Finish("pump")
    <2>1. /\ doing'["controller"] = doing["controller"]
          /\ at'["controller"] = at["controller"]
          /\ acks' = acks /\ summaryState' = summaryState
      BY <1>9 DEF Finish, state, TypeOK, ControlOK
    <2>2. pumpThread # "null"
      BY <1>1 DEF PumpHeld, PumpThreadRuns
    <2> QED BY <2>1, <2>2, StillAnswers
  <1> QED BY <1>4, <1>5, <1>6, <1>7, <1>8, <1>9 DEF Step

\* A task begins with nothing acknowledged.
LEMMA QueueAnswers ==
    ASSUME TypeOK, AckInv,
           \/ \E command \in Commands : BeginCommand(command)
           \/ BeginUpdate
           \/ BeginReload
    PROVE  AckInv'
  <1>1. PICK task : Begin("controller", task)
    BY DEF BeginCommand, BeginUpdate, BeginReload
  <1>2. /\ doing'["controller"] = task /\ at'["controller"] = 1 /\ acks' = <<>>
    BY <1>1 DEF Begin, AckInv, Unanswered, TypeOK, ControlOK, Threads
  <1>3. task \in Asking => Len(Body[task]) # 1 /\ Len(Body[task]) + 1 # 1
    <2>1. CASE task = "enable"
      BY <2>1, Lengths
    <2>2. CASE task = "disable"
      BY <2>2, Lengths
    <2>3. CASE task = "standby"
      BY <2>3, Lengths
    <2> QED BY <2>1, <2>2, <2>3 DEF Asking
  <1>4. Unanswered' /\ Answered' /\ Reached'
    BY <1>2, <1>3 DEF Unanswered, Answered, Reached
  <1>5. ThreadGone'
    BY <1>2 DEF ThreadGone, Between
  <1> QED BY <1>4, <1>5 DEF AckInv

\* The main thread and the clocks touch no command; Offline is entered from Standby.
LEMMA EnvironmentAnswers ==
    ASSUME TypeOK, AckInv, Environment
    PROVE  AckInv'
  <1> USE DEF state, control, TypeOK, ControlOK, Threads
  <1>1. CASE PumpFault
    BY <1>1, StillAnswers DEF PumpFault, Begin
  <1>2. CASE OuterLoopClock \/ TemperatureUpdate
    BY <1>2, StillAnswers DEF OuterLoopClock, TemperatureUpdate
  <1>3. CASE Done
    BY <1>3, StillAnswers DEF Done, CanSwitch, From
  <1>4. CASE StopThreads \/ Exit
    BY <1>4, StillAnswers DEF StopThreads, Exit
  <1> QED BY <1>1, <1>2, <1>3, <1>4 DEF Environment

-----------------------------------------------------------------------------
(* The theorems *)

\* Nothing but its last step ends a task of the controller.
LEMMA OnlyFinishEnds ==
    ASSUME TypeOK, Next, doing["controller"] # "idle", doing'["controller"] = "idle"
    PROVE  Finish("controller")
  <1> USE DEF TypeOK, ControlOK, Threads, Return, Throw, Goto, control
  <1>1. CASE \E t \in Threads : Step(t)
    <2>1. PICK t \in Threads : Step(t)
      BY <1>1
    <2>2. CASE Switch(t)
      BY <2>2 DEF Switch, SwitchState
    <2>3. CASE Report(t)
      BY <2>3 DEF Report, SetErrorCode, SetEngineeringMode, AckComplete, RequestExit
    <2>4. CASE Drive(t)
      BY <2>4 DEF Drive, SetFCUPower, SetCoolantPumpPower, CloseValve, OpenValve, SendDemand
    <2>5. CASE Finer(t)
      BY <2>5 DEF Finer, SetFinerTarget, GetTargetNone, GetTargetOpen, GetTargetClosed,
                  GetTargetFails
    <2>6. CASE Configure(t)
      BY <2>6 DEF Configure, LoadSettings, ReportServerID, CheckPump, ApplySaved,
                  DefaultSetpoints, SetSetpoints
    <2>7. CASE Pump(t)
      BY <2>7 DEF Pump, RequestStop, StartPumpThread, StopPumpThread, PumpRequest
    <2>8. CASE Finish(t)
      BY <2>8 DEF Finish
    <2> QED BY <2>1, <2>2, <2>3, <2>4, <2>5, <2>6, <2>7, <2>8 DEF Step
  <1>2. CASE (\E command \in Commands : BeginCommand(command)) \/ BeginUpdate \/ BeginReload
    BY <1>2 DEF BeginCommand, BeginUpdate, BeginReload, Begin
  <1>3. CASE Environment
    BY <1>3 DEF Environment, PumpFault, Begin, OuterLoopClock, TemperatureUpdate, Done,
                StopThreads, Exit
  <1> QED BY <1>1, <1>2, <1>3 DEF Next

\* The daemon starts with a task that asks for nothing.
LEMMA InitAck == Init => AckInv
  BY DEF Init, AckInv, Unanswered, Answered, Reached, ThreadGone, Between, Asking, Threads

\* Every step keeps the invariant.
LEMMA NextAck == PumpInv /\ AckInv /\ [Next]_vars => AckInv'
  <1> SUFFICES ASSUME PumpInv, AckInv, [Next]_vars PROVE AckInv'
    OBVIOUS
  <1>1. TypeOK /\ PumpHeld
    BY DEF PumpInv, PumpHeld
  <1>2. CASE Step("controller")
    BY <1>1, <1>2, SwitchAnswers, ReportAnswers, FinerAnswers, PumpAnswers, FinishAnswers
    DEF Step
  <1>3. CASE Step("pump")
    BY <1>1, <1>3, FaultAnswers
  <1>4. CASE UNCHANGED vars
    BY <1>4, StillAnswers DEF vars, state, control
  <1> QED BY <1>1, <1>2, <1>3, <1>4, QueueAnswers, EnvironmentAnswers DEF Next, Threads

\* The inductive invariant of the acknowledgements.
THEOREM AckInvariant == Spec => []AckInv
  BY InitAck, NextAck, PumpInvariant, PTL DEF Spec

\* enable, disable and standby are acknowledged exactly once, whichever of their calls
\* throws and whatever fault comes between them, and completed only in the state they
\* ask for or in one that came over it.
THEOREM OutcomeIsTold == Spec => AckTellsOutcome
  <1>1. ASSUME PumpInv, AckInv, Next, NEW command \in DOMAIN Outcomes,
               doing["controller"] = command, doing'["controller"] = "idle"
        PROVE  /\ Len(acks) = 1
               /\ acks[1] = "complete" => summaryState \in Outcomes[command]
    <2>1. TypeOK /\ PumpHeld /\ command \in Asking
      BY <1>1, OutcomeTable DEF PumpInv, PumpHeld
    <2>2. at["controller"] = Len(Body[command]) + 1
      <3>1. Finish("controller")
        BY <1>1, <2>1, OnlyFinishEnds DEF Asking
      <3> QED BY <1>1, <3>1 DEF Finish
    <2> QED BY <1>1, <2>1, <2>2 DEF AckInv, Answered
  <1>2. PumpInv /\ AckInv /\ [Next]_vars =>
        [\A command \in DOMAIN Outcomes :
            doing["controller"] = command /\ doing'["controller"] = "idle" =>
                /\ Len(acks) = 1
                /\ acks[1] = "complete" => summaryState \in Outcomes[command]]_vars
    BY <1>1
  <1> QED BY <1>2, PumpInvariant, AckInvariant, PTL DEF Spec, AckTellsOutcome
=============================================================================
