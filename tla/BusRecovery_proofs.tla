-------------------------- MODULE BusRecovery_proofs --------------------------
(***************************************************************************)
(* That the ILCs agree on their mode, and are Enabled with the CSC, for    *)
(* any number of ILCs: whatever commands, faults, losses and recoveries of *)
(* the bus are mixed with each other.                                      *)
(***************************************************************************)
EXTENDS BusRecovery, TLAPS

-----------------------------------------------------------------------------
(* The tasks *)

\* The tasks, by name.
LEMMA TaskNames ==
    Tasks = {"start", "enable", "disable", "standby", "heat", "poll", "panic", "idle"}
  BY DEF Tasks, Body

\* The body of every task, written out.
LEMMA Bodies ==
    /\ Body["start"] = <<"Disabled", "ServerID", "serve", "toDisabled">>
    /\ Body["enable"] = <<"Enabled", "toEnabled">>
    /\ Body["disable"] = <<"zero", "Disabled", "toDisabled">>
    /\ Body["standby"] = <<"join", "ClearFaults", "Standby", "toStandby">>
    /\ Body["heat"] = <<"heat">>
    /\ Body["poll"] = <<"poll">>
    /\ Body["panic"] = <<"toFault", "zero">>
    /\ Body["idle"] = <<>>
  BY DEF Body, PanicBody

\* How many calls every task makes.
LEMMA Lengths ==
    /\ Len(Body["start"]) = 4 /\ Len(Body["enable"]) = 2 /\ Len(Body["disable"]) = 3
    /\ Len(Body["standby"]) = 4 /\ Len(Body["heat"]) = 1 /\ Len(Body["poll"]) = 1
    /\ Len(Body["panic"]) = 2 /\ Len(Body["idle"]) = 0
  BY Bodies

\* No task makes more than four.
LEMMA LengthType == \A task \in Tasks : Len(Body[task]) \in 0..4
  BY Lengths, TaskNames

\* Where every call is made.
LEMMA Sites ==
    ASSUME NEW task \in Tasks, NEW i \in 1..Len(Body[task])
    PROVE  /\ Body[task][i] = "join" => task = "standby" /\ i = 1
           /\ Body[task][i] = "serve" => task = "start" /\ i = 3
           /\ Body[task][i] = "toDisabled" =>
                (task = "start" /\ i = 4) \/ (task = "disable" /\ i = 3)
           /\ Body[task][i] = "toEnabled" => task = "enable" /\ i = 2
           /\ Body[task][i] = "toStandby" => task = "standby" /\ i = 4
           /\ Body[task][i] = "toFault" => task = "panic" /\ i = 1
           /\ Body[task][i] = "Disabled" =>
                (task = "start" /\ i = 1) \/ (task = "disable" /\ i = 2)
           /\ Body[task][i] = "Enabled" => task = "enable" /\ i = 1
           /\ Body[task][i] = "ClearFaults" => task = "standby" /\ i = 2
           /\ Body[task][i] = "Standby" => task = "standby" /\ i = 3
           /\ Body[task][i] = "poll" => task = "poll" /\ i = 1
           /\ Body[task][i] = "ServerID" => task = "start" /\ i = 2
           /\ Body[task][i] = "heat" => task = "heat" /\ i = 1
           /\ Body[task][i] = "zero" =>
                (task = "disable" /\ i = 1) \/ (task = "panic" /\ i = 2)
  <1>1. CASE task = "start"    BY <1>1, Bodies
  <1>2. CASE task = "enable"   BY <1>2, Bodies
  <1>3. CASE task = "disable"  BY <1>3, Bodies
  <1>4. CASE task = "standby"  BY <1>4, Bodies
  <1>5. CASE task = "heat"     BY <1>5, Bodies
  <1>6. CASE task = "poll"     BY <1>6, Bodies
  <1>7. CASE task = "panic"    BY <1>7, Bodies
  <1>8. CASE task = "idle"     BY <1>8, Bodies
  <1> QED BY TaskNames, <1>1, <1>2, <1>3, <1>4, <1>5, <1>6, <1>7, <1>8

-----------------------------------------------------------------------------
(* Type correctness *)

\* A call is one of a task's.
LEMMA CallType ==
    ASSUME PlacesOK, NEW t \in Threads, NEW call, Calling(t, call)
    PROVE  /\ doing[t] \in Tasks /\ at[t] \in 1..Len(Body[doing[t]])
           /\ Body[doing[t]][at[t]] = call
           /\ doing[t] # "idle"
  BY Lengths DEF PlacesOK, Calling

\* Where a returning call leads: on in its task, or out of it.
LEMMA ReturnPlace ==
    ASSUME PlacesOK, NEW t \in Threads, NEW call, Calling(t, call), Return(t)
    PROVE  /\ \A u \in Threads \ {t} : doing'[u] = doing[u] /\ at'[u] = at[u]
           /\ doing' \in [Threads -> Tasks] /\ at' \in [Threads -> 1..4]
           /\ \/ /\ doing'[t] = doing[t] /\ at'[t] = at[t] + 1
                 /\ at[t] < Len(Body[doing[t]])
              \/ /\ doing'[t] = "idle" /\ at'[t] = 1
                 /\ at[t] = Len(Body[doing[t]])
  <1>1. Len(Body[doing[t]]) \in 0..4 /\ "idle" \in Tasks
    BY LengthType, TaskNames DEF PlacesOK
  <1>2. at[t] \in 1..Len(Body[doing[t]])
    BY CallType
  <1>3. CASE at[t] < Len(Body[doing[t]])
    <2>1. doing' = doing /\ at' = [at EXCEPT ![t] = at[t] + 1]
      BY <1>3 DEF Return
    <2>2. at[t] + 1 \in 1..4
      <3>1. PICK k \in 1..4 : k = at[t]
        BY DEF PlacesOK
      <3>2. PICK n \in 0..4 : n = Len(Body[doing[t]])
        BY <1>1
      <3>3. k < n
        BY <1>3, <3>1, <3>2
      <3>4. k + 1 \in 1..4
        BY <3>3
      <3> QED BY <3>1, <3>4
    <2> QED BY <1>3, <2>1, <2>2 DEF PlacesOK
  <1>4. CASE ~(at[t] < Len(Body[doing[t]]))
    BY <1>1, <1>2, <1>4 DEF PlacesOK, Return
  <1> QED BY <1>3, <1>4

\* A call that returns, its exchange if it is one ended, leaves the thread in a place
\* of a task.
LEMMA ReturnType ==
    ASSUME PlacesOK, NEW t \in Threads, NEW call, Calling(t, call), Return(t),
           phase' = [phase EXCEPT ![t] = "clear"]
    PROVE  PlacesOK'
  <1>1. doing' \in [Threads -> Tasks] /\ at' \in [Threads -> 1..4]
    BY ReturnPlace
  <1>2. phase' \in [Threads -> {"clear", "fill", "exchange"}]
    BY DEF PlacesOK
  <1>3. ASSUME NEW u \in Threads
        PROVE  /\ doing'[u] = "idle" => at'[u] = 1
               /\ phase'[u] # "clear" => \E c \in Exchanges : Calling(u, c)'
    <2>1. CASE u = t
      <3>1. doing[t] # "idle"
        BY CallType
      <3>2. phase'[u] = "clear"
        BY <2>1 DEF PlacesOK
      <3> QED BY <2>1, <3>1, <3>2, ReturnPlace
    <2>2. CASE u # t
      <3>1. doing'[u] = doing[u] /\ at'[u] = at[u]
        BY <2>2, ReturnPlace
      <3>2. phase'[u] = phase[u]
        BY <2>2 DEF PlacesOK
      <3>3. \A c : Calling(u, c)' <=> Calling(u, c)
        BY <3>1 DEF Calling
      <3> QED BY <3>1, <3>2, <3>3 DEF PlacesOK
    <2> QED BY <2>1, <2>2
  <1> QED BY <1>1, <1>2, <1>3 DEF PlacesOK

\* A thread at another call than an exchange is inside of none.
LEMMA OtherCall ==
    ASSUME PlacesOK, NEW t \in Threads, NEW call, Calling(t, call), call \notin Exchanges
    PROVE  phase[t] = "clear" /\ phase = [phase EXCEPT ![t] = "clear"]
  <1>1. phase[t] = "clear"
    BY DEF PlacesOK, Calling
  <1> QED BY <1>1 DEF PlacesOK

\* A thread that begins a task was inside of no exchange, and is at its first call.
LEMMA BeginType ==
    ASSUME PlacesOK, NEW t \in Threads, NEW task \in Tasks \ {"idle"}, Begin(t, task),
           UNCHANGED phase
    PROVE  /\ PlacesOK'
           /\ phase[t] = "clear"
           /\ doing'[t] = task /\ at'[t] = 1 /\ at' = at
           /\ \A u \in Threads \ {t} : doing'[u] = doing[u]
  <1>1. phase[t] = "clear"
    <2>1. \A call : ~Calling(t, call)
      BY CallType DEF Begin
    <2> QED BY <2>1 DEF PlacesOK
  <1>2. doing' \in [Threads -> Tasks] /\ doing'[t] = task /\ at' = at
        /\ \A u \in Threads \ {t} : doing'[u] = doing[u]
    BY DEF PlacesOK, Begin
  <1>3. at[t] = 1
    BY DEF PlacesOK, Begin
  <1>4. ASSUME NEW u \in Threads, phase'[u] # "clear"
        PROVE  \E c \in Exchanges : Calling(u, c)'
    <2>1. u # t
      BY <1>1, <1>4
    <2>2. \A c : Calling(u, c)' <=> Calling(u, c)
      BY <1>2, <2>1 DEF Calling
    <2> QED BY <1>4, <2>2 DEF PlacesOK
  <1> QED BY <1>1, <1>2, <1>3, <1>4 DEF PlacesOK

\* Whatever ILCs take the list, their modes stay modes.
LEMMA TakeType ==
    ASSUME BusOK, NEW takers, Take(takers)
    PROVE  mode' \in [ILCs -> Modes]
  <1>1. list.modes # {} => (CHOOSE m \in list.modes : TRUE) \in Modes
    BY DEF BusOK
  <1> QED BY <1>1 DEF BusOK, Take

\* A poll leads from a state of the recovery to one.
LEMMA NextStateType == \A state \in BusStates : NextState(state) \in BusStates
  BY DEF NextState, BusStates, OK, DISABLED

\* The modes of a poll are modes.
LEMMA PollModesType == \A state : PollModes(state) \in SUBSET Modes
  BY DEF PollModes

\* The list alone.
BusListOK == list.modes \in SUBSET Modes /\ list.others \in BOOLEAN

\* A thread that stays where it is, its exchange going on, stays in place.
LEMMA PhaseType ==
    ASSUME PlacesOK, NEW t \in Threads, \E call \in Exchanges : Calling(t, call),
           NEW p \in {"clear", "fill", "exchange"}, phase' = [phase EXCEPT ![t] = p],
           UNCHANGED control
    PROVE  PlacesOK'
  <1>1. \A u, c : Calling(u, c)' <=> Calling(u, c)
    BY DEF Calling, control
  <1> QED BY <1>1 DEF PlacesOK, control

\* An exchange ends in a place of a task, and with a list.
LEMMA ExchangeType ==
    ASSUME PlacesOK, BusOK, NEW t \in Threads, Exchange(t),
           \E call \in Exchanges : Calling(t, call)
    PROVE  PlacesOK' /\ BusListOK'
  <1>1. PlacesOK'
    BY ReturnType DEF Exchange
  <1>2. BusListOK'
    BY DEF Exchange, BusOK, BusListOK, EmptyList
  <1> QED BY <1>1, <1>2

-----------------------------------------------------------------------------
(* Type correctness, step by step *)

States == {"Standby", "Disabled", "Enabled", "Fault"}

\* An exchange that begins.
LEMMA ClearType ==
    ASSUME TypeOK, NEW t \in Threads, Clear(t)
    PROVE  TypeOK'
  <1>1. PlacesOK'
    BY PhaseType DEF TypeOK, Clear
  <1>2. BusOK'
    BY DEF TypeOK, Clear, BusOK, EmptyList, units
  <1> QED BY <1>1, <1>2 DEF Clear, csc, TypeOK, CscOK

\* What a thread appends to the list is of its type, whatever exchange it makes.
LEMMA FillType ==
    ASSUME TypeOK, NEW t \in Threads, Fill(t)
    PROVE  TypeOK'
  <1>1. \E call \in Exchanges : Calling(t, call)
    BY DEF Fill, Exchanges
  <1>2. PlacesOK'
    BY <1>1, PhaseType DEF TypeOK, Fill
  <1>3. BusListOK'
    <2>1. ASSUME NEW modes \in SUBSET Modes, NEW others \in BOOLEAN, Appends(modes, others)
          PROVE  BusListOK'
      BY <2>1 DEF TypeOK, Appends, BusOK, BusListOK
    <2> QED BY <2>1, PollModesType DEF Fill
  <1>4. BusOK'
    BY <1>3 DEF TypeOK, Fill, BusOK, BusListOK, units
  <1> QED BY <1>2, <1>4 DEF Fill, csc, TypeOK, CscOK

\* Its three outcomes.
LEMMA OutcomeType ==
    ASSUME TypeOK, NEW t \in Threads, Answer(t) \/ Missing(t) \/ Throw(t)
    PROVE  TypeOK'
  <1>1. Exchange(t)
    BY DEF Answer, Missing, Throw
  <1>2. \E call \in Exchanges : Calling(t, call)
    BY <1>1 DEF TypeOK, Exchange, PlacesOK
  <1>3. PlacesOK' /\ BusListOK'
    BY <1>1, <1>2, ExchangeType DEF TypeOK
  <1>4. mode' \in [ILCs -> Modes]
    BY TakeType DEF TypeOK, Answer, Missing, Throw
  <1>5. busState' \in BusStates
    <2>1. FAILED \in BusStates /\ NextState(busState) \in BusStates /\ busState \in BusStates
      BY NextStateType DEF TypeOK, BusOK, BusStates, OK, FAILED, DISABLED
    <2> QED BY <2>1 DEF Answer, Missing, Throw
  <1>6. astray' \in BOOLEAN
    BY DEF TypeOK, Answer, Missing, Throw, BusOK
  <1> QED BY <1>1, <1>3, <1>4, <1>5, <1>6 DEF Exchange, csc, TypeOK, CscOK, BusOK, BusListOK

\* The calls that are no exchanges.
LEMMA CallsType ==
    ASSUME TypeOK, NEW t \in Threads, NEW call, call \notin Exchanges, Calling(t, call),
           Return(t),
           UNCHANGED <<busState, list, phase, units, astray>>, CscOK'
    PROVE  TypeOK'
  <1>1. PlacesOK'
    BY OtherCall, ReturnType DEF TypeOK
  <1>2. BusOK'
    BY DEF TypeOK, BusOK, units
  <1> QED BY <1>1, <1>2 DEF TypeOK

\* What begins a task.
LEMMA BeginsType ==
    ASSUME TypeOK, NEW t \in Threads, NEW task \in Tasks \ {"idle"}, Begin(t, task),
           UNCHANGED bus, CscOK'
    PROVE  TypeOK'
  <1>1. PlacesOK'
    BY BeginType DEF TypeOK, bus
  <1>2. BusOK'
    BY DEF TypeOK, BusOK, units, bus
  <1> QED BY <1>1, <1>2 DEF TypeOK

\* Places do not depend on the ILCs.
LEMMA StayType ==
    ASSUME PlacesOK, UNCHANGED <<control, phase>>
    PROVE  PlacesOK'
  <1>1. \A u, c : Calling(u, c)' <=> Calling(u, c)
    BY DEF Calling, control
  <1> QED BY <1>1 DEF PlacesOK, control

\* The initial state is well typed.
LEMMA TypeInit == Init => TypeOK
  <1> SUFFICES ASSUME Init PROVE TypeOK
    OBVIOUS
  <1>1. CscOK
    BY DEF Init, CscOK
  <1>2. PlacesOK
    BY TaskNames DEF Init, PlacesOK
  <1>3. BusOK
    <2>1. busState \in BusStates
      BY DEF Init, BusStates, OK, DISABLED
    <2>2. list.modes \in SUBSET Modes /\ list.others \in BOOLEAN
      BY DEF Init, EmptyList
    <2>3. mode \in [ILCs -> Modes]
      BY DEF Init, Modes
    <2> QED BY <2>1, <2>2, <2>3 DEF Init, BusOK
  <1> QED BY <1>1, <1>2, <1>3 DEF TypeOK

\* Every step of a thread, a client, the clock or an ILC keeps the types.
LEMMA TypeStep ==
    ASSUME TypeOK, [Next]_vars
    PROVE  TypeOK'
  <1>0. CscOK
    BY DEF TypeOK, CscOK
  <1>1. ASSUME NEW t \in Threads, Step(t)
        PROVE  TypeOK'
    <2>1. CASE Clear(t)
      BY <2>1, ClearType
    <2>2. CASE Fill(t)
      BY <2>2, FillType
    <2>3. CASE Answer(t) \/ Missing(t) \/ Throw(t)
      BY <2>3, OutcomeType
    <2>4. ASSUME NEW call \in {"toDisabled", "toEnabled", "toStandby", "toFault"},
                 NEW new \in States, SwitchState(t, call, new)
          PROVE  TypeOK'
      <3>1. call \notin Exchanges
        BY DEF Exchanges, Modes
      <3> QED BY <1>0, <2>4, <3>1, CallsType DEF SwitchState, CscOK, States
    <2>5. CASE EnableThrows(t)
      <3>1. "toEnabled" \notin Exchanges
        BY DEF Exchanges, Modes
      <3> QED BY <1>0, <2>5, <3>1, CallsType DEF EnableThrows, CscOK, csc
    <2>6. CASE Serve(t)
      <3>1. "serve" \notin Exchanges
        BY DEF Exchanges, Modes
      <3> QED BY <1>0, <2>6, <3>1, CallsType DEF Serve, CscOK
    <2>7. CASE Join(t)
      <3>1. "join" \notin Exchanges
        BY DEF Exchanges, Modes
      <3> QED BY <1>0, <2>7, <3>1, CallsType DEF Join, CscOK
    <2> QED BY <1>1, <2>1, <2>2, <2>3, <2>4, <2>5, <2>6, <2>7 DEF Step, States
  <1>2. ASSUME NEW task \in Tasks \ {"idle"}, NEW from, Command(task, from)
        PROVE  TypeOK'
    BY <1>0, <1>2, BeginsType DEF Command, CscOK, csc, Threads
  <1>3. CASE BeginPoll
    BY <1>0, <1>3, BeginsType, TaskNames DEF BeginPoll, CscOK, Threads
  <1>4. CASE BeginHeat
    BY <1>0, <1>4, BeginsType, TaskNames DEF BeginHeat, CscOK, csc, Threads
  <1>5. CASE PumpFault
    BY <1>0, <1>5, BeginsType, TaskNames DEF PumpFault, CscOK, Threads
  <1>6. CASE OuterLoopClock
    BY <1>6, StayType DEF TypeOK, CscOK, OuterLoopClock, bus, BusOK, units
  <1>7. ASSUME NEW i \in ILCs, PowerLost(i)
        PROVE  TypeOK'
    BY <1>7, StayType DEF TypeOK, CscOK, PowerLost, csc, BusOK
  <1>8. ASSUME NEW i \in ILCs, PowerBack(i)
        PROVE  TypeOK'
    BY <1>8, StayType DEF TypeOK, CscOK, PowerBack, csc, BusOK, Modes
  <1>9. CASE UNCHANGED vars
    BY <1>9, StayType DEF TypeOK, CscOK, vars, csc, units, BusOK
  <1> QED BY <1>1, <1>2, <1>3, <1>4, <1>5, <1>6, <1>7, <1>8, <1>9, TaskNames DEF Next

\* BusRecovery keeps its types, with any number of ILCs.
THEOREM TypeCorrect == Spec => []TypeOK
  BY TypeInit, TypeStep, PTL DEF Spec

-----------------------------------------------------------------------------
(* The invariant *)

\* The place of the controller.
In(task, places) == doing["controller"] = task /\ at["controller"] \in places

\* The commands run in the states they lead from, unless a fault has come.
CommandsInPlace ==
    /\ summaryState # "Fault" =>
        /\ doing["controller"] = "start" => summaryState = "Standby"
        /\ doing["controller"] = "enable" => summaryState = "Disabled"
        /\ doing["controller"] = "disable" => summaryState = "Enabled"
        /\ doing["controller"] = "standby" => summaryState = "Disabled"
    /\ doing["pump"] \in {"panic", "idle"}
    /\ doing["controller"] # "panic"

\* The pump thread exchanges in Fault only, and not while standby sets the modes.
PumpApart ==
    /\ doing["pump"] = "panic" /\ at["pump"] = 2 => summaryState = "Fault"
    /\ In("standby", 2..4) => doing["pump"] = "idle" /\ ~serving

\* Where no exchange of the pump thread comes between.
Undisturbed == summaryState # "Fault" \/ In("standby", 2..4)

\* There the list of the controller's exchange is its own.
OwnList ==
    /\ phase["controller"] = "fill" /\ Undisturbed => list = EmptyList
    /\ phase["controller"] = "exchange" /\ Undisturbed =>
        \A call \in Exchanges : Calling("controller", call) => list = Asked(call)

\* When no recovery goes on, the ILCs that answer agree.
Agreed ==
    Recovered /\ ~astray /\ (summaryState # "Fault" \/ In("standby", {4})) =>
        \A i, j \in powered : mode[i] = mode[j]

\* And they are Enabled from the first exchange of enable to that of disable.
EnabledThroughout ==
    /\ Recovered /\ ~astray
    /\ \/ summaryState = "Enabled" /\ ~In("disable", {3})
       \/ summaryState # "Fault" /\ In("enable", {2})
    => \A i \in powered : mode[i] = "Enabled"

BusInv == CommandsInPlace /\ PumpApart /\ OwnList /\ Agreed /\ EnabledThroughout

\* The invariant of the bus holds when the daemon starts.
LEMMA BusInvInit == Init => BusInv
  <1> SUFFICES ASSUME Init PROVE BusInv
    OBVIOUS
  <1> QED BY DEF Init, Threads, BusInv, CommandsInPlace, PumpApart, OwnList, Agreed,
             EnabledThroughout, In

\* The pump thread's exchange is the one of panic.
LEMMA PumpExchange ==
    ASSUME TypeOK, CommandsInPlace, PumpApart, NEW call \in Exchanges, Calling("pump", call)
    PROVE  /\ doing["pump"] = "panic" /\ at["pump"] = 2
           /\ summaryState = "Fault" /\ ~Undisturbed
  <1>1. doing["pump"] = "panic" /\ at["pump"] \in 1..2
    BY CallType, Lengths DEF TypeOK, CommandsInPlace, Threads
  <1>2. at["pump"] = 2
    BY <1>1, Bodies DEF Calling, Exchanges, Modes
  <1> QED BY <1>1, <1>2 DEF PumpApart, Undisturbed

\* Whoever exchanges, and what is called.
LEMMA Exchanging ==
    ASSUME TypeOK, NEW t \in Threads, Exchange(t)
    PROVE  \E call \in Exchanges : Calling(t, call)
  BY DEF TypeOK, PlacesOK, Exchange

\* A thread that does not move.
LEMMA Unmoved ==
    ASSUME NEW t, doing'[t] = doing[t], at'[t] = at[t]
    PROVE  \A call : Calling(t, call)' <=> Calling(t, call)
  BY DEF Calling

-----------------------------------------------------------------------------
(* The places keep their part of it *)

ControlInv == CommandsInPlace /\ PumpApart

\* An exchange that goes on or ends.
LEMMA ControlExchange ==
    ASSUME TypeOK, ControlInv, NEW t \in Threads, Clear(t) \/ Fill(t) \/ Exchange(t),
           UNCHANGED <<summaryState, serving>>
    PROVE  ControlInv'
  <1>1. CASE Clear(t) \/ Fill(t)
    BY <1>1 DEF Clear, Fill, control, ControlInv, CommandsInPlace, PumpApart, In
  <1>2. CASE Exchange(t)
    <2>1. PICK call \in Exchanges : Calling(t, call)
      BY <1>2, Exchanging
    <2>2. CASE t = "pump"
      <3>1. doing["pump"] = "panic" /\ at["pump"] = 2
        BY <2>1, <2>2, PumpExchange DEF ControlInv
      <3>2. PlacesOK /\ Return(t) /\ "pump" \in Threads /\ "controller" \in Threads \ {"pump"}
        BY <1>2 DEF TypeOK, Exchange, Threads
      <3>3. doing'["controller"] = doing["controller"] /\ at'["controller"] = at["controller"]
        BY <2>1, <2>2, <3>2, ReturnPlace
      <3>4. doing'["pump"] = "idle"
        <4>1. ~(at["pump"] < Len(Body[doing["pump"]]))
          BY <3>1, Lengths
        <4>2. Calling("pump", call)
          BY <2>1, <2>2
        <4>3. Return("pump")
          BY <2>2, <3>2
        <4>4. \/ doing'["pump"] = doing["pump"] /\ at["pump"] < Len(Body[doing["pump"]])
              \/ doing'["pump"] = "idle"
          BY <3>2, <4>2, <4>3, ReturnPlace
        <4> QED BY <4>1, <4>4
      <3> QED BY <3>3, <3>4 DEF ControlInv, CommandsInPlace, PumpApart, In
    <2>3. CASE t = "controller"
      <3>1. /\ doing'["pump"] = doing["pump"] /\ at'["pump"] = at["pump"]
            /\ \/ doing'[t] = doing[t] /\ at'[t] = at[t] + 1
               \/ doing'[t] = "idle"
        BY <1>2, <2>1, <2>3, ReturnPlace DEF TypeOK, Exchange, Threads
      <3>2. doing[t] = "standby" => at[t] # 1
        BY <2>1, Bodies DEF Calling, Exchanges, Modes
      <3>3. at[t] \in 1..4
        BY DEF TypeOK, PlacesOK
      <3> QED BY <2>3, <3>1, <3>2, <3>3 DEF ControlInv, CommandsInPlace, PumpApart, In
    <2> QED BY <2>2, <2>3 DEF Threads
  <1> QED BY <1>1, <1>2

\* Where the other calls are made, and by which thread.
LEMMA OtherSites ==
    ASSUME TypeOK, ControlInv, NEW t \in Threads, NEW call, Calling(t, call)
    PROVE  /\ call \in {"toDisabled", "toEnabled", "toStandby", "serve", "join"} =>
                t = "controller"
           /\ call = "toFault" => t = "pump" /\ doing[t] = "panic" /\ at[t] = 1
           /\ call = "toDisabled" =>
                (doing[t] = "start" /\ at[t] = 4) \/ (doing[t] = "disable" /\ at[t] = 3)
           /\ call = "toEnabled" => doing[t] = "enable" /\ at[t] = 2
           /\ call = "toStandby" => doing[t] = "standby" /\ at[t] = 4
           /\ call = "serve" => doing[t] = "start" /\ at[t] = 3
           /\ call = "join" => doing[t] = "standby" /\ at[t] = 1
  <1>1. doing[t] \in Tasks /\ at[t] \in 1..Len(Body[doing[t]]) /\ Body[doing[t]][at[t]] = call
        /\ doing[t] # "idle"
    BY CallType DEF TypeOK
  <1>2. t = "pump" => doing[t] = "panic"
    BY <1>1 DEF ControlInv, CommandsInPlace
  <1>3. t = "controller" => doing[t] # "panic"
    BY DEF ControlInv, CommandsInPlace
  <1>4. t \in {"controller", "pump"}
    BY DEF Threads
  <1> QED BY <1>1, <1>2, <1>3, <1>4, Sites

\* Where they lead.
LEMMA OtherReturns ==
    ASSUME TypeOK, ControlInv, NEW t \in Threads, NEW call, Calling(t, call), Return(t)
    PROVE  /\ \A u \in Threads \ {t} : doing'[u] = doing[u] /\ at'[u] = at[u]
           /\ call \in {"toDisabled", "toEnabled", "toStandby"} => doing'[t] = "idle"
           /\ call = "serve" => doing'[t] = "start" /\ at'[t] = 4
           /\ call = "join" => doing'[t] = "standby" /\ at'[t] = 2
           /\ call = "toFault" => doing'[t] = "panic" /\ at'[t] = 2
  <1>1. /\ \A u \in Threads \ {t} : doing'[u] = doing[u] /\ at'[u] = at[u]
        /\ \/ /\ doing'[t] = doing[t] /\ at'[t] = at[t] + 1
              /\ at[t] < Len(Body[doing[t]])
           \/ /\ doing'[t] = "idle" /\ at'[t] = 1
              /\ at[t] = Len(Body[doing[t]])
    BY ReturnPlace DEF TypeOK
  <1>2. CASE call = "toDisabled"
    <2>1. at[t] = Len(Body[doing[t]])
      BY <1>2, OtherSites, Lengths
    <2> QED BY <1>1, <1>2, <2>1
  <1>3. CASE call = "toEnabled"
    <2>1. at[t] = Len(Body[doing[t]])
      BY <1>3, OtherSites, Lengths
    <2> QED BY <1>1, <1>3, <2>1
  <1>4. CASE call = "toStandby"
    <2>1. at[t] = Len(Body[doing[t]])
      BY <1>4, OtherSites, Lengths
    <2> QED BY <1>1, <1>4, <2>1
  <1>5. CASE call = "serve"
    <2>1. doing[t] = "start" /\ at[t] = 3
      BY <1>5, OtherSites
    <2> QED BY <1>1, <1>5, <2>1, Lengths
  <1>6. CASE call = "join"
    <2>1. doing[t] = "standby" /\ at[t] = 1
      BY <1>6, OtherSites
    <2> QED BY <1>1, <1>6, <2>1, Lengths
  <1>7. CASE call = "toFault"
    <2>1. doing[t] = "panic" /\ at[t] = 1
      BY <1>7, OtherSites
    <2> QED BY <1>1, <1>7, <2>1, Lengths
  <1> QED BY <1>1, <1>2, <1>3, <1>4, <1>5, <1>6, <1>7

\* The state switched to.
LEMMA ControlSwitch ==
    ASSUME TypeOK, ControlInv, NEW t \in Threads, NEW call, NEW new,
           <<call, new>> \in {<<"toDisabled", "Disabled">>, <<"toEnabled", "Enabled">>,
                             <<"toStandby", "Standby">>, <<"toFault", "Fault">>},
           SwitchState(t, call, new)
    PROVE  ControlInv'
  <1>1. Calling(t, call) /\ Return(t) /\ serving' = serving
    BY DEF SwitchState
  <1>2. CASE call = "toFault"
    <2>1. /\ t = "pump" /\ doing[t] = "panic" /\ doing'[t] = "panic"
          /\ doing'["controller"] = doing["controller"]
          /\ at'["controller"] = at["controller"]
      BY <1>1, <1>2, OtherSites, OtherReturns DEF Threads
    <2>2. summaryState' = "Fault"
      BY <1>2 DEF SwitchState
    <2> QED BY <2>1, <2>2 DEF ControlInv, CommandsInPlace, PumpApart, In
  <1>3. CASE call # "toFault"
    <2>1. /\ t = "controller" /\ doing'[t] = "idle"
          /\ doing'["pump"] = doing["pump"] /\ at'["pump"] = at["pump"]
      BY <1>1, <1>3, OtherSites, OtherReturns DEF Threads
    <2>2. summaryState' # "Fault" => summaryState # "Fault" \/ In("standby", 2..4)
      BY <1>1, <1>3, OtherSites DEF SwitchState, In
    <2>3. summaryState = "Fault" => summaryState' = "Fault" \/ doing["pump"] = "idle"
      BY <2>2 DEF ControlInv, PumpApart
    <2> QED BY <1>1, <2>1, <2>3 DEF ControlInv, CommandsInPlace, PumpApart, In
  <1> QED BY <1>2, <1>3

\* What begins a task.
LEMMA ControlBegins ==
    ASSUME TypeOK, ControlInv, UNCHANGED <<summaryState, bus>>
    PROVE  /\ Command("start", {"Standby"}) => ControlInv'
           /\ Command("enable", {"Disabled"}) => ControlInv'
           /\ Command("disable", {"Enabled"}) => ControlInv'
           /\ Command("standby", {"Disabled", "Fault"}) => ControlInv'
           /\ BeginPoll => ControlInv'
           /\ BeginHeat => ControlInv'
           /\ PumpFault => ControlInv'
  <1>1. ASSUME NEW task \in Tasks \ {"idle", "panic"}, Begin("controller", task),
               UNCHANGED serving,
               \/ task \in {"heat", "poll"}
               \/ task = "start" /\ summaryState = "Standby"
               \/ task = "enable" /\ summaryState = "Disabled"
               \/ task = "disable" /\ summaryState = "Enabled"
               \/ task = "standby" /\ summaryState \in {"Disabled", "Fault"}
        PROVE  ControlInv'
    <2>1. /\ doing'["controller"] = task /\ at'["controller"] = 1
          /\ doing'["pump"] = doing["pump"] /\ at'["pump"] = at["pump"]
      BY <1>1, BeginType DEF TypeOK, Threads, bus
    <2> QED BY <1>1, <2>1 DEF ControlInv, CommandsInPlace, PumpApart, In
  <1>2. PumpFault => ControlInv'
    <2> SUFFICES ASSUME PumpFault PROVE ControlInv'
      OBVIOUS
    <2>1. Begin("pump", "panic") /\ serving /\ "panic" \in Tasks
      BY TaskNames DEF PumpFault
    <2>2. /\ doing'["pump"] = "panic" /\ at'["pump"] = 1
          /\ doing'["controller"] = doing["controller"]
          /\ at'["controller"] = at["controller"]
      BY <2>1, BeginType DEF TypeOK, Threads, bus
    <2>3. ~In("standby", 2..4)
      BY <2>1 DEF ControlInv, PumpApart
    <2> QED BY <2>2, <2>3 DEF ControlInv, CommandsInPlace, PumpApart, In
  <1>3. {"start", "enable", "disable", "standby", "heat", "poll"} \subseteq
            Tasks \ {"idle", "panic"}
    BY TaskNames
  <1>4. Command("start", {"Standby"}) => ControlInv'
    BY <1>1, <1>3 DEF Command, csc
  <1>5. Command("enable", {"Disabled"}) => ControlInv'
    BY <1>1, <1>3 DEF Command, csc
  <1>6. Command("disable", {"Enabled"}) => ControlInv'
    BY <1>1, <1>3 DEF Command, csc
  <1>7. Command("standby", {"Disabled", "Fault"}) => ControlInv'
    BY <1>1, <1>3 DEF Command, csc
  <1>8. BeginPoll => ControlInv'
    BY <1>1, <1>3 DEF BeginPoll
  <1>9. BeginHeat => ControlInv'
    BY <1>1, <1>3 DEF BeginHeat, csc
  <1> QED BY <1>2, <1>4, <1>5, <1>6, <1>7, <1>8, <1>9

\* Where each thread is, and what it may be doing there, after any step.
LEMMA ControlStep ==
    ASSUME TypeOK, ControlInv, [Next]_vars
    PROVE  ControlInv'
  <1>1. ASSUME NEW t \in Threads, Step(t)
        PROVE  ControlInv'
    <2>1. CASE Clear(t) \/ Fill(t) \/ Answer(t) \/ Missing(t) \/ Throw(t)
      BY <2>1, ControlExchange DEF Clear, Fill, Answer, Missing, Throw, Exchange, csc
    <2>2. CASE \/ SwitchState(t, "toDisabled", "Disabled")
               \/ SwitchState(t, "toEnabled", "Enabled")
               \/ SwitchState(t, "toStandby", "Standby")
               \/ SwitchState(t, "toFault", "Fault")
      BY <2>2, ControlSwitch
    <2>3. CASE EnableThrows(t)
      <3>1. Calling(t, "toEnabled") /\ Return(t) /\ UNCHANGED csc
        BY <2>3 DEF EnableThrows
      <3>2. t = "controller" /\ doing'[t] = "idle"
            /\ doing'["pump"] = doing["pump"] /\ at'["pump"] = at["pump"]
        BY <3>1, OtherSites, OtherReturns DEF Threads
      <3> QED BY <3>1, <3>2 DEF ControlInv, CommandsInPlace, PumpApart, In, csc
    <2>4. CASE Serve(t)
      <3>1. Calling(t, "serve") /\ Return(t) /\ UNCHANGED summaryState
        BY <2>4 DEF Serve
      <3>2. t = "controller" /\ doing[t] = "start" /\ doing'[t] = "start"
            /\ doing'["pump"] = doing["pump"] /\ at'["pump"] = at["pump"]
        BY <3>1, OtherSites, OtherReturns DEF Threads
      <3> QED BY <3>1, <3>2 DEF ControlInv, CommandsInPlace, PumpApart, In
    <2>5. CASE Join(t)
      <3>1. Calling(t, "join") /\ Return(t) /\ UNCHANGED summaryState
            /\ doing["pump"] = "idle" /\ ~serving'
        BY <2>5 DEF Join
      <3>2. t = "controller" /\ doing[t] = "standby" /\ doing'[t] = "standby"
            /\ doing'["pump"] = doing["pump"] /\ at'["pump"] = at["pump"]
        BY <3>1, OtherSites, OtherReturns DEF Threads
      <3> QED BY <3>1, <3>2 DEF ControlInv, CommandsInPlace, PumpApart, In
    <2> QED BY <1>1, <2>1, <2>2, <2>3, <2>4, <2>5 DEF Step
  <1>2. ASSUME \/ Command("start", {"Standby"}) \/ Command("enable", {"Disabled"})
               \/ Command("disable", {"Enabled"}) \/ Command("standby", {"Disabled", "Fault"})
               \/ BeginPoll \/ BeginHeat \/ PumpFault
        PROVE  ControlInv'
    <2>1. UNCHANGED <<summaryState, bus>>
      BY <1>2 DEF Command, BeginPoll, BeginHeat, PumpFault, csc
    <2> QED BY <1>2, <2>1, ControlBegins
  <1>3. ASSUME \/ OuterLoopClock \/ UNCHANGED vars
               \/ \E i \in ILCs : PowerLost(i) \/ PowerBack(i)
        PROVE  ControlInv'
    <2>1. UNCHANGED <<summaryState, serving, control>>
      BY <1>3 DEF OuterLoopClock, vars, csc, PowerLost, PowerBack
    <2> QED BY <2>1 DEF ControlInv, CommandsInPlace, PumpApart, In, control
  <1> QED BY <1>1, <1>2, <1>3 DEF Next

-----------------------------------------------------------------------------
(* The list of the controller stays its own *)

\* It is nobody's outside of an exchange.
LEMMA OwnOutside ==
    ASSUME phase'["controller"] = "clear"
    PROVE  OwnList'
  BY DEF OwnList

\* Nor where the pump thread may come between.
LEMMA OwnDisturbed ==
    ASSUME ~Undisturbed'
    PROVE  OwnList'
  BY DEF OwnList

\* And what leaves the controller alone leaves its list.
LEMMA OwnUnmoved ==
    ASSUME OwnList, Undisturbed' => Undisturbed, UNCHANGED <<list, busState>>,
           phase'["controller"] = phase["controller"],
           doing'["controller"] = doing["controller"], at'["controller"] = at["controller"]
    PROVE  OwnList'
  <1>1. \A call : Calling("controller", call)' <=> Calling("controller", call)
    BY Unmoved
  <1> QED BY <1>1 DEF OwnList, Asked, PollModes, FAILED, RESET_ERROR, SERVER_ID, DISABLED

\* A call makes one exchange.
LEMMA OneCall ==
    ASSUME NEW t, NEW call, NEW other, Calling(t, call), Calling(t, other)
    PROVE  call = other
  BY DEF Calling

\* The controller fills its list.
LEMMA OwnFill ==
    ASSUME TypeOK, OwnList, Fill("controller")
    PROVE  OwnList'
  <1>1. phase'["controller"] = "exchange" /\ phase["controller"] = "fill"
    BY DEF TypeOK, PlacesOK, Fill, Threads
  <1> SUFFICES ASSUME Undisturbed',
                      NEW call \in Exchanges, Calling("controller", call)'
               PROVE  list' = Asked(call)'
    BY <1>1 DEF OwnList
  <1>2. Calling("controller", call)
    BY Unmoved DEF Fill, control
  <1>3. Undisturbed
    BY DEF Fill, control, csc, Undisturbed, In
  <1>4. list = EmptyList
    BY <1>1, <1>3 DEF OwnList
  <1>5. PollModes(busState)' = PollModes(busState)
    BY DEF Fill, PollModes, FAILED, RESET_ERROR, SERVER_ID, DISABLED
  <1>6. ASSUME NEW modes, NEW others \in BOOLEAN, Appends(modes, others)
        PROVE  list' = [modes |-> modes, others |-> others]
    BY <1>4, <1>6 DEF Appends, EmptyList
  <1>7. CASE \E m \in Modes : Calling("controller", m) /\ Appends({m}, FALSE)
    <2>1. PICK m \in Modes : Calling("controller", m) /\ Appends({m}, FALSE)
      BY <1>7
    <2>2. call = m
      BY <1>2, <2>1, OneCall
    <2> QED BY <1>6, <2>1, <2>2 DEF Asked
  <1>8. CASE \E c \in {"ServerID", "zero", "heat"} :
                 Calling("controller", c) /\ Appends({}, TRUE)
    <2>1. PICK c \in {"ServerID", "zero", "heat"} :
                 Calling("controller", c) /\ Appends({}, TRUE)
      BY <1>8
    <2>2. call = c /\ c \notin Modes /\ c # "poll"
      BY <1>2, <2>1, OneCall DEF Modes
    <2> QED BY <1>6, <2>1, <2>2 DEF Asked
  <1>9. CASE /\ Calling("controller", "poll")
             /\ Appends(PollModes(busState), PollModes(busState) = {})
    <2>1. call = "poll" /\ "poll" \notin Modes
      BY <1>2, <1>9, OneCall DEF Modes
    <2> QED BY <1>5, <1>6, <1>9, <2>1 DEF Asked
  <1> QED BY <1>7, <1>8, <1>9 DEF Fill

\* What a thread has put into the list stays there until it is sent or cleared.
LEMMA OwnStep ==
    ASSUME TypeOK, ControlInv, OwnList, [Next]_vars
    PROVE  OwnList'
  <1>1. ASSUME Step("controller")
        PROVE  OwnList'
    <2>1. CASE Clear("controller")
      BY <2>1 DEF Clear, OwnList, TypeOK, PlacesOK, Threads
    <2>2. CASE Fill("controller")
      BY <2>2, OwnFill
    <2>3. CASE Answer("controller") \/ Missing("controller") \/ Throw("controller")
      BY <2>3, OwnOutside DEF Answer, Missing, Throw, Exchange, TypeOK, PlacesOK, Threads
    <2>4. ASSUME NEW call, call \notin Exchanges, Calling("controller", call),
                 UNCHANGED phase
          PROVE  OwnList'
      BY <2>4, OtherCall, OwnOutside DEF TypeOK, Threads
    <2>5. {"toDisabled", "toEnabled", "toStandby", "toFault", "serve", "join"} \cap Exchanges
            = {}
      BY DEF Exchanges, Modes
    <2> QED BY <1>1, <2>1, <2>2, <2>3, <2>4, <2>5
            DEF Step, SwitchState, EnableThrows, Serve, Join
  <1>2. ASSUME Step("pump")
        PROVE  OwnList'
    <2>1. CASE \E call \in Exchanges : Calling("pump", call)
      <3>1. ~Undisturbed
        BY <2>1, PumpExchange DEF ControlInv
      <3>2. PICK call \in Exchanges : Calling("pump", call)
        BY <2>1
      <3>3. call \notin {"toDisabled", "toEnabled", "toStandby", "toFault", "serve", "join"}
        BY DEF Exchanges, Modes
      <3>4. CASE Clear("pump") \/ Fill("pump")
        BY <3>1, <3>4, OwnDisturbed DEF Clear, Fill, control, csc, Undisturbed, In
      <3>5. CASE Answer("pump") \/ Missing("pump") \/ Throw("pump")
        <4>1. Return("pump") /\ UNCHANGED summaryState
          BY <3>5 DEF Answer, Missing, Throw, Exchange, csc
        <4>2. doing'["controller"] = doing["controller"]
              /\ at'["controller"] = at["controller"]
          BY <3>2, <4>1, OtherReturns DEF Threads
        <4> QED BY <3>1, <4>1, <4>2, OwnDisturbed DEF Undisturbed, In
      <3>6. \A c : Calling("pump", c) => c = call
        BY <3>2, OneCall
      <3> QED BY <1>2, <3>3, <3>4, <3>5, <3>6
              DEF Step, SwitchState, EnableThrows, Serve, Join
    <2>2. CASE ~\E call \in Exchanges : Calling("pump", call)
      <3>1. ~Clear("pump")
        BY <2>2 DEF Clear
      <3>2. ~Fill("pump")
        BY <2>2 DEF Fill, Exchanges
      <3>3. ~Answer("pump") /\ ~Missing("pump") /\ ~Throw("pump")
        BY <2>2, Exchanging DEF Answer, Missing, Throw, Threads
      <3>4. PICK call \in {"toDisabled", "toEnabled", "toStandby", "toFault", "serve", "join"} :
              Calling("pump", call)
        BY <1>2, <3>1, <3>2, <3>3 DEF Step, SwitchState, EnableThrows, Serve, Join
      <3>5. call = "toFault"
        BY <3>4, OtherSites DEF Threads
      <3>6. SwitchState("pump", "toFault", "Fault")
        BY <1>2, <3>1, <3>2, <3>3, <3>4, <3>5, OneCall
           DEF Step, SwitchState, EnableThrows, Serve, Join
      <3>7. doing'["controller"] = doing["controller"]
            /\ at'["controller"] = at["controller"]
        BY <3>4, <3>6, OtherReturns DEF SwitchState, Threads
      <3>8. Undisturbed' => Undisturbed
        BY <3>6, <3>7 DEF SwitchState, Undisturbed, In
      <3> QED BY <3>6, <3>7, <3>8, OwnUnmoved DEF SwitchState
    <2> QED BY <2>1, <2>2
  <1>3. ASSUME NEW task \in Tasks \ {"idle"}, Begin("controller", task), UNCHANGED phase
        PROVE  OwnList'
    BY <1>3, BeginType, OwnOutside DEF TypeOK, Threads
  <1>4. CASE PumpFault
    <2>1. doing'["controller"] = doing["controller"] /\ at' = at
      BY <1>4, BeginType, TaskNames DEF PumpFault, bus, TypeOK, Threads
    <2>2. Undisturbed' => Undisturbed
      BY <1>4, <2>1 DEF PumpFault, Undisturbed, In
    <2> QED BY <1>4, <2>1, <2>2, OwnUnmoved DEF PumpFault, bus
  <1>5. ASSUME \/ OuterLoopClock \/ UNCHANGED vars
               \/ \E i \in ILCs : PowerLost(i) \/ PowerBack(i)
        PROVE  OwnList'
    <2>1. UNCHANGED <<summaryState, control, list, busState, phase>>
      BY <1>5 DEF OuterLoopClock, vars, csc, bus, PowerLost, PowerBack
    <2>2. Undisturbed' => Undisturbed
      BY <2>1 DEF Undisturbed, In, control
    <2> QED BY <2>1, <2>2, OwnUnmoved DEF control
  <1>6. ASSUME \/ Command("start", {"Standby"}) \/ Command("enable", {"Disabled"})
               \/ Command("disable", {"Enabled"}) \/ Command("standby", {"Disabled", "Fault"})
               \/ BeginPoll \/ BeginHeat
        PROVE  OwnList'
    BY <1>3, <1>6, TaskNames DEF Command, BeginPoll, BeginHeat, bus
  <1> QED BY <1>1, <1>2, <1>4, <1>5, <1>6 DEF Next, Threads

-----------------------------------------------------------------------------
(* The modes *)

ModesInv == Agreed /\ EnabledThroughout

\* The place of the controller, its summary state and the ILCs in their modes may
\* stay, or fewer of these answer.
LEMMA ModesUnmoved ==
    ASSUME ModesInv, UNCHANGED <<summaryState, busState, mode, astray>>,
           powered' \subseteq powered,
           doing'["controller"] = doing["controller"], at'["controller"] = at["controller"]
    PROVE  ModesInv'
  <1>1. Recovered' <=> Recovered
    BY DEF Recovered, OK, DISABLED
  <1>2. \A task, places : In(task, places)' <=> In(task, places)
    BY DEF In
  <1> QED BY <1>1, <1>2 DEF ModesInv, Agreed, EnabledThroughout

\* Only one thing can be chosen of a set of one.
LEMMA ChooseOne == \A x : (CHOOSE y \in {x} : TRUE) = x
  OBVIOUS

\* The modes of a poll, by its state.
LEMMA PollModesOf ==
    ASSUME busState \in BusStates
    PROVE  /\ busState = DISABLED => PollModes(busState) = {"Enabled"}
           /\ busState \in {OK, DISABLED + 1} => PollModes(busState) = {}
           /\ PollModes(busState) = {} => busState \in {OK, STANDBY, DISABLED + 1}
           /\ NextState(busState) \in {OK, DISABLED + 1} =>
                busState \in {OK, DISABLED, DISABLED + 1}
  <1>1. busState \in 0..6
    BY DEF BusStates, OK, DISABLED
  <1> QED BY <1>1 DEF PollModes, NextState, Modes, OK, FAILED, RESET_ERROR, STANDBY,
                      SERVER_ID, DISABLED

\* What an exchange of the controller makes of the modes: all ILCs that answer take
\* the one it set, or it set none and they keep theirs; else the recovery goes on,
\* or a command was missed.
LEMMA OutcomeModes ==
    ASSUME TypeOK, OwnList, Undisturbed, Recovered', ~astray',
           Answer("controller") \/ Missing("controller") \/ Throw("controller"),
           NEW call \in Exchanges, Calling("controller", call)
    PROVE  \/ \E m \in Modes :
                /\ m = call \/ (call = "poll" /\ m = "Enabled")
                /\ \A i \in powered : mode'[i] = m
           \/ /\ mode' = mode /\ Recovered /\ ~astray
              /\ call \notin Modes
  <1>1. list.modes = IF call \in Modes THEN {call}
                     ELSE IF call = "poll" THEN PollModes(busState) ELSE {}
    <2>1. list = Asked(call)
      BY DEF OwnList, Answer, Missing, Throw, Exchange
    <2> QED BY <2>1 DEF Asked
  <1>2. busState \in BusStates /\ mode \in [ILCs -> Modes] /\ powered \subseteq ILCs
    BY DEF TypeOK, BusOK
  <1>3. \A m \in Modes : Calling("controller", m) => call = m
    BY OneCall
  <1>4. Calling("controller", "poll") <=> call = "poll"
    BY OneCall
  <1>5. ASSUME NEW m \in Modes, list.modes = {m}, Take(powered)
        PROVE  \A i \in powered : mode'[i] = m
    BY <1>2, <1>5, ChooseOne DEF Take
  <1>6. ASSUME list.modes = {}, NEW takers, Take(takers)
        PROVE  mode' = mode
    BY <1>2, <1>6 DEF Take
  <1>7. CASE call \in Modes
    <2>1. list.modes = {call}
      BY <1>1, <1>7
    <2>2. Take(powered)
      BY <1>7 DEF Answer, Missing, Throw, ChangesMode
    <2> QED BY <1>5, <1>7, <2>1, <2>2
  <1>8. CASE call = "poll"
    <2>1. list.modes = PollModes(busState) /\ call \notin Modes
      BY <1>1, <1>8 DEF Modes
    <2>2. ~Missing("controller")
      BY <1>4, <1>8 DEF Missing, Recovered, FAILED, OK, DISABLED
    <2>3. CASE Answer("controller")
      <3>1. NextState(busState) \in {OK, DISABLED + 1}
        BY <1>4, <1>8, <2>3 DEF Answer, Recovered
      <3>2. CASE busState = DISABLED
        BY <1>2, <1>5, <1>8, <2>1, <2>3, <3>2, PollModesOf DEF Answer, Modes
      <3>3. CASE busState \in {OK, DISABLED + 1}
        <4>1. list.modes = {}
          BY <1>2, <2>1, <3>3, PollModesOf
        <4> QED BY <1>6, <2>1, <2>3, <3>3, <4>1 DEF Answer, Recovered
      <3> QED BY <1>2, <3>1, <3>2, <3>3, PollModesOf
    <2>4. CASE Throw("controller")
      <3>1. busState \in {OK, DISABLED + 1}
        BY <2>4 DEF Throw, Recovered
      <3>2. list.modes = {}
        BY <1>2, <2>1, <3>1, PollModesOf
      <3>3. ~astray /\ mode' = mode
        BY <1>6, <2>4, <3>2 DEF Throw
      <3> QED BY <2>1, <3>1, <3>3 DEF Recovered
    <2> QED BY <2>2, <2>3, <2>4
  <1>9. CASE call \notin Modes /\ call # "poll"
    <2>1. list.modes = {}
      BY <1>1, <1>9
    <2>2. mode' = mode
      BY <1>6, <2>1 DEF Answer, Missing, Throw
    <2>3. busState' = busState /\ ~astray
      BY <1>4, <1>9, <2>1 DEF Answer, Missing, Throw
    <2> QED BY <1>9, <2>2, <2>3 DEF Recovered
  <1> QED BY <1>7, <1>8, <1>9

\* Where the controller was before the place its exchange led it to.
LEMMA ExchangePlaces ==
    ASSUME TypeOK, ControlInv, Exchange("controller"),
           NEW call \in Exchanges, Calling("controller", call)
    PROVE  /\ In("standby", {4})' => In("standby", {3}) /\ call = "Standby"
           /\ In("enable", {2})' => In("enable", {1}) /\ call = "Enabled"
           /\ call = "Disabled" /\ doing["controller"] = "disable" => In("disable", {3})'
           /\ ~In("disable", {3})
           /\ call = "Standby" => In("standby", {3})
           /\ doing'["pump"] = doing["pump"]
  <1>1. /\ doing'["pump"] = doing["pump"]
        /\ \/ /\ doing'["controller"] = doing["controller"]
              /\ at'["controller"] = at["controller"] + 1
              /\ at["controller"] < Len(Body[doing["controller"]])
           \/ /\ doing'["controller"] = "idle"
              /\ at["controller"] = Len(Body[doing["controller"]])
    BY ReturnPlace DEF TypeOK, Exchange, Threads
  <1>2. /\ doing["controller"] \in Tasks
        /\ at["controller"] \in 1..Len(Body[doing["controller"]])
        /\ Body[doing["controller"]][at["controller"]] = call
    BY CallType DEF TypeOK, Threads
  <1>3. at["controller"] \in 1..4
    BY DEF TypeOK, PlacesOK, Threads
  <1>4. In("standby", {4})' => In("standby", {3}) /\ call = "Standby"
    BY <1>1, <1>2, <1>3, Bodies DEF In
  <1>5. In("enable", {2})' => In("enable", {1}) /\ call = "Enabled"
    BY <1>1, <1>2, <1>3, Bodies DEF In
  <1>6. ASSUME call = "Disabled", doing["controller"] = "disable"
        PROVE  In("disable", {3})'
    <2>1. at["controller"] = 2
      BY <1>2, <1>6, Sites
    <2> QED BY <1>1, <1>6, <2>1, Lengths DEF In
  <1>7. ~In("disable", {3})
    BY <1>2, Bodies DEF In, Exchanges, Modes
  <1>8. call = "Standby" => In("standby", {3})
    BY <1>2, Sites DEF In
  <1> QED BY <1>1, <1>4, <1>5, <1>6, <1>7, <1>8

\* An exchange of the controller keeps the modes as they have to be.
LEMMA ModesOutcome ==
    ASSUME TypeOK, BusInv,
           Answer("controller") \/ Missing("controller") \/ Throw("controller")
    PROVE  ModesInv'
  <1>1. Exchange("controller") /\ UNCHANGED <<summaryState, powered>>
    BY DEF Answer, Missing, Throw, Exchange, csc
  <1>2. PICK call \in Exchanges : Calling("controller", call)
    BY <1>1, Exchanging DEF Threads
  <1>3. /\ In("standby", {4})' => In("standby", {3}) /\ call = "Standby"
        /\ In("enable", {2})' => In("enable", {1}) /\ call = "Enabled"
        /\ call = "Disabled" /\ doing["controller"] = "disable" => In("disable", {3})'
        /\ ~In("disable", {3})
    BY <1>1, <1>2, ExchangePlaces DEF BusInv, ControlInv
  <1>4. summaryState # "Fault" \/ In("standby", {4})' => Undisturbed
    BY <1>3 DEF Undisturbed, In
  <1>5. Agreed'
    <2> SUFFICES ASSUME Recovered', ~astray', summaryState # "Fault" \/ In("standby", {4})',
                        NEW i \in powered, NEW j \in powered
                 PROVE  mode'[i] = mode'[j]
      BY <1>1 DEF Agreed
    <2>1. CASE \E m \in Modes : \A k \in powered : mode'[k] = m
      BY <2>1
    <2>2. CASE mode' = mode /\ Recovered /\ ~astray /\ call \notin Modes
      <3>1. summaryState # "Fault"
        BY <1>3, <2>2 DEF Modes
      <3> QED BY <2>2, <3>1 DEF BusInv, Agreed
    <2> QED BY <1>2, <1>4, <2>1, <2>2, OutcomeModes DEF BusInv
  <1>6. EnabledThroughout'
    <2> SUFFICES ASSUME Recovered', ~astray',
                        \/ summaryState = "Enabled" /\ ~In("disable", {3})'
                        \/ summaryState # "Fault" /\ In("enable", {2})',
                        NEW i \in powered
                 PROVE  mode'[i] = "Enabled"
      BY <1>1 DEF EnabledThroughout
    <2>1. summaryState # "Fault" /\ Undisturbed
      BY <1>4
    <2>2. call \in Modes => call = "Enabled"
      <3>1. CASE In("enable", {2})'
        BY <1>3, <3>1
      <3>2. CASE summaryState = "Enabled" /\ ~In("disable", {3})'
        <4>1. doing["controller"] \in {"disable", "heat", "poll"}
          <5>1. doing["controller"] \in Tasks \ {"idle"}
            BY <1>2, CallType DEF TypeOK, Threads
          <5> QED BY <3>2, <5>1, TaskNames DEF BusInv, CommandsInPlace
        <4>2. call \in Modes => call = "Disabled" /\ doing["controller"] = "disable"
          <5>1. /\ doing["controller"] \in Tasks
                /\ at["controller"] \in 1..Len(Body[doing["controller"]])
                /\ Body[doing["controller"]][at["controller"]] = call
            BY <1>2, CallType DEF TypeOK, Threads
          <5> QED BY <4>1, <5>1, Sites DEF Modes
        <4> QED BY <1>3, <3>2, <4>2
      <3> QED BY <3>1, <3>2
    <2>3. CASE \E m \in Modes : /\ m = call \/ (call = "poll" /\ m = "Enabled")
                                /\ \A k \in powered : mode'[k] = m
      BY <2>2, <2>3
    <2>4. CASE mode' = mode /\ Recovered /\ ~astray /\ call \notin Modes
      <3>1. summaryState = "Enabled"
        BY <1>3, <2>4 DEF Modes
      <3> QED BY <1>3, <2>4, <3>1 DEF BusInv, EnabledThroughout
    <2> QED BY <1>2, <2>1, <2>3, <2>4, OutcomeModes DEF BusInv
  <1> QED BY <1>5, <1>6 DEF ModesInv

\* The pump thread's exchange is in Fault, where nothing is promised until standby.
LEMMA ModesDisturbed ==
    ASSUME ~Undisturbed, UNCHANGED summaryState,
           doing'["controller"] = doing["controller"], at'["controller"] = at["controller"]
    PROVE  ModesInv'
  <1>1. summaryState' = "Fault" /\ ~In("standby", {4})'
    BY DEF Undisturbed, In
  <1> QED BY <1>1 DEF ModesInv, Agreed, EnabledThroughout

\* The calls that are no exchanges.
LEMMA ModesCalls ==
    ASSUME TypeOK, BusInv, NEW t \in Threads, NEW call, Calling(t, call), Return(t),
           UNCHANGED <<busState, units, astray>>,
           \/ call \in {"toEnabled", "serve", "join"} /\ UNCHANGED summaryState
           \/ call = "toFault" /\ summaryState' = "Fault"
           \/ call = "toStandby" /\ summaryState' = "Standby"
           \/ /\ <<call, summaryState'>> \in
                    {<<"toDisabled", "Disabled">>, <<"toEnabled", "Enabled">>,
                     <<"toDisabled", "Fault">>, <<"toEnabled", "Fault">>}
              /\ summaryState = "Fault" => summaryState' = "Fault"
    PROVE  ModesInv'
  <1>1. Recovered' <=> Recovered
    BY DEF Recovered, OK, DISABLED
  <1>2. UNCHANGED <<mode, powered, astray>>
    BY DEF units
  <1>3. CASE call = "toFault"
    <2>1. UNCHANGED <<doing["controller"], at["controller"]>>
      BY <1>3, OtherSites, OtherReturns DEF BusInv, ControlInv, Threads
    <2> QED BY <1>1, <1>2, <1>3, <2>1 DEF ModesInv, BusInv, Agreed, EnabledThroughout, In
  <1>4. CASE call \in {"toDisabled", "toEnabled", "toStandby"}
    <2>1. t = "controller" /\ doing'["controller"] = "idle"
      BY <1>4, OtherSites, OtherReturns DEF BusInv, ControlInv
    <2>2. ~In("standby", {4})' /\ ~In("enable", {2})'
      BY <2>1 DEF In
    <2>3. call = "toStandby" => In("standby", {4})
      BY <2>1, OtherSites DEF BusInv, ControlInv, In
    <2>4. call = "toEnabled" => In("enable", {2})
      BY <2>1, OtherSites DEF BusInv, ControlInv, In
    <2>5. Agreed'
      BY <1>1, <1>2, <1>4, <2>2, <2>3 DEF BusInv, Agreed
    <2>6. CASE call = "toEnabled"
      <3>1. summaryState = "Fault" => summaryState' # "Enabled"
        BY <2>6
      <3>2. In("enable", {2}) /\ ~In("disable", {3})
        BY <2>4, <2>6 DEF In
      <3> QED BY <1>1, <1>2, <2>2, <2>5, <3>1, <3>2 DEF BusInv, ModesInv, EnabledThroughout
    <2>7. CASE call # "toEnabled"
      <3>1. summaryState' # "Enabled"
        BY <1>4, <2>7
      <3> QED BY <2>2, <2>5, <3>1 DEF ModesInv, EnabledThroughout
    <2> QED BY <2>6, <2>7
  <1>5. CASE call \in {"serve", "join"}
    <2>1. /\ t = "controller" /\ UNCHANGED doing["controller"]
          /\ doing["controller"] \in {"start", "standby"} /\ at'["controller"] \in {2, 4}
          /\ at'["controller"] = 4 => doing["controller"] = "start"
      BY <1>5, OtherSites, OtherReturns DEF BusInv, ControlInv
    <2>2. ~In("standby", {4})' /\ ~In("enable", {2})' /\ ~In("disable", {3})
      BY <2>1 DEF In
    <2> QED BY <1>1, <1>2, <1>5, <2>2 DEF ModesInv, BusInv, Agreed, EnabledThroughout
  <1> QED BY <1>3, <1>4, <1>5

\* A task of the controller begins.
LEMMA ModesBegin ==
    ASSUME TypeOK, BusInv, NEW task \in Tasks \ {"idle"}, Begin("controller", task),
           UNCHANGED <<summaryState, bus>>
    PROVE  ModesInv'
  <1>1. doing["controller"] = "idle" /\ at'["controller"] = 1
    BY BeginType DEF Begin, TypeOK, bus, Threads
  <1>2. ~In("standby", {4})' /\ ~In("enable", {2})' /\ ~In("disable", {3})
    BY <1>1 DEF In
  <1>3. Recovered' <=> Recovered
    BY DEF Recovered, OK, DISABLED, bus
  <1> QED BY <1>2, <1>3 DEF ModesInv, BusInv, Agreed, EnabledThroughout, bus, units

\* The modes the settled ILCs agree on, through every step.
LEMMA ModesStep ==
    ASSUME TypeOK, BusInv, [Next]_vars
    PROVE  ModesInv'
  <1>1. ASSUME NEW t \in Threads, Clear(t) \/ Fill(t)
        PROVE  ModesInv'
    BY <1>1, ModesUnmoved DEF Clear, Fill, control, csc, units, BusInv, ModesInv
  <1>2. CASE Answer("controller") \/ Missing("controller") \/ Throw("controller")
    BY <1>2, ModesOutcome
  <1>3. CASE Answer("pump") \/ Missing("pump") \/ Throw("pump")
    <2>1. Exchange("pump")
      BY <1>3 DEF Answer, Missing, Throw
    <2>2. PICK call \in Exchanges : Calling("pump", call)
      BY <2>1, Exchanging DEF Threads
    <2>3. ~Undisturbed
      BY <2>2, PumpExchange DEF BusInv
    <2>4. UNCHANGED <<doing["controller"], at["controller"]>>
      BY <2>1, <2>2, OtherReturns DEF Exchange, BusInv, ControlInv, Threads
    <2> QED BY <2>1, <2>3, <2>4, ModesDisturbed DEF Exchange, csc
  <1>4. ASSUME NEW t \in Threads,
               \/ SwitchState(t, "toDisabled", "Disabled")
               \/ SwitchState(t, "toEnabled", "Enabled")
               \/ SwitchState(t, "toStandby", "Standby")
               \/ SwitchState(t, "toFault", "Fault")
        PROVE  ModesInv'
    BY <1>4, ModesCalls DEF SwitchState
  <1>5. ASSUME NEW t \in Threads, EnableThrows(t) \/ Serve(t) \/ Join(t)
        PROVE  ModesInv'
    BY <1>5, ModesCalls DEF EnableThrows, Serve, Join, csc
  <1>6. CASE \/ Command("start", {"Standby"}) \/ Command("enable", {"Disabled"})
             \/ Command("disable", {"Enabled"}) \/ Command("standby", {"Disabled", "Fault"})
             \/ BeginPoll \/ BeginHeat
    <2>1. {"start", "enable", "disable", "standby", "poll", "heat"} \subseteq Tasks \ {"idle"}
      BY TaskNames
    <2> QED BY <1>6, <2>1, ModesBegin DEF Command, BeginPoll, BeginHeat, csc
  <1>7. CASE PumpFault
    <2>1. UNCHANGED <<doing["controller"], at["controller"]>>
      BY <1>7, BeginType, TaskNames DEF PumpFault, bus, TypeOK, Threads
    <2> QED BY <1>7, <2>1, ModesUnmoved DEF PumpFault, bus, units, BusInv, ModesInv
  <1>8. CASE OuterLoopClock \/ UNCHANGED vars \/ \E i \in ILCs : PowerLost(i)
    BY <1>8, ModesUnmoved
       DEF OuterLoopClock, vars, csc, PowerLost, bus, units, control, BusInv, ModesInv
  <1>9. ASSUME NEW i \in ILCs, PowerBack(i)
        PROVE  ModesInv'
    <2>1. UNCHANGED <<summaryState, busState, control>>
      BY <1>9 DEF PowerBack, csc
    <2>2. ~(Recovered /\ ~astray)'
      BY <1>9, <2>1 DEF PowerBack, Recovered, OK, DISABLED
    <2> QED BY <2>2 DEF ModesInv, Agreed, EnabledThroughout
  <1> QED BY <1>1, <1>2, <1>3, <1>4, <1>5, <1>6, <1>7, <1>8, <1>9 DEF Next, Step, Threads

\* Every step keeps the invariant.
LEMMA BusInvStep ==
    ASSUME TypeOK, BusInv, [Next]_vars
    PROVE  BusInv'
  <1>1. ControlInv'
    BY ControlStep DEF BusInv, ControlInv
  <1>2. OwnList'
    BY OwnStep DEF BusInv, ControlInv
  <1>3. ModesInv'
    BY ModesStep
  <1> QED BY <1>1, <1>2, <1>3 DEF BusInv, ControlInv, ModesInv

\* Where the modes stand, with the call of every thread and the state of the
\* recovery, in every state of the bus.
THEOREM BusInvariant == Spec => []BusInv
  <1>1. Init => TypeOK /\ BusInv
    BY TypeInit, BusInvInit
  <1>2. TypeOK /\ BusInv /\ [Next]_vars => (TypeOK /\ BusInv)'
    BY TypeStep, BusInvStep
  <1> QED BY <1>1, <1>2, PTL DEF Spec

\* With any number of ILCs: in every state but Fault, between two tasks of the controller
\* and with no recovery under way, those that answer agree on their mode - unless one came
\* back, or missed a command, and nobody noticed.
THEOREM ModesAlwaysAgree == Spec => []ModesAgree
  <1>1. BusInv => ModesAgree
    BY DEF BusInv, Agreed, ModesAgree, Settled, Recovered
  <1> QED BY <1>1, BusInvariant, PTL

\* And in Enabled, they are Enabled, with the same exceptions.
THEOREM EnabledModesHold == Spec => []EnabledModes
  <1>1. BusInv => EnabledModes
    BY DEF BusInv, EnabledThroughout, EnabledModes, Settled, Recovered, In
  <1> QED BY <1>1, BusInvariant, PTL

\* Whatever the pump thread does to the list they share, the controller sends its own
\* commands in every state but Fault: a poll is never answered by nobody.
THEOREM CommandsAreOwn == Spec => []OwnCommands
  <1>1. BusInv => OwnCommands
    BY DEF BusInv, OwnList, Undisturbed, OwnCommands
  <1> QED BY <1>1, BusInvariant, PTL

=============================================================================
