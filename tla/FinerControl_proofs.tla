-------------------------- MODULE FinerControl_proofs --------------------------
(***************************************************************************)
(* Proofs about FinerControl, for every valve, all settings that satisfy   *)
(* SettingsAssumption and SettleAssumption, and every set of demands.      *)
(***************************************************************************)
EXTENDS FinerControl, TLAPS

-----------------------------------------------------------------------------
(* The compensating move *)

\* A demand that is not far from the setpoint is compensated within 0..MaxPercent
\* (or not at all, when the setpoint is NAN and the demand is near fully open).
LEMMA CompensationInRange ==
    ASSUME NEW setpoint \in Percents \cup {NaN}, NEW demand \in Percents,
           ~FarFrom(setpoint, demand)
    PROVE  Compensation(setpoint, demand) \in Percents \cup {NaN}
  <1>1. CASE setpoint = NaN
    BY <1>1, SettingsAssumption, NaNAssumption DEF Compensation, Below, Plus, Percents
  <1>2. CASE setpoint # NaN
    BY <1>2, SettingsAssumption, NaNAssumption
    DEF Compensation, Below, Plus, Percents, FarFrom, Abs
  <1> QED BY <1>1, <1>2

\* It is at least BacklashStep away from the demand, and from the setpoint.
LEMMA CompensationLegs ==
    ASSUME NEW setpoint \in Percents \cup {NaN}, NEW demand \in Percents,
           setpoint # demand, Compensation(setpoint, demand) # NaN
    PROVE  /\ Abs(demand - Compensation(setpoint, demand)) >= BacklashStep
           /\ setpoint # NaN =>
                Abs(Compensation(setpoint, demand) - setpoint) >= BacklashStep
  <1>1. CASE setpoint = NaN
    BY <1>1, SettingsAssumption, NaNAssumption DEF Compensation, Below, Plus, Percents, Abs
  <1>2. CASE setpoint # NaN
    BY <1>2, SettingsAssumption, NaNAssumption
    DEF Compensation, Below, Plus, Percents, Abs
  <1> QED BY <1>1, <1>2

-----------------------------------------------------------------------------
(* The invariant *)

\* Sums and bounds of the settings.
LEMMA Settings ==
    /\ MaxMovingTime \in Nat /\ MaxDemands \in Nat
    /\ 0 \in 0..(2 * MaxMovingTime)
    /\ MaxMovingTime \in 0..(2 * MaxMovingTime)
    /\ 2 * MaxMovingTime \in 0..(2 * MaxMovingTime)
    /\ 0 \in Percents /\ 0 \in 0..MaxDemands
    /\ NaN # 0 /\ NaN \notin Percents
  BY SettingsAssumption, NaNAssumption DEF Percents

\* One more change of the demand is still within the bound.
LEMMA OneMoreDemand ==
    ASSUME NumbersOK, demands < MaxDemands, demands' = demands + 1
    PROVE  demands' \in 0..MaxDemands
  BY Settings DEF NumbersOK

\* set_target keeps the types, and a compensating position in range.
LEMMA SetTargetType ==
    ASSUME TypeOK, CompInRange, NEW demand \in Percents, SetTarget(demand)
    PROVE  /\ state' \in States
           /\ stuck' \in BOOLEAN /\ watched' \in BOOLEAN /\ untold' \in BOOLEAN
           /\ comp' \in Percents \cup {NaN}
           /\ last' = demand /\ remaining' \in 0..(2 * MaxMovingTime)
  <1>1. CASE demand = last /\ UNCHANGED <<control, history>>
    BY <1>1 DEF TypeOK, FlagsOK, NumbersOK, CompInRange, control, history
  <1>2. CASE demand # last /\ last' = demand /\ StartTimeout
             /\ FarFrom(last, demand) /\ state' = "MOVING_TO_TARGET" /\ UNCHANGED comp
    BY <1>2, Settings DEF CompInRange, StartTimeout, States
  <1>3. CASE demand # last /\ last' = demand /\ StartTimeout
             /\ ~FarFrom(last, demand) /\ state' = "MOVING_TO_COMPENSATED_TARGET"
             /\ comp' = Compensation(last, demand)
    <2>1. comp' \in Percents \cup {NaN}
      BY <1>3, CompensationInRange DEF TypeOK, NumbersOK
    <2> QED BY <1>3, <2>1, Settings DEF StartTimeout, States
  <1> QED BY <1>1, <1>2, <1>3 DEF SetTarget

\* A position of the valve is a number.
LEMMA CompType == CompInRange => comp \in Int \cup {NaN}
  BY SettingsAssumption DEF CompInRange, Percents

\* What it does to DemandCommanded and SettledAtDemand: a changed demand is a
\* fresh one.
LEMMA SetTargetFresh ==
    ASSUME NEW demand, SetTarget(demand)
    PROVE  \/ UNCHANGED <<state, last, remaining, untold>>
           \/ state' # "ON_TARGET" /\ remaining' = MaxMovingTime
  BY DEF SetTarget, StartTimeout, control, history

\* So a demand alone keeps both.
LEMMA SetTargetKeeps ==
    ASSUME SettledAtDemand, DemandCommanded, NEW demand \in Percents, SetTarget(demand),
           UNCHANGED <<active, commanded, polled>>
    PROVE  SettledAtDemand' /\ DemandCommanded'
  <1>1. last' = demand /\ last' # NaN
    BY Settings DEF SetTarget, control
  <1> QED BY <1>1, SetTargetFresh DEF SettledAtDemand, DemandCommanded

\* The demands are positions.
LEMMA DemandsArePercents == \A demand \in Demands : demand \in Percents /\ demand # NaN
  BY DemandsAssumption, NaNAssumption DEF Percents

\* The initial state satisfies the invariant.
LEMMA InitFiner == Init => FinerInv
  <1> SUFFICES ASSUME Init PROVE FinerInv
    OBVIOUS
  <1>1. FlagsOK
    BY DEF Init, FlagsOK, States
  <1>2. NumbersOK
    BY Settings DEF Init, NumbersOK
  <1>3. CompInRange /\ SettledAtDemand /\ DemandCommanded
    BY Settings DEF Init, CompInRange, SettledAtDemand, DemandCommanded
  <1> QED BY <1>1, <1>2, <1>3 DEF FinerInv, TypeOK

\* What start and disable do, whichever of their calls throws.
LEMMA Closes ==
    ASSUME Start \/ Disable
    PROVE  /\ ~inFail /\ UNCHANGED <<pending, inFail, polled, position>>
           /\ demands < MaxDemands /\ demands' = demands + 1
           /\ \/ CloseValve
              \/ active /\ active' = active /\ ClosePartly
              \/ SetTarget(0) /\ UNCHANGED <<active, commanded>>
  BY DEF Start, Disable, Idle, CloseValve, ClosePartly, valve

\* The commands that close the valve keep the invariant ...
LEMMA CloseKeeps ==
    ASSUME FinerInv, Start \/ Disable
    PROVE  FinerInv'
  <1> USE DEF FinerInv, TypeOK
  <1>1. /\ state' \in States
        /\ stuck' \in BOOLEAN /\ watched' \in BOOLEAN /\ untold' \in BOOLEAN
        /\ comp' \in Percents \cup {NaN}
        /\ last' \in Percents \cup {NaN} /\ remaining' \in 0..(2 * MaxMovingTime)
    <2>1. CASE SetTarget(0)
      BY <2>1, Settings, SetTargetType
    <2>2. CASE UNCHANGED <<control, stuck>> /\ watched' = FALSE /\ untold' \in {untold, TRUE}
      BY <2>2 DEF control, FlagsOK, NumbersOK, CompInRange
    <2> QED BY <2>1, <2>2, Closes DEF CloseValve, ClosePartly
  <1>2. active' \in BOOLEAN
    BY DEF Start, Disable, FlagsOK
  <1>3. demands' \in 0..MaxDemands
    BY Closes, OneMoreDemand
  <1>4. FlagsOK'
    BY <1>1, <1>2, Closes DEF FlagsOK
  <1>5. CompInRange'
    BY <1>1 DEF CompInRange
  <1>6. commanded' \in {0, commanded} /\ position' = position
    BY Closes DEF CloseValve, ClosePartly
  <1>7. NumbersOK'
    BY <1>1, <1>3, <1>5, <1>6, Closes, CompType, SettingsAssumption DEF NumbersOK, Percents
  <1>8. SettledAtDemand' /\ DemandCommanded'
    <2>1. CASE CloseValve
      <3>1. last' = 0 /\ commanded' = 0
        BY <2>1 DEF CloseValve, SetTarget, control
      <3> QED BY <3>1, Settings DEF SettledAtDemand, DemandCommanded
    <2>2. CASE ClosePartly
      BY <2>2 DEF ClosePartly, control, SettledAtDemand, DemandCommanded
    <2>3. CASE SetTarget(0) /\ UNCHANGED <<active, commanded>>
      BY <2>3, Closes, SetTargetKeeps, Settings
    <2> QED BY <2>1, <2>2, <2>3, Closes
  <1> QED BY <1>4, <1>5, <1>7, <1>8

\* ... and so does a new demand ...
LEMMA DemandKeeps ==
    ASSUME FinerInv, ExecuteDemand \/ \E demand \in Demands : ControlLoop(demand)
    PROVE  FinerInv'
  <1> USE DEF FinerInv, TypeOK
  <1>1. PICK demand \in Percents :
          /\ SetTarget(demand)
          /\ UNCHANGED <<active, commanded, position, inFail, polled>>
          /\ demands' \in 0..MaxDemands /\ pending' \in Demands \cup {NaN}
    <2>1. CASE ExecuteDemand
      BY <2>1, DemandsArePercents DEF ExecuteDemand, valve, NumbersOK
    <2>2. ASSUME NEW demand \in Demands, ControlLoop(demand)
          PROVE  /\ demand \in Percents /\ SetTarget(demand)
                 /\ UNCHANGED <<active, pending, commanded, position, inFail, polled>>
                 /\ demands' \in 0..MaxDemands
      BY <2>2, DemandsArePercents, OneMoreDemand DEF ControlLoop, valve
    <2> QED BY <2>1, <2>2 DEF NumbersOK
  <1>2. /\ state' \in States
        /\ stuck' \in BOOLEAN /\ watched' \in BOOLEAN /\ untold' \in BOOLEAN
        /\ comp' \in Percents \cup {NaN}
        /\ last' = demand /\ remaining' \in 0..(2 * MaxMovingTime)
    BY <1>1, SetTargetType
  <1>3. FlagsOK'
    BY <1>1, <1>2 DEF FlagsOK
  <1>4. CompInRange'
    BY <1>2 DEF CompInRange
  <1>5. NumbersOK'
    BY <1>1, <1>2, SettingsAssumption DEF NumbersOK, Percents
  <1>6. SettledAtDemand' /\ DemandCommanded'
    BY <1>1, SetTargetKeeps
  <1> QED BY <1>3, <1>4, <1>5, <1>6

\* Both give FinerControl one of the demands, and do nothing else to it.
LEMMA DemandIsGiven ==
    ASSUME FinerInv, ExecuteDemand \/ \E demand \in Demands : ControlLoop(demand)
    PROVE  \E demand \in Percents :
              /\ ~inFail /\ demand # NaN /\ SetTarget(demand)
              /\ UNCHANGED <<active, commanded, position, inFail, polled>>
  BY DemandsArePercents
  DEF ExecuteDemand, ControlLoop, Idle, valve, FinerInv, TypeOK, NumbersOK

\* ... the other steps of the session ...
LEMMA SessionKeeps ==
    ASSUME FinerInv, Standby \/ Panic \/ \E demand \in Demands : ValidateDemand(demand)
    PROVE  FinerInv'
  <1> USE DEF FinerInv, TypeOK
  <1>1. CASE Standby
    <2>1. FlagsOK' /\ NumbersOK' /\ CompInRange'
      BY <1>1 DEF Standby, control, valve, history, FlagsOK, NumbersOK, CompInRange
    <2>2. SettledAtDemand' /\ DemandCommanded'
      BY <1>1 DEF Standby, control, valve, history, SettledAtDemand, DemandCommanded
    <2> QED BY <2>1, <2>2
  <1>2. CASE Panic
    <2>1. FlagsOK'
      BY <1>2 DEF Panic, SetTargetNaN, history, FlagsOK, States
    <2>2. NumbersOK' /\ CompInRange'
      BY <1>2, Settings DEF Panic, SetTargetNaN, NumbersOK, CompInRange
    <2>3. SettledAtDemand' /\ DemandCommanded'
      BY <1>2 DEF Panic, SetTargetNaN, SettledAtDemand, DemandCommanded
    <2> QED BY <2>1, <2>2, <2>3
  <1>3. ASSUME NEW demand \in Demands, ValidateDemand(demand)
        PROVE  FinerInv'
    <2>1. FlagsOK' /\ CompInRange'
      BY <1>3 DEF ValidateDemand, control, history, FlagsOK, CompInRange
    <2>2. demands' \in 0..MaxDemands
      BY <1>3, OneMoreDemand DEF ValidateDemand
    <2>3. NumbersOK'
      BY <1>3, <2>2 DEF ValidateDemand, control, valve, NumbersOK
    <2>4. SettledAtDemand' /\ DemandCommanded'
      BY <1>3 DEF ValidateDemand, control, valve, history, SettledAtDemand, DemandCommanded
    <2> QED BY <2>1, <2>2, <2>3, <2>4
  <1> QED BY <1>1, <1>2, <1>3

\* ... a poll: before two ticks have passed since the demand, the valve is
\* commanded to it rather than believed ...
LEMMA PollKeeps ==
    ASSUME FinerInv, GetTarget
    PROVE  FinerInv'
  <1> USE DEF FinerInv, TypeOK, Poll, Command, session, control, history, valve
  <1>1. CASE Compensated
    <2>1. FlagsOK'
      BY <1>1 DEF Compensated, StartTimeout, WriteThrows, FlagsOK, States
    <2>2. NumbersOK' /\ CompInRange'
      BY <1>1, Settings
      DEF Compensated, StartTimeout, WriteThrows, NumbersOK, CompInRange
    <2>3. SettledAtDemand' /\ DemandCommanded'
      BY <1>1 DEF Compensated, StartTimeout, WriteThrows, SettledAtDemand, DemandCommanded
    <2> QED BY <2>1, <2>2, <2>3
  <1>2. CASE Compensating
    <2>1. FlagsOK'
      BY <1>2 DEF Compensating, Write, WriteThrows, FlagsOK
    <2>2. NumbersOK' /\ CompInRange'
      BY <1>2 DEF Compensating, Write, WriteThrows, NumbersOK, CompInRange
    <2>3. SettledAtDemand' /\ DemandCommanded'
      BY <1>2 DEF Compensating, Write, WriteThrows, SettledAtDemand, DemandCommanded
    <2> QED BY <2>1, <2>2, <2>3
  <1>3. CASE Arrived
    <2>1. commanded = last \/ untold
      <3>1. Transition /\ active /\ ~polled /\ state = "MOVING_TO_TARGET"
        BY <1>3 DEF Arrived
      <3>2. remaining # MaxMovingTime /\ remaining # MaxMovingTime - 1
        BY <3>1, SettingsAssumption, SettleAssumption DEF Transition
      <3> QED BY <3>1, <3>2 DEF DemandCommanded
    <2>2. FlagsOK'
      BY <1>3 DEF Arrived, FlagsOK, States
    <2>3. NumbersOK' /\ CompInRange'
      BY <1>3 DEF Arrived, NumbersOK, CompInRange
    <2>4. SettledAtDemand' /\ DemandCommanded'
      BY <1>3, <2>1 DEF Arrived, SettledAtDemand, DemandCommanded
    <2> QED BY <2>2, <2>3, <2>4
  <1>4. CASE Moving
    <2>1. FlagsOK'
      BY <1>4 DEF Moving, Write, WriteThrows, FlagsOK
    <2>2. NumbersOK' /\ CompInRange'
      BY <1>4 DEF Moving, Write, WriteThrows, NumbersOK, CompInRange
    <2>3. SettledAtDemand' /\ DemandCommanded'
      BY <1>4 DEF Moving, Write, WriteThrows, SettledAtDemand, DemandCommanded
    <2> QED BY <2>1, <2>2, <2>3
  <1>5. CASE Holding
    <2>1. FlagsOK' /\ NumbersOK' /\ CompInRange'
      BY <1>5 DEF Holding, FlagsOK, NumbersOK, CompInRange
    <2>2. SettledAtDemand' /\ DemandCommanded'
      BY <1>5 DEF Holding, SettledAtDemand, DemandCommanded
    <2> QED BY <2>1, <2>2
  <1>6. CASE CompensationTimeout \/ MoveTimeout \/ MovedOutOfTarget
    <2>1. state' \in {state, "FAULTED"} /\ Fail
      BY <1>6 DEF CompensationTimeout, MoveTimeout, MovedOutOfTarget
    <2>2. FlagsOK'
      BY <2>1 DEF Fail, FlagsOK, States
    <2>3. NumbersOK' /\ CompInRange'
      BY <2>1 DEF Fail, NumbersOK, CompInRange
    <2>4. SettledAtDemand' /\ DemandCommanded'
      BY <2>1 DEF Fail, SettledAtDemand, DemandCommanded
    <2> QED BY <2>2, <2>3, <2>4
  <1> QED BY <1>1, <1>2, <1>3, <1>4, <1>5, <1>6 DEF GetTarget

\* ... and a tick of the clock.
LEMMA TickKeeps ==
    ASSUME FinerInv, Tick
    PROVE  FinerInv'
  <1> USE DEF FinerInv, TypeOK, session
  <1>1. position' \in Percents
    <2>1. Towards \in Percents
      BY SettingsAssumption DEF Towards, NumbersOK, Percents
    <2> QED BY <2>1 DEF Tick
  <1>2. remaining' \in 0..(2 * MaxMovingTime)
    BY SettingsAssumption DEF Tick, NumbersOK
  <1>3. FlagsOK'
    BY DEF Tick, FlagsOK
  <1>4. NumbersOK' /\ CompInRange' /\ SettledAtDemand'
    BY <1>1, <1>2 DEF Tick, NumbersOK, CompInRange, SettledAtDemand
  <1>5. DemandCommanded'
    <2>1. CASE active /\ ~untold'
      <3>1. ~polled' /\ ~untold /\ (state = "MOVING_TO_TARGET" => polled)
        BY <2>1 DEF Tick, Moves
      <3>2. remaining = MaxMovingTime => remaining' = MaxMovingTime - 1
        BY SettingsAssumption DEF Tick
      <3>3. UNCHANGED <<active, state, commanded, last>>
        BY DEF Tick
      <3> QED BY <3>1, <3>2, <3>3 DEF DemandCommanded
    <2>2. CASE ~active \/ untold'
      BY <2>2 DEF Tick, DemandCommanded
    <2> QED BY <2>1, <2>2
  <1> QED BY <1>3, <1>4, <1>5

\* Every step keeps the invariant.
LEMMA NextFiner == FinerInv /\ [Next]_vars => FinerInv'
  <1> SUFFICES ASSUME FinerInv, [Next]_vars PROVE FinerInv'
    OBVIOUS
  <1>1. CASE UNCHANGED vars
    BY <1>1
    DEF vars, control, session, valve, history, FinerInv, TypeOK, FlagsOK, NumbersOK,
        CompInRange, SettledAtDemand, DemandCommanded
  <1> QED
    BY <1>1, CloseKeeps, DemandKeeps, SessionKeeps, PollKeeps, TickKeeps DEF Next

\* The compensating position is a position of the valve, the FPGA is commanded to
\* positions only, and ON_TARGET is never reported of a passing valve, as long as no
\* poll or disable threw half way since the timeout was set.
THEOREM FinerInvariant == Spec => []FinerInv
  BY InitFiner, NextFiner, PTL DEF Spec

\* Type correctness.
THEOREM TypeCorrect == Spec => []TypeOK
  BY FinerInvariant, PTL DEF FinerInv

\* No demand, whatever came before it, is compensated below 0 or above MaxPercent.
THEOREM CompensationStaysInRange == Spec => []CompInRange
  BY FinerInvariant, PTL DEF FinerInv

\* A valve ON_TARGET is commanded to its demand, unless a poll or a disable threw half
\* way since its timeout was set.
THEOREM OnTargetIsSettled == Spec => []SettledAtDemand
  BY FinerInvariant, PTL DEF FinerInv

-----------------------------------------------------------------------------
(* The legs of a compensated move *)

\* Only set_target with a new demand changes the setpoint and compensates.
LEMMA NextLegs ==
    ASSUME FinerInv, Next, last' # last, state' = "MOVING_TO_COMPENSATED_TARGET",
           comp' # NaN
    PROVE  /\ Abs(last' - comp') >= BacklashStep
           /\ last # NaN => Abs(comp' - last) >= BacklashStep
  <1>1. PICK demand \in Percents : SetTarget(demand)
    <2>1. Start \/ Disable => SetTarget(0) /\ 0 \in Percents
      BY Closes, Settings DEF CloseValve, ClosePartly, control
    <2>2. ExecuteDemand \/ (\E demand \in Demands : ControlLoop(demand))
            => \E demand \in Percents : SetTarget(demand)
      BY DemandIsGiven
    <2>3. ~Standby /\ ~Panic /\ ~Tick /\ ~\E demand \in Demands : ValidateDemand(demand)
      BY DEF Standby, Panic, SetTargetNaN, Tick, ValidateDemand, control
    <2>4. ~GetTarget
      BY DEF GetTarget, Compensated, Compensating, Arrived, Moving, Holding,
             CompensationTimeout, MoveTimeout, MovedOutOfTarget, Fail, control
    <2> QED BY <2>1, <2>2, <2>3, <2>4 DEF Next
  <1>2. last' = demand /\ last # demand /\ comp' = Compensation(last, demand)
    BY <1>1 DEF SetTarget, control
  <1> QED BY <1>2, CompensationLegs DEF FinerInv, TypeOK, NumbersOK

\* Both legs of every compensated move are at least BacklashStep long.
THEOREM LegsAreLong == Spec => BacklashLegs
  <1>1. FinerInv /\ [Next]_vars =>
          [last' # last /\ state' = "MOVING_TO_COMPENSATED_TARGET" /\ comp' # NaN =>
             /\ Abs(last' - comp') >= BacklashStep
             /\ last # NaN => Abs(comp' - last) >= BacklashStep]_vars
    BY NextLegs
  <1> QED BY <1>1, FinerInvariant, PTL DEF Spec, BacklashLegs

-----------------------------------------------------------------------------
(* FinerControl implements ValveSpec                                        *)

\* The first leg of a move to closed goes away from closed.
LeavesFirst == last = 0 /\ state = "MOVING_TO_COMPENSATED_TARGET" => comp \in Nat \ {0}

\* set_target keeps it.
LEMMA SetTargetLeaves ==
    ASSUME FinerInv, LeavesFirst, NEW demand \in Percents, SetTarget(demand)
    PROVE  LeavesFirst'
  <1>1. CASE UNCHANGED <<control, history>>
    BY <1>1 DEF LeavesFirst, control
  <1>2. CASE last' = demand /\ state' = "MOVING_TO_TARGET"
    BY <1>2 DEF LeavesFirst
  <1>3. CASE demand # last /\ last' = demand /\ comp' = Compensation(last, demand)
    <2>1. ASSUME demand = 0 PROVE Compensation(last, 0) \in Nat \ {0}
      <3>1. last \in Percents \cup {NaN} /\ last # 0
        BY <1>3, <2>1 DEF FinerInv, TypeOK, NumbersOK
      <3>2. CASE last = NaN
        BY <3>2, SettingsAssumption DEF Compensation, Below, Percents
      <3>3. CASE last # NaN
        BY <3>1, <3>3, SettingsAssumption DEF Compensation, Below, Percents
      <3> QED BY <3>2, <3>3
    <2> QED BY <1>3, <2>1 DEF LeavesFirst
  <1> QED BY <1>1, <1>2, <1>3 DEF SetTarget

\* Every step keeps it.
LEMMA NextLeaves ==
    ASSUME FinerInv, LeavesFirst, Next
    PROVE  LeavesFirst'
  <1>1. CASE Start \/ Disable
    <2>1. SetTarget(0) \/ UNCHANGED control
      BY <1>1, Closes DEF CloseValve, ClosePartly
    <2> QED BY <2>1, Settings, SetTargetLeaves DEF LeavesFirst, control
  <1>2. CASE ExecuteDemand \/ \E demand \in Demands : ControlLoop(demand)
    BY <1>2, DemandIsGiven, SetTargetLeaves
  <1>3. CASE Panic
    BY <1>3 DEF Panic, SetTargetNaN, LeavesFirst
  <1>4. CASE Standby \/ Tick \/ \E demand \in Demands : ValidateDemand(demand)
    BY <1>4 DEF Standby, Tick, ValidateDemand, control, LeavesFirst
  <1>5. CASE GetTarget
    BY <1>5
    DEF GetTarget, Compensated, Compensating, Arrived, Moving, Holding,
        CompensationTimeout, MoveTimeout, MovedOutOfTarget, Fail, control, LeavesFirst
  <1> QED BY <1>1, <1>2, <1>3, <1>4, <1>5 DEF Next

\* Nothing of what ValveSpec sees changes with the rest.
LEMMA Unseen ==
    ASSUME UNCHANGED <<Finer, commanded, inFail>>
    PROVE  UNCHANGED Valve!vars
  BY DEF Valve!vars

\* Finer is one of the four whenever the invariant holds, and "faulted" in FAULTED only.
LEMMA FinerMeaning ==
    ASSUME FinerInv
    PROVE  /\ last = NaN <=> Finer = "faulted"
           /\ last \in Percents \ {0} <=> Finer = "open"
           /\ last = 0 <=> Finer \in {"closing", "closed"}
           /\ last = NaN => state = "FAULTED"
  BY Settings DEF FinerInv, TypeOK, NumbersOK, DemandCommanded, Finer, Percents

\* set_target to closed.
LEMMA SetTargetCloses ==
    ASSUME FinerInv, SetTarget(0)
    PROVE  Finer' \in Valve!Closing
  <1>1. CASE UNCHANGED <<control, history>> /\ last = 0
    BY <1>1, FinerMeaning DEF control, Finer, Valve!Closing
  <1>2. CASE last # 0 /\ last' = 0 /\ last # NaN
             /\ state' \in {"MOVING_TO_TARGET", "MOVING_TO_COMPENSATED_TARGET"}
    <2>1. Finer = "open"
      BY <1>2, FinerMeaning DEF FinerInv, TypeOK, NumbersOK
    <2>2. Finer' \in {"closed", "closing"}
      BY <1>2, Settings DEF Finer
    <2> QED BY <2>1, <2>2 DEF Valve!Closing
  <1>3. CASE last = NaN /\ last' = 0 /\ state' = "MOVING_TO_COMPENSATED_TARGET"
    <2>1. Finer = "faulted" /\ Finer' = "closing"
      BY <1>3, Settings, FinerMeaning DEF Finer
    <2> QED BY <2>1 DEF Valve!Closing
  <1> QED BY <1>1, <1>2, <1>3, Settings DEF SetTarget, FarFrom

\* set_target to an open valve.
LEMMA SetTargetOpens ==
    ASSUME FinerInv, NEW demand \in Percents \ {0}, SetTarget(demand)
    PROVE  Finer' = "open"
  <1>1. last' = demand
    BY DEF SetTarget, control
  <1>2. demand > 0 /\ demand # NaN
    BY Settings, SettingsAssumption DEF Percents
  <1> QED BY <1>1, <1>2 DEF Finer

\* A poll that commands a position.
LEMMA PollCommands ==
    ASSUME FinerInv, LeavesFirst, Compensated \/ Compensating \/ Moving
    PROVE  [Valve!Next]_(Valve!vars)
  <1>1. ~inFail /\ inFail' = inFail /\ last' = last
    BY DEF Compensated, Compensating, Moving, Poll, Idle, Command, Write, WriteThrows, control
  <1>2. state # "FAULTED" /\ last \in Percents
    BY Settings, FinerMeaning
    DEF Compensated, Compensating, Moving, FinerInv, TypeOK, NumbersOK
  <1>3. CASE Compensated \/ Moving
    <2>1. commanded' \in {commanded, last}
      BY <1>2, <1>3, Settings DEF Compensated, Moving, Command, Write, WriteThrows, valve
    <2>2. state' = "MOVING_TO_TARGET"
      BY <1>3 DEF Compensated, Moving, control
    <2>3. CASE last = 0
      <3>1. Finer # "faulted" /\ Finer # "open" /\ Finer' = "closed"
        BY <1>1, <2>2, <2>3, Settings DEF Finer
      <3>2. Valve!PollClosed
        BY <1>1, <2>1, <2>3, <3>1 DEF Valve!PollClosed, Valve!Written
      <3> QED BY <3>2 DEF Valve!Next
    <2>4. CASE last # 0
      <3>1. Finer = "open" /\ Finer' = "open"
        BY <1>1, <1>2, <2>4, FinerMeaning DEF Finer
      <3>2. Valve!PollOpen
        BY <1>1, <2>1, <2>4, <3>1 DEF Valve!PollOpen, Valve!Written
      <3> QED BY <3>2 DEF Valve!Next
    <2> QED BY <2>3, <2>4
  <1>4. CASE Compensating
    <2>1. UNCHANGED Finer /\ state = "MOVING_TO_COMPENSATED_TARGET"
      BY <1>4 DEF Compensating, control, Finer
    <2>2. CASE comp = NaN
      <3>1. UNCHANGED <<Finer, commanded, inFail>>
        BY <1>1, <1>4, <2>1, <2>2 DEF Compensating, Command, Write
      <3> QED BY <3>1, Unseen
    <2>3. CASE comp # NaN /\ comp = 0
      <3>1. commanded' \in {commanded, 0}
        BY <1>4, <2>3 DEF Compensating, Command, Write, WriteThrows, valve
      <3>2. Finer = "open"
        BY <1>2, <2>1, <2>3, FinerMeaning DEF LeavesFirst
      <3>3. Valve!PollClosed
        BY <1>1, <2>1, <3>1, <3>2 DEF Valve!PollClosed, Valve!Written
      <3> QED BY <3>3 DEF Valve!Next
    <2>4. CASE comp # NaN /\ comp # 0
      <3>1. commanded' \in {commanded, comp}
        BY <1>4, <2>4 DEF Compensating, Command, Write, WriteThrows, valve
      <3>2. Finer \in {"open", "closing"}
        BY <1>2, <2>1, Settings, FinerMeaning DEF Finer
      <3>3. Valve!PollOpen
        BY <1>1, <2>1, <2>4, <3>1, <3>2 DEF Valve!PollOpen, Valve!Written
      <3> QED BY <3>3 DEF Valve!Next
    <2> QED BY <2>2, <2>3, <2>4
  <1> QED BY <1>3, <1>4

\* A poll that calls fail.
LEMMA PollFaults ==
    ASSUME FinerInv, CompensationTimeout \/ MoveTimeout \/ MovedOutOfTarget
    PROVE  Valve!Next
  <1>1. ~inFail /\ inFail' = TRUE /\ UNCHANGED <<last, commanded>>
    BY DEF CompensationTimeout, MoveTimeout, MovedOutOfTarget, Fail, Idle, valve
  <1>2. UNCHANGED Finer
    BY <1>1 DEF CompensationTimeout, MoveTimeout, MovedOutOfTarget, Finer
  <1>3. Finer # "faulted"
    BY FinerMeaning DEF CompensationTimeout, MoveTimeout, MovedOutOfTarget
  <1>4. Valve!PollFails
    BY <1>1, <1>2, <1>3 DEF Valve!PollFails
  <1> QED BY <1>4 DEF Valve!Next

\* Every step is one of ValveSpec, or none that it sees.
LEMMA NextValve ==
    ASSUME FinerInv, LeavesFirst, Next
    PROVE  [Valve!Next]_(Valve!vars)
  <1>1. CASE Start \/ Disable
    <2>1. CASE SetTarget(0) \/ CloseValve
      <3>1. ~inFail /\ commanded' \in {commanded, 0} /\ inFail' = inFail
        BY <1>1, Closes DEF CloseValve, ClosePartly
      <3>2. Finer' \in Valve!Closing
        <4>1. CASE SetTarget(0)
          BY <4>1, SetTargetCloses
        <4>2. CASE UNCHANGED control /\ last = 0
          BY <4>2, FinerMeaning DEF control, Finer, Valve!Closing
        <4> QED BY <2>1, <4>1, <4>2 DEF CloseValve
      <3>3. Valve!Close
        BY <3>1, <3>2 DEF Valve!Close, Valve!Written
      <3> QED BY <3>3 DEF Valve!Next
    <2>2. CASE ClosePartly
      <3>1. /\ ~inFail /\ commanded' = 0 /\ inFail' = inFail
            /\ Finer' = Finer /\ last # 0
        BY <1>1, <2>2, Closes DEF ClosePartly, control, Finer
      <3>2. Finer \in {"open", "faulted"}
        BY <3>1, FinerMeaning DEF FinerInv, TypeOK, NumbersOK
      <3>3. Valve!PollClosed \/ Valve!Fault
        BY <3>1, <3>2 DEF Valve!PollClosed, Valve!Fault, Valve!Written
      <3> QED BY <3>3 DEF Valve!Next
    <2> QED BY <1>1, <2>1, <2>2, Closes
  <1>2. CASE ExecuteDemand \/ \E demand \in Demands : ControlLoop(demand)
    <2>1. PICK demand \in Percents :
            ~inFail /\ SetTarget(demand) /\ UNCHANGED <<commanded, inFail>>
      BY <1>2, DemandIsGiven
    <2>2. Finer' \in {"open"} \cup Valve!Closing
      BY <2>1, SetTargetCloses, SetTargetOpens
    <2>3. Valve!Demand
      BY <2>1, <2>2 DEF Valve!Demand
    <2> QED BY <2>3 DEF Valve!Next
  <1>3. CASE Panic
    <2>1. ~inFail /\ last' = NaN /\ commanded' \in {0, commanded} /\ inFail' = inFail
      BY <1>3 DEF Panic, SetTargetNaN
    <2>2. Valve!Fault
      BY <2>1 DEF Finer, Valve!Fault, Valve!Written
    <2> QED BY <2>2 DEF Valve!Next
  <1>4. CASE Standby \/ Tick \/ \E demand \in Demands : ValidateDemand(demand)
    <2>1. UNCHANGED <<Finer, commanded, inFail>>
      BY <1>4 DEF Standby, Tick, ValidateDemand, control, valve, Finer
    <2> QED BY <2>1, Unseen
  <1>5. CASE Arrived \/ Holding
    <2>1. UNCHANGED <<last, commanded, inFail>>
      BY <1>5 DEF Arrived, Holding, control, valve
    <2>2. UNCHANGED Finer
      BY <1>5, <2>1 DEF Arrived, Holding, control, Finer
    <2> QED BY <2>1, <2>2, Unseen
  <1> QED BY <1>1, <1>2, <1>3, <1>4, <1>5, PollCommands, PollFaults DEF Next, GetTarget

\* Whatever moves it makes, FinerControl commands the valve as ThermalCSC has it.
THEOREM ValveImplemented == Spec => ImplementsValve
  <1>1. Init => LeavesFirst
    BY DEF Init, LeavesFirst
  <1>2. FinerInv /\ LeavesFirst /\ [Next]_vars => LeavesFirst'
    BY NextLeaves DEF LeavesFirst, vars, control
  <1>3. Init => Valve!Init
    BY Settings DEF Init, Finer, Valve!Init
  <1>4. FinerInv /\ LeavesFirst /\ [Next]_vars => [Valve!Next]_(Valve!vars)
    <2>1. ASSUME UNCHANGED vars PROVE UNCHANGED Valve!vars
      BY <2>1 DEF vars, control, valve, Finer, Valve!vars
    <2> QED BY <2>1, NextValve
  <1> QED
    BY <1>1, <1>2, <1>3, <1>4, FinerInvariant, PTL DEF Spec, ImplementsValve, Valve!Spec

-----------------------------------------------------------------------------
(* A fault needs a stuck valve                                              *)

\* As far as the valve can get in the time that remains.
Near(target) == Abs(position - target) <= Speed * remaining

\* The valve is commanded to the first leg's position, but before the first poll.
LegCommanded ==
    watched /\ state = "MOVING_TO_COMPENSATED_TARGET" /\ commanded # comp =>
        \/ remaining = MaxMovingTime
        \/ remaining = MaxMovingTime - 1 /\ ~polled

\* A valve that follows its commands is in time on both legs ...
InTime ==
    watched /\ ~stuck =>
        /\ state = "MOVING_TO_COMPENSATED_TARGET" /\ comp # NaN => Near(comp)
        /\ state = "MOVING_TO_TARGET" /\ last # NaN => Near(last)

\* ... and stays at its target.
StaysThere == watched /\ ~stuck /\ state = "ON_TARGET" => Abs(position - last) < InPosition

\* A valve that is watched was told where to go.
Told == watched => ~untold

\* While the valve is polled there is something to move it to.
Targeted ==
    active => /\ last # NaN
              /\ state = "MOVING_TO_COMPENSATED_TARGET" => comp # NaN

CourseInv ==
    /\ FinerInv
    /\ LeavesFirst
    /\ LegCommanded
    /\ InTime
    /\ StaysThere
    /\ Told
    /\ Targeted
    /\ WatchedFaultIsStuck

\* One tick less is one Speed less.
LEMMA Travel ==
    ASSUME NEW r \in Nat
    PROVE  /\ Speed * r \in Nat
           /\ r # 0 => Speed * r = Speed * (r - 1) + Speed
           /\ Speed * 0 = 0
  BY SettingsAssumption

\* With all the time, or one tick less, the valve gets everywhere.
LEMMA AllTheWay ==
    ASSUME FastEnough
    PROVE  /\ Speed * (MaxMovingTime - 1) >= MaxPercent
           /\ Speed * MaxMovingTime >= MaxPercent
  <1>1. Speed * MaxMovingTime = Speed * (MaxMovingTime - 1) + Speed
    BY Travel, SettingsAssumption
  <1>2. Speed * (MaxMovingTime - 1) \in Nat
    BY Travel, SettingsAssumption
  <1> QED BY <1>1, <1>2, SettingsAssumption DEF FastEnough

\* A valve that moves to its command gets nearer to it, by Speed if it is not there.
LEMMA TowardsNearer ==
    ASSUME position \in Percents, commanded \in Percents
    PROVE  /\ Towards \in Percents
           /\ Abs(Towards - commanded) <= Abs(position - commanded)
           /\ \/ Abs(Towards - commanded) = 0
              \/ Abs(Towards - commanded) = Abs(position - commanded) - Speed
  BY SettingsAssumption DEF Towards, Percents, Abs

\* Two positions are at most MaxPercent apart.
LEMMA Apart ==
    ASSUME NEW p \in Percents, NEW q \in Percents
    PROVE  Abs(p - q) \in 0..MaxPercent
  BY SettingsAssumption DEF Percents, Abs

\* set_target starts a leg with all the time, or changes nothing.
LEMMA SetTargetInTime ==
    ASSUME FastEnough, CourseInv, NEW demand \in Percents, SetTarget(demand),
           UNCHANGED <<position, polled>>,
           \/ UNCHANGED commanded
           \/ state # "MOVING_TO_COMPENSATED_TARGET" \/ last # demand
    PROVE  LegCommanded' /\ InTime' /\ StaysThere' /\ Told'
  <1> USE DEF CourseInv
  <1>1. CASE demand = last /\ UNCHANGED <<control, history>>
    BY <1>1 DEF control, history, LegCommanded, InTime, StaysThere, Told, Near
  <1>2. CASE demand # last /\ last' = demand /\ StartTimeout
             /\ state' \in {"MOVING_TO_TARGET", "MOVING_TO_COMPENSATED_TARGET"}
    <2>1. comp' \in Percents \cup {NaN}
      BY SetTargetType DEF FinerInv
    <2>2. remaining' = MaxMovingTime /\ position' \in Percents
      BY <1>2 DEF StartTimeout, FinerInv, TypeOK, NumbersOK
    <2>3. \A target \in Percents : Near(target)'
      BY <2>2, Apart, AllTheWay, SettingsAssumption, Travel DEF Near
    <2>4. ~untold'
      BY <1>2 DEF StartTimeout
    <2> QED BY <1>2, <2>1, <2>2, <2>3, <2>4 DEF LegCommanded, InTime, StaysThere, Told
  <1> QED BY <1>1, <1>2 DEF SetTarget

\* The initial state is on course.
LEMMA InitCourse == Init => CourseInv
  <1> SUFFICES ASSUME Init PROVE CourseInv
    OBVIOUS
  <1>1. Near(last)
    BY SettingsAssumption DEF Init, Near, Abs
  <1>2. LeavesFirst /\ LegCommanded /\ StaysThere /\ Told /\ Targeted /\ WatchedFaultIsStuck
    BY DEF Init, LeavesFirst, LegCommanded, StaysThere, Told, Targeted, WatchedFaultIsStuck
  <1>3. InTime
    BY <1>1 DEF Init, InTime
  <1> QED BY <1>1, <1>2, <1>3, InitFiner DEF CourseInv

\* The commands that close the valve keep it on course, or are no longer watched ...
LEMMA CloseOnCourse ==
    ASSUME FastEnough, CourseInv, Start \/ Disable
    PROVE  CourseInv'
  <1> USE DEF CourseInv
  <1>1. FinerInv' /\ LeavesFirst'
    BY CloseKeeps, NextLeaves DEF Next
  <1>2. LegCommanded' /\ InTime' /\ StaysThere' /\ Told'
    <2>1. CASE watched' = FALSE
      BY <2>1 DEF LegCommanded, InTime, StaysThere, Told
    <2>2. CASE SetTarget(0) /\ ~(state = "MOVING_TO_COMPENSATED_TARGET" /\ last = 0)
      BY <2>2, Closes, Settings, SetTargetInTime
    <2>3. CASE SetTarget(0) /\ UNCHANGED commanded
      BY <2>3, Closes, Settings, SetTargetInTime
    <2> QED BY <2>1, <2>2, <2>3, Closes DEF CloseValve, ClosePartly
  <1>3. Targeted'
    <2>1. CASE CloseValve \/ SetTarget(0)
      <3>1. last' = 0
        BY <2>1 DEF CloseValve, SetTarget, control
      <3> QED BY <1>1, <3>1, Settings, NaNAssumption DEF Targeted, LeavesFirst
    <2>2. CASE active /\ ClosePartly
      BY <2>2 DEF ClosePartly, control, Targeted
    <2> QED BY <2>1, <2>2, Closes
  <1>4. WatchedFaultIsStuck'
    BY Closes DEF WatchedFaultIsStuck
  <1> QED BY <1>1, <1>2, <1>3, <1>4

\* ... a new demand starts a new course ...
LEMMA DemandOnCourse ==
    ASSUME FastEnough, CourseInv,
           ExecuteDemand \/ \E demand \in Demands : ControlLoop(demand)
    PROVE  CourseInv'
  <1> USE DEF CourseInv
  <1>1. PICK demand \in Percents :
          /\ ~inFail /\ SetTarget(demand)
          /\ UNCHANGED <<active, commanded, position, inFail, polled>>
    BY DemandIsGiven
  <1>2. FinerInv' /\ LeavesFirst'
    BY DemandKeeps, NextLeaves DEF Next
  <1>3. LegCommanded' /\ InTime' /\ StaysThere' /\ Told'
    BY <1>1, SetTargetInTime
  <1>4. Targeted'
    <2>1. last' = demand /\ last' # NaN
      BY <1>1, Settings DEF SetTarget, control
    <2>2. CASE UNCHANGED control
      BY <1>1, <2>2 DEF control, Targeted
    <2>3. ASSUME active, state' = "MOVING_TO_COMPENSATED_TARGET",
                 comp' = Compensation(last, demand)
          PROVE  comp' # NaN
      <3>1. last \in Percents
        BY <2>3 DEF Targeted, FinerInv, TypeOK, NumbersOK
      <3>2. Compensation(last, demand) \in Int
        BY <1>1, <3>1, Settings, SettingsAssumption
        DEF Compensation, Below, Plus, Percents
      <3> QED BY <2>3, <3>2, NaNAssumption
    <2> QED BY <1>1, <2>1, <2>2, <2>3 DEF SetTarget, Targeted
  <1>5. WatchedFaultIsStuck'
    BY <1>1 DEF WatchedFaultIsStuck
  <1> QED BY <1>2, <1>3, <1>4, <1>5

\* ... the other steps of the session do not touch it ...
LEMMA SessionOnCourse ==
    ASSUME CourseInv,
           Standby \/ Panic \/ \E demand \in Demands : ValidateDemand(demand)
    PROVE  CourseInv'
  <1> USE DEF CourseInv
  <1>1. FinerInv' /\ LeavesFirst'
    BY SessionKeeps, NextLeaves DEF Next
  <1>2. CASE Panic
    BY <1>1, <1>2
    DEF Panic, SetTargetNaN, history, LegCommanded, InTime, StaysThere, Told, Targeted,
        WatchedFaultIsStuck
  <1>3. CASE Standby \/ \E demand \in Demands : ValidateDemand(demand)
    <2>1. /\ UNCHANGED <<control, valve, history, inFail, polled>>
          /\ active' => active
      BY <1>3 DEF Standby, ValidateDemand
    <2>2. LegCommanded' /\ InTime' /\ StaysThere' /\ Told'
      BY <2>1 DEF control, valve, history, LegCommanded, InTime, StaysThere, Told, Near
    <2>3. Targeted' /\ WatchedFaultIsStuck'
      BY <2>1 DEF control, history, Targeted, WatchedFaultIsStuck
    <2> QED BY <1>1, <2>2, <2>3
  <1> QED BY <1>2, <1>3

\* ... a poll commands the leg, and finds a valve in time in place ...
LEMMA PollOnCourse ==
    ASSUME FastEnough, CourseInv, GetTarget
    PROVE  CourseInv'
  <1> USE DEF CourseInv
  <1>1. FinerInv' /\ LeavesFirst'
    BY PollKeeps, NextLeaves DEF Next
  <1>2. ~inFail /\ active /\ UNCHANGED <<comp, last, position>> /\ (active' => active)
    BY DEF GetTarget, Compensated, Compensating, Arrived, Moving, Holding,
           CompensationTimeout, MoveTimeout, MovedOutOfTarget, Poll, Fail, Idle, Command,
           Write, WriteThrows, session, control, valve
  <1>3. last # NaN /\ last \in Percents
    BY <1>2 DEF Targeted, FinerInv, TypeOK, NumbersOK
  <1>4. CASE Compensated
    <2>1. /\ state' = "MOVING_TO_TARGET" /\ remaining' = MaxMovingTime
          /\ inFail' = inFail
      BY <1>4 DEF Compensated, StartTimeout, Command, WriteThrows
    <2>2. Near(last)'
      <3>1. position' \in Percents
        BY <1>2 DEF FinerInv, TypeOK, NumbersOK
      <3> QED BY <1>2, <1>3, <2>1, <3>1, Apart, AllTheWay, SettingsAssumption, Travel
          DEF Near
    <2>3. Told'
      BY <1>4 DEF Compensated, StartTimeout, WriteThrows, Told
    <2>4. LegCommanded' /\ InTime' /\ StaysThere' /\ Targeted' /\ WatchedFaultIsStuck'
      BY <1>2, <1>3, <2>1, <2>2
      DEF LegCommanded, InTime, StaysThere, Targeted, WatchedFaultIsStuck
    <2> QED BY <1>1, <2>3, <2>4
  <1>5. CASE WriteThrows /\ (Compensating \/ Moving)
    <2>1. UNCHANGED <<control, inFail>> /\ watched' = FALSE
      BY <1>5 DEF Compensating, Moving, WriteThrows
    <2> QED BY <1>1, <1>2, <2>1
        DEF control, LegCommanded, InTime, StaysThere, Told, Targeted, WatchedFaultIsStuck
  <1>6. CASE ~WriteThrows /\ (Compensating \/ Moving)
    <2>1. UNCHANGED <<control, history, inFail>>
      BY <1>6 DEF Compensating, Moving, Write, Command
    <2>2. state # "ON_TARGET" /\ (state = "MOVING_TO_COMPENSATED_TARGET" => Compensating)
      BY <1>6 DEF Compensating, Moving
    <2>3. LegCommanded'
      <3>1. CASE state = "MOVING_TO_COMPENSATED_TARGET"
        BY <1>2, <1>6, <2>1, <2>2, <3>1
        DEF Compensating, Write, Command, control, Targeted, LegCommanded
      <3>2. CASE state # "MOVING_TO_COMPENSATED_TARGET"
        BY <2>1, <3>2 DEF control, LegCommanded
      <3> QED BY <3>1, <3>2
    <2>4. InTime' /\ StaysThere' /\ Told' /\ Targeted' /\ WatchedFaultIsStuck'
      BY <1>2, <2>1
      DEF control, history, InTime, StaysThere, Told, Near, Targeted, WatchedFaultIsStuck
    <2> QED BY <1>1, <2>3, <2>4
  <1>7. CASE Arrived
    BY <1>1, <1>2, <1>3, <1>7
    DEF Arrived, history, InPlace, LegCommanded, InTime, StaysThere, Told, Targeted,
        WatchedFaultIsStuck
  <1>8. CASE Holding
    <2>1. /\ UNCHANGED <<control, valve, history, inFail>>
          /\ state # "MOVING_TO_COMPENSATED_TARGET"
      BY <1>8 DEF Holding
    <2> QED BY <1>1, <1>2, <2>1
        DEF control, valve, history, LegCommanded, InTime, StaysThere, Told, Near, Targeted,
            WatchedFaultIsStuck
  <1>9. CASE CompensationTimeout \/ MoveTimeout \/ MovedOutOfTarget
    <2>1. /\ Fail /\ state' \in {state, "FAULTED"}
          /\ UNCHANGED <<comp, last, remaining, commanded, position, history, polled>>
          /\ ~active'
      BY <1>9 DEF CompensationTimeout, MoveTimeout, MovedOutOfTarget, Fail, valve
    <2>2. LegCommanded' /\ InTime' /\ StaysThere' /\ Told' /\ Targeted'
      BY <2>1 DEF history, LegCommanded, InTime, StaysThere, Told, Near, Targeted
    <2>3. ASSUME watched, ~stuck
          PROVE  FALSE
      <3>1. ASSUME NEW target \in Percents, Near(target), Expired
            PROVE  InPlace(target) /\ Transition
        <4>1. Abs(position - target) = 0
          BY <3>1, Travel, Apart DEF Near, Expired, FinerInv, TypeOK, NumbersOK
        <4> QED BY <3>1, <4>1, SettingsAssumption, Settings
            DEF InPlace, Transition, Expired
      <3>2. CASE CompensationTimeout
        <4>1. comp \in Percents /\ comp # NaN /\ Near(comp)
          BY <1>2, <2>3, <3>2
          DEF CompensationTimeout, Targeted, InTime, FinerInv, CompInRange
        <4> QED BY <3>1, <3>2, <4>1 DEF CompensationTimeout
      <3>3. CASE MoveTimeout
        BY <1>3, <2>3, <3>1, <3>3 DEF MoveTimeout, InTime
      <3>4. CASE MovedOutOfTarget
        BY <1>3, <2>3, <3>4 DEF MovedOutOfTarget, InPlace, StaysThere
      <3> QED BY <1>9, <3>2, <3>3, <3>4
    <2>4. WatchedFaultIsStuck'
      <3>1. watched \in BOOLEAN /\ stuck \in BOOLEAN
        BY DEF FinerInv, TypeOK, FlagsOK
      <3> QED BY <2>1, <2>3, <3>1 DEF history, WatchedFaultIsStuck
    <2> QED BY <1>1, <2>2, <2>4
  <1> QED BY <1>4, <1>5, <1>6, <1>7, <1>8, <1>9 DEF GetTarget

\* ... and a tick takes it on.
LEMMA TickOnCourse ==
    ASSUME FastEnough, CourseInv, Tick
    PROVE  CourseInv'
  <1> USE DEF CourseInv
  <1>1. FinerInv' /\ LeavesFirst'
    BY TickKeeps, NextLeaves DEF Next
  <1>2. /\ UNCHANGED <<state, comp, last, active, commanded, inFail>>
        /\ remaining' = IF remaining = 0 THEN 0 ELSE remaining - 1
        /\ ~polled' /\ watched \in BOOLEAN /\ untold \in BOOLEAN
        /\ untold' = (untold \/ (active /\ ~polled /\ Moves))
        /\ watched' = (watched /\ active /\ ~untold')
    BY DEF Tick, session, FinerInv, TypeOK, FlagsOK
  <1>3. /\ stuck => stuck'
        /\ ~stuck' => ~stuck /\ position' = Towards
    <2>1. \/ position' = Towards /\ stuck' = stuck
          \/ stuck' = TRUE
      BY DEF Tick
    <2> QED BY <2>1
  <1>4. /\ position \in Percents /\ commanded \in Percents
        /\ remaining \in Nat /\ MaxMovingTime \in Nat \ {0}
    BY SettingsAssumption DEF FinerInv, TypeOK, NumbersOK
  <1>5. LegCommanded'
    <2>1. watched' /\ Moves => watched /\ polled
      BY <1>2
    <2> QED BY <1>2, <1>4, <2>1 DEF LegCommanded, Moves
  <1>6. ASSUME NEW target \in Percents, Near(target), ~stuck',
               commanded = target \/ remaining = MaxMovingTime
        PROVE  Near(target)'
    <2>1. CASE remaining = MaxMovingTime
      <3>1. remaining' = MaxMovingTime - 1 /\ position' \in Percents
        BY <1>1, <1>2, <1>4, <2>1 DEF FinerInv, TypeOK, NumbersOK
      <3>2. Abs(position' - target) \in 0..MaxPercent
        BY <1>6, <3>1, Apart
      <3> QED BY <3>1, <3>2, AllTheWay, Travel, <1>4, SettingsAssumption DEF Near
    <2>2. CASE commanded = target
      <3> DEFINE far == Abs(position - target)
                 farther == Abs(Towards - target)
      <3>1. /\ farther \in Nat /\ far \in Nat
            /\ farther <= far
            /\ farther = 0 \/ farther = far - Speed
        BY <1>4, <2>2, TowardsNearer, Apart, SettingsAssumption
      <3>2. far <= Speed * remaining
        BY <1>6 DEF Near
      <3>3. farther <= Speed * remaining'
        <4> HIDE DEF far, farther
        <4>1. CASE remaining = 0
          BY <1>2, <3>1, <3>2, <4>1, Travel
        <4>2. CASE remaining # 0
          <5>1. /\ Speed * remaining = Speed * (remaining - 1) + Speed
                /\ Speed * (remaining - 1) \in Nat /\ remaining' = remaining - 1
            BY <1>2, <1>4, <4>2, Travel
          <5> QED BY <3>1, <3>2, <5>1, SettingsAssumption
        <4> QED BY <4>1, <4>2
      <3>4. position' = Towards
        BY <1>3, <1>6
      <3> QED BY <3>3, <3>4 DEF Near
    <2> QED BY <1>6, <2>1, <2>2
  <1>7. InTime'
    <2> SUFFICES ASSUME watched', ~stuck' PROVE InTime'
      BY DEF InTime
    <2>1. watched /\ active /\ ~untold /\ (Moves => polled) /\ ~stuck
      BY <1>2, <1>3
    <2>2. ASSUME state = "MOVING_TO_COMPENSATED_TARGET", comp # NaN
          PROVE  Near(comp)'
      <3>1. comp \in Percents /\ Near(comp)
        BY <2>1, <2>2 DEF InTime, FinerInv, CompInRange
      <3>2. commanded = comp \/ remaining = MaxMovingTime
        BY <2>1, <2>2 DEF LegCommanded, Moves
      <3>3. (Abs(position - comp) <= Speed * remaining)'
        BY <1>2, <1>6, <3>1, <3>2 DEF Near
      <3> QED BY <3>3 DEF Near
    <2>3. ASSUME state = "MOVING_TO_TARGET", last # NaN
          PROVE  Near(last)'
      <3>1. last \in Percents /\ Near(last)
        BY <2>1, <2>3 DEF InTime, FinerInv, TypeOK, NumbersOK
      <3>2. commanded = last \/ remaining = MaxMovingTime
        BY <2>1, <2>3 DEF FinerInv, DemandCommanded, Moves
      <3>3. (Abs(position - last) <= Speed * remaining)'
        BY <1>2, <1>6, <3>1, <3>2 DEF Near
      <3> QED BY <3>3 DEF Near
    <2> QED BY <1>2, <2>2, <2>3 DEF InTime
  <1>8. StaysThere'
    <2> SUFFICES ASSUME watched', ~stuck', state = "ON_TARGET"
                 PROVE  Abs(position' - last') < InPosition
      BY <1>2 DEF StaysThere
    <2>1. watched /\ ~untold /\ ~stuck /\ commanded = last /\ last \in Percents
      BY <1>2, <1>3, <1>4 DEF FinerInv, SettledAtDemand
    <2>2. Abs(Towards - last) <= Abs(position - last) /\ Towards \in Percents
      BY <1>4, <2>1, TowardsNearer
    <2>3. Abs(position - last) < InPosition
      BY <2>1 DEF StaysThere
    <2>4. Abs(position - last) \in Int /\ Abs(Towards - last) \in Int
      BY <1>4, <2>1, <2>2, Apart, SettingsAssumption
    <2> QED BY <1>2, <1>3, <2>2, <2>3, <2>4, SettingsAssumption
  <1>9. Told' /\ Targeted' /\ WatchedFaultIsStuck'
    BY <1>2, <1>3 DEF Told, Targeted, WatchedFaultIsStuck
  <1> QED BY <1>1, <1>5, <1>7, <1>8, <1>9

\* A valve that was polled all the time, with nothing thrown and no command in its first
\* leg, and is fast enough only faults the CSC if it did not follow its commands.
THEOREM FaultIsStuck == ASSUME FastEnough PROVE Spec => []WatchedFaultIsStuck
  <1>1. CourseInv /\ [Next]_vars => CourseInv'
    <2> SUFFICES ASSUME CourseInv, [Next]_vars PROVE CourseInv'
      OBVIOUS
    <2>1. CASE UNCHANGED vars
      <3>1. FinerInv' /\ LeavesFirst'
        BY <2>1, NextFiner DEF CourseInv, LeavesFirst, vars, control
      <3>2. LegCommanded' /\ InTime' /\ StaysThere'
        BY <2>1
        DEF vars, control, session, valve, history, CourseInv, LegCommanded, InTime,
            StaysThere, Near
      <3>3. Told' /\ Targeted' /\ WatchedFaultIsStuck'
        BY <2>1
        DEF vars, control, session, history, CourseInv, Told, Targeted, WatchedFaultIsStuck
      <3> QED BY <3>1, <3>2, <3>3 DEF CourseInv
    <2> QED
      BY <2>1, CloseOnCourse, DemandOnCourse, SessionOnCourse, PollOnCourse, TickOnCourse
      DEF Next
  <1>2. CourseInv => WatchedFaultIsStuck
    BY DEF CourseInv
  <1> QED BY <1>1, <1>2, InitCourse, PTL DEF Spec

-----------------------------------------------------------------------------
(* A demand is waited for at most two legs                                  *)

\* A leg whose time has passed is not left by a poll: the next one ends it.
Overdue == Moves /\ remaining = 0 => ~polled

\* What the wait is in numbers.
LEMMA WaitType ==
    ASSUME TypeOK
    PROVE  /\ remaining \in Nat /\ MaxMovingTime \in Nat \ {0}
           /\ Wait \in Nat
           /\ state = "MOVING_TO_TARGET" => Wait = remaining
           /\ state = "MOVING_TO_COMPENSATED_TARGET" => Wait = remaining + MaxMovingTime
           /\ ~Moves => Wait = 0
  BY SettingsAssumption DEF TypeOK, NumbersOK, Wait, Moves

\* A step that leaves state and timeout alone leaves the wait alone.
LEMMA SameWait == UNCHANGED <<state, remaining>> => UNCHANGED <<Moves, Wait>>
  BY DEF Moves, Wait

\* Only a demand that changes something starts a timeout, and only one for each leg.
LEMMA SetTargetWaits ==
    ASSUME TypeOK, TypeOK', NEW demand \in Percents, SetTarget(demand), UNCHANGED polled
    PROVE  /\ last' = last => UNCHANGED <<state, remaining>>
           /\ last' # last => remaining' = MaxMovingTime /\ Wait' <= 2 * MaxMovingTime
  <1>1. CASE demand = last /\ UNCHANGED control
    BY <1>1 DEF control
  <1>2. CASE demand # last /\ last' = demand /\ StartTimeout
    <2>1. remaining' = MaxMovingTime /\ MaxMovingTime \in Nat
      BY <1>2, Settings DEF StartTimeout
    <2>2. Wait' <= remaining' + MaxMovingTime
      BY <2>1 DEF Wait
    <2> QED BY <1>2, <2>1, <2>2
  <1> QED BY <1>1, <1>2 DEF SetTarget

\* What a step may do to the wait, and to a leg whose time has passed.
WaitShrinks ==
    /\ last' = last => Wait' <= Wait
    /\ last' # last => Wait' <= 2 * MaxMovingTime
    /\ active /\ polled /\ ~polled' /\ Moves => Wait' < Wait

\* A step that only takes the state and the timeout along.
LEMMA NothingWaits ==
    ASSUME FinerInv, Overdue, UNCHANGED <<state, last, remaining, polled>>
    PROVE  Overdue' /\ WaitShrinks
  <1>1. Wait \in Nat /\ Wait' = Wait
    BY WaitType, SameWait DEF FinerInv
  <1> QED BY <1>1 DEF Overdue, Moves, WaitShrinks

\* A demand of a command or of the control loop ...
LEMMA DemandWaits ==
    ASSUME FinerInv, FinerInv', Overdue,
           NEW demand \in Percents, SetTarget(demand), UNCHANGED polled
    PROVE  Overdue' /\ WaitShrinks
  <1>1. CASE last' = last
    <2>1. UNCHANGED <<state, remaining>>
      BY <1>1, SetTargetWaits DEF FinerInv
    <2> QED BY <1>1, <2>1, NothingWaits
  <1>2. CASE last' # last
    BY <1>2, SetTargetWaits, SettingsAssumption DEF FinerInv, Overdue, WaitShrinks
  <1> QED BY <1>1, <1>2

\* ... the steps of the session ...
LEMMA SessionWaits ==
    ASSUME FinerInv, FinerInv', Overdue,
           \/ Start \/ Disable \/ Standby \/ ExecuteDemand \/ Panic
           \/ \E demand \in Demands : ValidateDemand(demand) \/ ControlLoop(demand)
    PROVE  Overdue' /\ WaitShrinks
  <1>1. CASE Start \/ Disable
    <2>1. UNCHANGED polled /\ (SetTarget(0) \/ UNCHANGED control)
      BY <1>1, Closes DEF CloseValve, ClosePartly
    <2>2. CASE SetTarget(0)
      BY <2>1, <2>2, Settings, DemandWaits
    <2>3. CASE UNCHANGED control
      BY <2>1, <2>3, NothingWaits DEF control
    <2> QED BY <2>1, <2>2, <2>3
  <1>2. CASE ExecuteDemand \/ \E demand \in Demands : ControlLoop(demand)
    BY <1>2, DemandIsGiven, DemandWaits
  <1>3. CASE Standby \/ \E demand \in Demands : ValidateDemand(demand)
    <2>1. UNCHANGED <<state, last, remaining, polled>>
      BY <1>3 DEF Standby, ValidateDemand, control
    <2> QED BY <2>1, NothingWaits
  <1>4. CASE Panic
    <2>1. ~Moves' /\ UNCHANGED polled
      BY <1>4 DEF Panic, SetTargetNaN, Moves
    <2>2. Wait' = 0 /\ Wait \in Nat /\ MaxMovingTime \in Nat
      BY <2>1, WaitType DEF FinerInv, Wait
    <2> QED BY <2>1, <2>2 DEF Overdue, WaitShrinks
  <1> QED BY <1>1, <1>2, <1>3, <1>4

\* ... a poll, which leaves no leg whose time has passed ...
LEMMA PollWaits ==
    ASSUME FinerInv, FinerInv', Overdue, GetTarget
    PROVE  Overdue' /\ WaitShrinks
  <1> USE DEF Poll, Idle
  <1>1. last' = last /\ ~polled
    BY DEF GetTarget, Compensated, Compensating, Arrived, Moving, Holding,
           CompensationTimeout, MoveTimeout, MovedOutOfTarget, Fail, control
  <1>2. /\ remaining \in Nat /\ MaxMovingTime \in Nat \ {0} /\ Wait \in Nat
        /\ ~Moves' => Wait' = 0
    BY WaitType DEF FinerInv, Wait
  <1>3. CASE Compensated
    <2>1. /\ Wait = remaining + MaxMovingTime /\ Wait' = MaxMovingTime
          /\ remaining' = MaxMovingTime
      BY <1>3, WaitType DEF FinerInv, Compensated, StartTimeout, WriteThrows, Wait, Moves
    <2> QED BY <1>1, <1>2, <2>1 DEF Overdue, WaitShrinks
  <1>4. CASE Compensating \/ Moving
    <2>1. remaining # 0 /\ UNCHANGED <<state, remaining>>
      BY <1>4 DEF Compensating, Moving, Expired, control
    <2>2. Wait' = Wait
      BY <2>1, SameWait
    <2> QED BY <1>1, <1>2, <2>1, <2>2 DEF Overdue, WaitShrinks
  <1>5. CASE Arrived \/ Holding \/ CompensationTimeout \/ MovedOutOfTarget
    <2>1. ~Moves'
      BY <1>5 DEF Arrived, Holding, CompensationTimeout, MovedOutOfTarget, Moves, control
    <2> QED BY <1>1, <1>2, <2>1 DEF Overdue, WaitShrinks
  <1>6. CASE MoveTimeout
    BY <1>6, NothingWaits DEF MoveTimeout, Fail
  <1> QED BY <1>3, <1>4, <1>5, <1>6 DEF GetTarget

\* ... and a tick, which takes one.
LEMMA TickWaits ==
    ASSUME FinerInv, FinerInv', Overdue, Tick
    PROVE  Overdue' /\ WaitShrinks
  <1>1. /\ UNCHANGED <<state, last>> /\ ~polled' /\ Moves' = Moves
        /\ remaining' = IF remaining = 0 THEN 0 ELSE remaining - 1
    BY DEF Tick, Moves
  <1>2. /\ remaining \in Nat /\ MaxMovingTime \in Nat /\ Wait \in Nat
        /\ ~Moves => Wait = 0 /\ Wait' = 0
    BY <1>1, WaitType DEF FinerInv, Wait
  <1>3. ASSUME Moves
        PROVE  /\ remaining = 0 => Wait' = Wait
               /\ remaining # 0 => Wait' = Wait - 1
    BY <1>1, <1>2, <1>3 DEF Wait
  <1>4. polled /\ Moves => remaining # 0
    BY DEF Overdue
  <1> QED BY <1>1, <1>2, <1>3, <1>4 DEF Overdue, WaitShrinks

\* Nothing but another demand gives a valve more time, every tick of an active CSC
\* takes some of it, and no demand gives it more than two legs.
THEOREM DemandIsDecided == Spec => WaitRunsOut
  <1>1. Init => Overdue
    BY SettingsAssumption DEF Init, Overdue
  <1>2. FinerInv /\ FinerInv' /\ Overdue /\ [Next]_vars => Overdue'
    <2> SUFFICES ASSUME FinerInv, FinerInv', Overdue, [Next]_vars PROVE Overdue'
      OBVIOUS
    <2>1. CASE UNCHANGED vars
      BY <2>1, NothingWaits DEF vars, control
    <2> QED BY <2>1, SessionWaits, PollWaits, TickWaits DEF Next
  <1>3. FinerInv /\ FinerInv' /\ Overdue /\ [Next]_vars =>
          [/\ IF last' = last THEN Wait' <= Wait ELSE Wait' <= 2 * MaxMovingTime
           /\ active /\ polled /\ ~polled' /\ Moves => Wait' < Wait]_vars
    <2> SUFFICES ASSUME FinerInv, FinerInv', Overdue, Next PROVE WaitShrinks
      BY DEF WaitShrinks
    <2> QED BY SessionWaits, PollWaits, TickWaits DEF Next
  <1> QED BY <1>1, <1>2, <1>3, FinerInvariant, PTL DEF Spec, WaitRunsOut
=============================================================================
