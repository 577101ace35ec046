----------------------------- MODULE FinerControl -----------------------------
(***************************************************************************)
(* Telemetry::FinerControl: the state machine that moves the mixing valve  *)
(* to its demand, over a compensating move when the demand is close to the *)
(* previous one, with the valve it drives and the sessions it lives in.    *)
(*                                                                         *)
(* Positions are whole numbers of 0..MaxPercent.  Time is counted in polls *)
(* of the valve: an active CSC polls it once per tick.                     *)
(***************************************************************************)
EXTENDS Integers

CONSTANTS
    NaN,             \* the float that compares with nothing
    MaxPercent,      \* a fully open valve (100)
    InPosition,      \* MixingValve settings, see _init.yaml
    BacklashStep,
    MinimalMove,
    MaxMovingTime,   \* in ticks
    Speed,           \* what a healthy valve moves in a tick
    Demands,         \* the demands of setMixingValve and of the control loop
    MaxDemands       \* bound on the number of changes of the demand

Percents == 0..MaxPercent

ASSUME NaNAssumption == NaN \notin Int
ASSUME SettingsAssumption ==
    /\ MaxPercent \in Nat \ {0}
    /\ InPosition \in Nat \ {0}
    /\ BacklashStep \in Nat \ {0}
    /\ MinimalMove \in Nat
    /\ 2 * BacklashStep + MinimalMove <= MaxPercent
    /\ MaxMovingTime \in Nat \ {0}
    /\ Speed \in Nat \ {0}
    /\ MaxDemands \in Nat
\* 20% of MaxMovingTime, the time a state is kept, are at least two polls' time.
ASSUME SettleAssumption == MaxMovingTime >= 5
ASSUME DemandsAssumption == Demands \subseteq Percents

VARIABLES
    state,      \* FinerControl::state
    comp,       \* _comp_setpoint
    last,       \* _last_setpoint
    remaining,  \* ticks until _move_timeout, 0 once it has passed
    inFail,     \* get_target has called fail(), which never returns
    active,     \* Disabled or Enabled: the valve is polled
    pending,    \* demand of a setMixingValve that was validated
    polled,     \* the valve was polled in this tick
    commanded,  \* the position last written to the FPGA
    position,   \* where the valve is
    demands,    \* changes of the demand so far
    stuck,      \* since the timeout was set, the valve failed to follow its command
    watched,    \* since the timeout was set, the CSC was active, nothing threw, and no
                \* command closed the valve in the middle of a first leg
    untold      \* since the timeout was set, a poll threw before it had told the valve
                \* where to go, or a disable before it had told FinerControl

control == <<state, comp, last, remaining>>
session == <<active, pending, demands>>
valve == <<commanded, position>>
history == <<stuck, watched, untold>>
vars == <<control, session, valve, history, inFail, polled>>

Init ==
    /\ state = "MOVING_TO_TARGET"
    /\ comp = NaN
    /\ last = 0
    /\ remaining = 2 * MaxMovingTime
    /\ inFail = FALSE
    /\ active = FALSE
    /\ pending = NaN
    /\ polled = TRUE
    /\ commanded = 0
    /\ position = 0
    /\ demands = 0
    /\ stuck = FALSE
    /\ watched = TRUE
    /\ untold = FALSE

-----------------------------------------------------------------------------
(* set_target *)

Abs(x) == IF x < 0 THEN -x ELSE x

Plus(x, step) == IF x = NaN THEN NaN ELSE x + step

\* abs(demand - setpoint) > minimalMove; no comparison with NAN holds.
FarFrom(setpoint, demand) == setpoint # NaN /\ Abs(demand - setpoint) > MinimalMove

Below(demand, setpoint) == setpoint # NaN /\ demand < setpoint

\* Mutants: a demand near closed is compensated from below; a move down is
\* compensated from above.
CompensationUnderflows(setpoint, demand) ==
    IF Below(demand, setpoint) THEN demand - BacklashStep
    ELSE IF demand > MaxPercent - BacklashStep THEN Plus(setpoint, -BacklashStep)
    ELSE demand + BacklashStep
CompensationFromAbove(setpoint, demand) ==
    IF demand > MaxPercent - BacklashStep THEN Plus(setpoint, -BacklashStep)
    ELSE demand + BacklashStep

\* Where to go first: beyond a demand that is close to the setpoint, unless that
\* would leave 0..MaxPercent - then away from it.
Compensation(setpoint, demand) ==
    IF Below(demand, setpoint)
       THEN IF demand < BacklashStep THEN setpoint + BacklashStep
            ELSE demand - BacklashStep
       ELSE IF demand > MaxPercent - BacklashStep THEN Plus(setpoint, -BacklashStep)
            ELSE demand + BacklashStep

StartTimeout ==
    /\ remaining' = MaxMovingTime
    /\ stuck' = FALSE
    /\ watched' = TRUE
    /\ untold' = FALSE

\* Mutant: a fault keeps the setpoint.
SetTargetNaNKeepsSetpoint ==
    /\ state' = "FAULTED"
    /\ comp' = NaN
    /\ UNCHANGED <<last, remaining, history>>

SetTargetNaN ==
    /\ state' = "FAULTED"
    /\ comp' = NaN
    /\ last' = NaN
    /\ UNCHANGED <<remaining, history>>

\* Mutant: a demand that is repeated starts the move again.
SetTargetAgain(demand) ==
    /\ IF FarFrom(last, demand)
          THEN state' = "MOVING_TO_TARGET" /\ UNCHANGED comp
          ELSE /\ state' = "MOVING_TO_COMPENSATED_TARGET"
               /\ comp' = Compensation(last, demand)
    /\ last' = demand
    /\ StartTimeout

\* An unchanged demand does nothing: neither the state nor the timeout is reset.
SetTarget(demand) ==
    \/ /\ demand = last
       /\ UNCHANGED <<control, history>>
    \/ /\ demand # last
       /\ IF FarFrom(last, demand)
             THEN state' = "MOVING_TO_TARGET" /\ UNCHANGED comp
             ELSE /\ state' = "MOVING_TO_COMPENSATED_TARGET"
                  /\ comp' = Compensation(last, demand)
       /\ last' = demand
       /\ StartTimeout

-----------------------------------------------------------------------------
(* The commands that change the demand.  The controller thread runs one at a *)
(* time, and none once get_target's fail() waits for the lock it holds.      *)

Idle == ~inFail /\ pending = NaN

\* start and disable close the valve themselves, and demand 0.  To close it again
\* in its leg away from closed throws it back until the next poll.
CloseValve ==
    /\ IF state = "MOVING_TO_COMPENSATED_TARGET" /\ last = 0
          THEN watched' = FALSE /\ UNCHANGED <<control, stuck, untold>>
          ELSE SetTarget(0)
    /\ commanded' = 0
    /\ UNCHANGED position

\* disable demands 0 last: when the call between throws, the valve is closed and
\* FinerControl goes on with its demand (a demand of 0 is none to go on with).
ClosePartly ==
    /\ last # 0
    /\ commanded' = 0
    /\ watched' = FALSE
    /\ untold' = TRUE
    /\ UNCHANGED <<control, stuck, position>>

\* start demands 0 first: when the write throws, the valve is not closed; when a
\* later call does, the CSC stays in Standby with the valve closed.
Start ==
    /\ Idle
    /\ ~active
    /\ demands < MaxDemands
    /\ \/ CloseValve /\ active' \in BOOLEAN
       \/ SetTarget(0) /\ UNCHANGED <<valve, active>>
    /\ demands' = demands + 1
    /\ UNCHANGED <<pending, inFail, polled>>

\* A throw is caught in disable, even one of its first call, which changes nothing.
Disable ==
    /\ Idle
    /\ active
    /\ demands < MaxDemands
    /\ CloseValve \/ ClosePartly
    /\ demands' = demands + 1
    /\ UNCHANGED <<active, pending, inFail, polled>>

Standby ==
    /\ Idle
    /\ active
    /\ active' = FALSE
    /\ UNCHANGED <<control, pending, demands, valve, history, inFail, polled>>

\* validate() of setMixingValve ...
ValidateDemand(demand) ==
    /\ Idle
    /\ active
    /\ demands < MaxDemands
    /\ pending' = demand
    /\ demands' = demands + 1
    /\ UNCHANGED <<control, active, valve, history, inFail, polled>>

\* ... and its execute(): the CSC may have faulted meanwhile.
ExecuteDemand ==
    /\ ~inFail
    /\ pending # NaN
    /\ SetTarget(pending)
    /\ pending' = NaN
    /\ UNCHANGED <<active, demands, valve, inFail, polled>>

\* GlycolTemperatureControl::run, which goes on in every state of the CSC.
ControlLoop(demand) ==
    /\ Idle
    /\ demands < MaxDemands
    /\ SetTarget(demand)
    /\ demands' = demands + 1
    /\ UNCHANGED <<active, pending, valve, inFail, polled>>

\* The pump thread faults the CSC: panic(), which ends when its write throws.
Panic ==
    /\ ~inFail
    /\ active
    /\ SetTargetNaN
    /\ active' = FALSE
    /\ commanded' \in {0, commanded}
    /\ UNCHANGED <<pending, demands, position, inFail, polled>>

-----------------------------------------------------------------------------
(* get_target, and the write of what it returns in MixingValve::sendPosition *)

\* Mutant: the valve's position is believed right after a change of the demand.
TransitionAtOnce == TRUE

\* 20% of MaxMovingTime have passed since the timeout was set.
Transition == 10 * remaining < 8 * MaxMovingTime

InPlace(target) == target # NaN /\ Abs(position - target) < InPosition

\* Mutant: a valve is never given up on.
ExpiredNever == FALSE

Expired == remaining = 0

Poll == Idle /\ active /\ ~polled /\ polled' = TRUE /\ UNCHANGED session

Command(target) ==
    /\ commanded' = IF target = NaN THEN commanded ELSE target
    /\ UNCHANGED <<position, inFail>>

\* The write throws after get_target has changed the state: the poll is over.
WriteThrows ==
    /\ watched' = FALSE
    /\ untold' = TRUE
    /\ UNCHANGED <<valve, stuck, inFail>>

Write(target) ==
    \/ Command(target) /\ UNCHANGED history
    \/ target # NaN /\ WriteThrows

\* The first leg is done: a new timeout for the second.
\* Mutant: the second leg has to be done within the timeout of the first.
CompensatedKeepsTimeout ==
    /\ Poll
    /\ state = "MOVING_TO_COMPENSATED_TARGET"
    /\ InPlace(comp) /\ Transition
    /\ state' = "MOVING_TO_TARGET"
    /\ Command(last)
    /\ UNCHANGED <<comp, last, remaining, history>>

Compensated ==
    /\ Poll
    /\ state = "MOVING_TO_COMPENSATED_TARGET"
    /\ InPlace(comp) /\ Transition
    /\ state' = "MOVING_TO_TARGET"
    /\ \/ StartTimeout /\ Command(last)
       \/ remaining' = MaxMovingTime /\ WriteThrows
    /\ UNCHANGED <<comp, last>>

Compensating ==
    /\ Poll
    /\ state = "MOVING_TO_COMPENSATED_TARGET"
    /\ ~(InPlace(comp) /\ Transition)
    /\ ~Expired
    /\ Write(comp)
    /\ UNCHANGED control

Arrived ==
    /\ Poll
    /\ state = "MOVING_TO_TARGET"
    /\ InPlace(last) /\ Transition
    /\ state' = "ON_TARGET"
    /\ UNCHANGED <<comp, last, remaining, valve, history, inFail>>

Moving ==
    /\ Poll
    /\ state = "MOVING_TO_TARGET"
    /\ ~(InPlace(last) /\ Transition)
    /\ ~Expired
    /\ Write(last)
    /\ UNCHANGED control

Holding ==
    /\ Poll
    /\ \/ state = "ON_TARGET" /\ InPlace(last)
       \/ state = "FAULTED"
    /\ UNCHANGED <<control, valve, history, inFail>>

\* fail() with the lock held: it faults the CSC, and waits for ever.  Only the
\* compensating branch sets FAULTED before.
Fail ==
    /\ Idle /\ active /\ ~polled
    /\ inFail' = TRUE
    /\ active' = FALSE
    /\ UNCHANGED <<comp, last, remaining, pending, demands, valve, history, polled>>

CompensationTimeout ==
    /\ Fail
    /\ state = "MOVING_TO_COMPENSATED_TARGET"
    /\ ~(InPlace(comp) /\ Transition)
    /\ Expired
    /\ state' = "FAULTED"

MoveTimeout ==
    /\ Fail
    /\ state = "MOVING_TO_TARGET"
    /\ ~(InPlace(last) /\ Transition)
    /\ Expired
    /\ UNCHANGED state

MovedOutOfTarget ==
    /\ Fail
    /\ state = "ON_TARGET"
    /\ ~InPlace(last)
    /\ UNCHANGED state

GetTarget ==
    \/ Compensated
    \/ Compensating
    \/ Arrived
    \/ Moving
    \/ Holding
    \/ CompensationTimeout
    \/ MoveTimeout
    \/ MovedOutOfTarget

-----------------------------------------------------------------------------
(* The valve and the time *)

Towards ==
    IF commanded > position + Speed THEN position + Speed
    ELSE IF commanded < position - Speed THEN position - Speed
    ELSE commanded

Moves == state \in {"MOVING_TO_COMPENSATED_TARGET", "MOVING_TO_TARGET"}

\* One poll period: the valve moves to its command, or sticks or slips.  A poll that
\* cannot read the position is none.
Tick ==
    /\ polled' = FALSE
    /\ remaining' = IF remaining = 0 THEN 0 ELSE remaining - 1
    /\ \/ position' = Towards /\ UNCHANGED stuck
       \/ /\ position' \in (position - 1)..(position + 1) \cap Percents
          /\ position' # Towards
          /\ stuck' = TRUE
    /\ untold' = (untold \/ (active /\ ~polled /\ Moves))
    /\ watched' = (watched /\ active /\ ~untold')
    /\ UNCHANGED <<state, comp, last, session, commanded, inFail>>

Next ==
    \/ Start
    \/ Disable
    \/ Standby
    \/ \E demand \in Demands : ValidateDemand(demand) \/ ControlLoop(demand)
    \/ ExecuteDemand
    \/ Panic
    \/ GetTarget
    \/ Tick

Spec == Init /\ [][Next]_vars

\* The outer loop clock keeps triggering Update, the controller thread runs it
\* and the commands it has begun; not every poll fails to read the position.
Fairness == WF_vars(Tick) /\ SF_vars(GetTarget) /\ WF_vars(ExecuteDemand)

FairSpec == Spec /\ Fairness

-----------------------------------------------------------------------------
(* Properties *)

States == {"MOVING_TO_COMPENSATED_TARGET", "MOVING_TO_TARGET", "ON_TARGET", "FAULTED"}

FlagsOK ==
    /\ state \in States
    /\ inFail \in BOOLEAN
    /\ active \in BOOLEAN
    /\ polled \in BOOLEAN
    /\ stuck \in BOOLEAN
    /\ watched \in BOOLEAN
    /\ untold \in BOOLEAN

NumbersOK ==
    /\ comp \in Int \cup {NaN}
    /\ last \in Percents \cup {NaN}
    /\ remaining \in 0..(2 * MaxMovingTime)
    /\ pending \in Demands \cup {NaN}
    /\ commanded \in Percents
    /\ position \in Percents
    /\ demands \in 0..MaxDemands

\* Every variable has its type, and the FPGA is only commanded to positions the
\* valve can have.
TypeOK == FlagsOK /\ NumbersOK

\* "handles all cases of future demand (_comp_setpoint) being < 0 or > 100".
CompInRange == comp \in Percents \cup {NaN}

\* Both legs of a compensated move are at least BacklashStep long: from the
\* previous setpoint away, and on to the demand ("guarantee that the minimal move
\* is larger than backlash_step").
BacklashLegs ==
    [][last' # last /\ state' = "MOVING_TO_COMPENSATED_TARGET" /\ comp' # NaN =>
        /\ Abs(last' - comp') >= BacklashStep
        /\ last # NaN => Abs(comp' - last) >= BacklashStep]_vars

\* ON_TARGET is only reported of a valve that is commanded to the demand, never of
\* one that passes it on the way elsewhere: what the 20% of transition are for.  Not
\* so after a poll or a disable that threw half way, until the next timeout is set.
SettledAtDemand == state = "ON_TARGET" /\ ~untold => commanded = last

\* Why: a valve that moves to a demand it is not commanded to yet was given it
\* since its last poll, or is about to be polled for the first time.
DemandCommanded ==
    /\ active /\ state = "MOVING_TO_TARGET" /\ commanded # last /\ ~untold =>
            \/ remaining = MaxMovingTime
            \/ remaining = MaxMovingTime - 1 /\ ~polled
    /\ last = NaN => state = "FAULTED"

FinerInv ==
    /\ TypeOK
    /\ CompInRange
    /\ SettledAtDemand
    /\ DemandCommanded

\* A valve that was polled ever since its timeout was set, with every write done, and
\* not closed by another command in its first leg or by half of a disable, faults the
\* CSC only if it did not follow in that time.
WatchedFaultIsStuck == inFail /\ watched => stuck

\* A healthy valve can travel all its way in the time it is given, but for the tick
\* that may pass before the first poll.
FastEnough == Speed * (MaxMovingTime - 1) >= MaxPercent

\* Whatever the session went through, only a valve that did not follow its commands
\* faults the CSC: _init.yaml says of MaxMovingTime "If valve doesn't finish move in
\* given time, mixing valve will fault."  No poll or disable that threw is to blame.
FaultNeedsStuckValve == inFail /\ ~untold => stuck

\* What the polls command until the next demand, as ThermalCSC has it.
Finer ==
    IF last = NaN THEN "faulted"
    ELSE IF last > 0 THEN "open"
    ELSE IF state \in {"MOVING_TO_COMPENSATED_TARGET", "FAULTED"} THEN "closing"
    ELSE "closed"

Valve == INSTANCE ValveSpec WITH
    finer <- Finer,
    valve <- IF commanded = 0 THEN "closed" ELSE "open",
    failing <- inFail

\* The moves, positions and timeouts of the valve are what ThermalCSC takes them for:
\* none opens a valve that is closed or faulted, whatever demands came before.
ImplementsValve == Valve!Spec

\* The ticks a moving valve may still be waited for: what remains of its leg, and in
\* the first one all of the second.
Wait ==
    IF ~Moves THEN 0
    ELSE IF state = "MOVING_TO_TARGET" THEN remaining
    ELSE remaining + MaxMovingTime

\* Whatever the polls, sessions and faults in between, a demand is waited for at most
\* two legs: nothing but another demand gives the valve more time, and every tick of an
\* active CSC that has polled it takes some of it.
WaitRunsOut ==
    [][/\ IF last' = last THEN Wait' <= Wait ELSE Wait' <= 2 * MaxMovingTime
       /\ active /\ polled /\ ~polled' /\ Moves => Wait' < Wait]_vars

\* An active CSC settles its valve, or faults: no leg is waited for for ever.
Settles == active ~> (state = "ON_TARGET" \/ ~active)
=============================================================================
