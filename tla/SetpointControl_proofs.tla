------------------------ MODULE SetpointControl_proofs ------------------------
(***************************************************************************)
(* Proofs about SetpointControl.  ReplacedLoopsStop, SavedIsApplied,       *)
(* EnabledHasSetpoints and CorrectionIsSafe follow from SetpointInv, which *)
(* adds what holds while a thread is in set_setpoints.                     *)
(***************************************************************************)
EXTENDS SetpointControl, TLAPS

\* The tasks of the heaters have even numbers, so that no end of a glycol loop takes
\* one out of the queue.
HeatersEven == \E n \in Nat : heatersTask = 2 * n

\* The controller takes a loop off its queue, or is done with it.
LoopStep == LoopBegins \/ LoopReturns

\* One thread at a time is behind the lock, and what it saves is what it applied, as
\* long as start or enable have not replaced it.
LockInv ==
    /\ \A t, u \in Threads : at[t] = "save" /\ at[u] = "save" => t = u
    /\ \A t \in Threads :
           at[t] = "save" /\ setBy = "set_setpoints" => argument[t] = applied

\* set_setpoints is only called with two numbers.
ArgumentsValid ==
    \A t \in Threads : at[t] = "apply" => Valid(argument[t])

SetpointInv ==
    /\ TypeOK
    /\ ReplacedLoopsStop
    /\ HeatersEven
    /\ SavedIsApplied
    /\ LockInv
    /\ EnabledHasSetpoints
    /\ ArgumentsValid
    /\ CorrectionIsSafe

-----------------------------------------------------------------------------
(* The operators *)

\* A correction ends within the range, on either side of the air temperature.
LEMMA CorrectionInRange ==
    ASSUME NEW setpoint \in Int, NEW temperature \in Int
    PROVE  /\ Correction(setpoint, temperature) \in [glycol : Int, heaters : Int]
           /\ ~Far(Correction(setpoint, temperature).glycol, temperature)
<1>1. SafetyRange \in Int /\ MinOffset \in Int /\ HeatersOffset \in Int
      /\ MinOffset >= 0 /\ MinOffset <= 2 * SafetyRange
    BY SafetyAssumption
<1>2. CASE setpoint > temperature
    BY <1>1, <1>2 DEF Correction, Far, Abs
<1>3. CASE ~(setpoint > temperature)
    BY <1>1, <1>3 DEF Correction, Far, Abs
<1> QED  BY <1>2, <1>3

\* A pair of numbers is a valid pair of setpoints.
LEMMA NumbersAreValid ==
    ASSUME NEW s \in [glycol : Int, heaters : Int]
    PROVE  s \in Setpoints /\ Valid(s)
BY NaNAssumption DEF Setpoints, Temperatures, Valid

\* set_setpoints pursues a setpoint with the task there was or with the new one.
LEMMA TaskIsOneOfTwo ==
    ASSUME NEW task, NEW old, NEW new, NEW limit, NEW fresh
    PROVE  \/ Task(task, old, new, limit, fresh) = fresh
           \/ Task(task, old, new, limit, fresh) = task /\ task # 0
BY DEF Task

\* What start may restore is a pair of setpoints.
LEMMA RestoredType ==
    ASSUME TypeOK, NEW s \in Restored
    PROVE  s \in Setpoints
BY DEF TypeOK, Restored, SavedFiles, Setpoints, NoSetpoints, Temperatures

\* The tasks of set_setpoints, and the loops in the queue after it.
LEMMA ApplyLoops ==
    ASSUME TypeOK, ReplacedLoopsStop, HeatersEven, NEW t \in Threads, Apply(t)
    PROVE  /\ queue' \subseteq 1..(2 * created')
           /\ glycolTask' \in 0..(2 * created')
           /\ heatersTask' \in 0..(2 * created')
           /\ overtaken' \subseteq 1..(2 * created')
           /\ ReplacedLoopsStop'
           /\ HeatersEven'
<1> DEFINE fresh == 2 * created + 1
<1>1. /\ created \in Nat /\ created' = created + 1
      /\ queue \subseteq 1..(2 * created)
      /\ glycolTask \in 0..(2 * created)
      /\ heatersTask \in 0..(2 * created)
      /\ running \in 0..(2 * created) /\ overtaken \subseteq 1..(2 * created)
      /\ running' = running
    BY DEF TypeOK, Apply
<1>2. glycolTask' = fresh \/ glycolTask' = glycolTask
    BY TaskIsOneOfTwo DEF Apply
<1>3. heatersTask' = fresh + 1 \/ (heatersTask' = heatersTask /\ heatersTask # 0)
  <2>1. heatersTask' = 2 * created + 2 \/ (heatersTask' = heatersTask /\ heatersTask # 0)
      BY TaskIsOneOfTwo DEF Apply
  <2> QED  BY <1>1, <2>1
<1>4. glycolTask' \in 0..(2 * created') /\ heatersTask' \in 0..(2 * created')
    BY <1>1, <1>2, <1>3
<1>5. queue' = (queue \ ({glycolTask, heatersTask} \ {glycolTask', heatersTask'}))
               \cup ({glycolTask', heatersTask'} \ {glycolTask, heatersTask})
    BY DEF Apply
<1>6. Loops' \subseteq {glycolTask', heatersTask'} \cup overtaken'
  <2> SUFFICES ASSUME NEW q \in Loops'
               PROVE  q \in {glycolTask', heatersTask'} \cup overtaken'
      OBVIOUS
  <2>1. overtaken' =
            overtaken \cup (({running} \ {0}) \cap
                             ({glycolTask, heatersTask} \ {glycolTask', heatersTask'}))
      BY DEF Apply, Overtakes
  <2>2. CASE q \in queue'
    <3>1. q \in {glycolTask', heatersTask'}
          \/ (q \in queue /\ q \notin {glycolTask, heatersTask})
        BY <1>5, <2>2
    <3> QED  BY <2>1, <3>1 DEF ReplacedLoopsStop, Loops
  <2>3. CASE q \in {running} \ {0}
    <3>1. q \in {glycolTask, heatersTask} \cup overtaken
        BY <2>3 DEF ReplacedLoopsStop, Loops
    <3> QED  BY <2>1, <2>3, <3>1
  <2> QED  BY <1>1, <2>2, <2>3 DEF Loops
<1>7. queue' \subseteq 1..(2 * created')
  <2> SUFFICES ASSUME NEW q \in queue'
               PROVE  q \in 1..(2 * created')
      OBVIOUS
  <2>1. CASE q \in queue
      BY <1>1, <2>1
  <2>2. CASE q \notin queue
    <3>1. q \in {glycolTask', heatersTask'} \ {glycolTask, heatersTask}
        BY <1>5, <2>2
    <3>2. q = fresh \/ q = fresh + 1
        BY <3>1, <1>2, <1>3
    <3> QED  BY <3>2, <1>1
  <2> QED  BY <2>1, <2>2
<1>8. heatersTask' \in Loops'
  <2>1. CASE heatersTask' = fresh + 1
    <3>1. fresh + 1 # glycolTask /\ fresh + 1 # heatersTask
        BY <1>1
    <3> QED  BY <1>5, <2>1, <3>1 DEF Loops
  <2>2. CASE heatersTask' = heatersTask /\ heatersTask # 0
    <3>1. heatersTask \in Loops
        BY <2>2 DEF ReplacedLoopsStop
    <3> QED  BY <1>1, <1>5, <2>2, <3>1 DEF Loops
  <2> QED  BY <1>3, <2>1, <2>2
<1>9. HeatersEven'
  <2>1. CASE heatersTask' = fresh + 1
    <3>1. created + 1 \in Nat /\ heatersTask' = 2 * (created + 1)
        BY <1>1, <2>1
    <3> QED  BY <3>1 DEF HeatersEven
  <2>2. CASE heatersTask' = heatersTask
      BY <2>2 DEF HeatersEven
  <2> QED  BY <1>3, <2>1, <2>2
<1>10. overtaken' \subseteq 1..(2 * created')
  <2>1. overtaken' \subseteq overtaken \cup ({running} \ {0})
      BY DEF Apply, Overtakes
  <2> QED  BY <1>1, <2>1
<1> QED  BY <1>4, <1>6, <1>7, <1>8, <1>9, <1>10 DEF ReplacedLoopsStop

-----------------------------------------------------------------------------
(* Types *)

\* The initial states have the types.
LEMMA InitType == Init => TypeOK
<1> SUFFICES ASSUME Init
             PROVE  TypeOK
    OBVIOUS
<1>1. NoSetpoints \in Setpoints
    BY DEF NoSetpoints, Setpoints, Temperatures
<1>2. file \in SavedFiles
    BY FilesAssumption DEF Init
<1>3. queue \subseteq 1..(2 * created) /\ overtaken \subseteq 1..(2 * created)
    BY DEF Init
<1>4. violations \in Nat /\ (violations > 0 => violations <= MaxViolations + 1)
    BY SafetyAssumption DEF Init
<1>5. /\ created \in Nat /\ running \in 0..(2 * created)
      /\ glycolTask \in 0..(2 * created) /\ heatersTask \in 0..(2 * created)
    BY DEF Init
<1>6. air \in Temperatures /\ errors \in 0..(ErrorLimit + 1)
    BY SafetyAssumption DEF Init, Temperatures
<1>7. /\ at \in [Threads -> {"idle", "apply", "save", "dead"}]
      /\ argument \in [Threads -> Setpoints]
    BY <1>1 DEF Init
<1> QED  BY <1>1, <1>2, <1>3, <1>4, <1>5, <1>6, <1>7 DEF Init, TypeOK

\* A command that changes the session, or a fault, keeps the types.
LEMMA SessionType ==
    ASSUME TypeOK, Start \/ Enable \/ Disable \/ Standby \/ Fault \/ SetEngineeringMode
    PROVE  TypeOK'
<1>1. CASE Start
  <2>1. PICK s \in Restored : Applies(s, "start")
      BY <1>1 DEF Start
  <2>2. s \in Setpoints
      BY RestoredType
  <2> QED  BY <1>1, <2>1, <2>2 DEF TypeOK, Start, Applies, measured, loops, calls
<1>2. CASE Enable
  <2>1. CASE Valid(applied)
      BY <1>2, <2>1 DEF TypeOK, Enable, measured, loops, calls
  <2>2. CASE ~Valid(applied)
    <3>1. air \in Int /\ Applies(Default, "enable")
        BY <1>2, <2>2 DEF Enable, TypeOK, Temperatures
    <3>2. Default \in Setpoints
        BY <3>1 DEF Default, Setpoints, Temperatures
    <3> QED  BY <1>2, <3>1, <3>2 DEF TypeOK, Enable, Applies, measured, loops, calls
  <2> QED  BY <2>1, <2>2
<1>3. CASE Disable
    BY <1>3 DEF TypeOK, Disable, measured, loops, calls
<1>4. CASE Standby
    BY <1>4 DEF TypeOK, Standby, measured, loops, calls
<1>5. CASE Fault
    BY <1>5 DEF TypeOK, Fault, measured, loops, calls
<1>6. CASE SetEngineeringMode
    BY <1>6 DEF TypeOK, SetEngineeringMode, measured, loops, calls
<1> QED  BY <1>1, <1>2, <1>3, <1>4, <1>5, <1>6

\* A call of set_setpoints keeps the types, and so does a run of a loop.
LEMMA CallType ==
    ASSUME TypeOK, ReplacedLoopsStop, HeatersEven,
           \/ \E request \in Requests : ApplySetpoints(request)
           \/ \E t \in Threads : Apply(t) \/ Save(t)
           \/ LoopStep
    PROVE  TypeOK'
<1>1. ASSUME NEW request \in Requests, ApplySetpoints(request)
      PROVE  TypeOK'
  <2>1. request \in Setpoints
      BY NumbersAreValid, RequestsAssumption
  <2> QED  BY <1>1, <2>1 DEF TypeOK, ApplySetpoints, session, measured, loops, Threads
<1>2. ASSUME NEW t \in Threads, Apply(t)
      PROVE  TypeOK'
  <2>1. argument[t] \in Setpoints
      BY DEF TypeOK
  <2>2. /\ queue' \subseteq 1..(2 * created')
        /\ glycolTask' \in 0..(2 * created')
        /\ heatersTask' \in 0..(2 * created')
        /\ overtaken' \subseteq 1..(2 * created')
      BY <1>2, ApplyLoops
  <2>3. created' \in Nat /\ running' \in 0..(2 * created')
      BY <1>2 DEF TypeOK, Apply
  <2>4. applied' \in Setpoints /\ setBy' = "set_setpoints"
      BY <1>2, <2>1 DEF Apply, Applies
  <2>5. at' \in [Threads -> {"idle", "apply", "save", "dead"}]
      BY <1>2 DEF TypeOK, Apply
  <2> QED  BY <1>2, <2>2, <2>3, <2>4, <2>5 DEF TypeOK, Apply, session, measured
<1>3. ASSUME NEW t \in Threads, Save(t)
      PROVE  TypeOK'
  <2>1. file' \in SavedFiles
      BY <1>3 DEF TypeOK, Save, SavedFiles
  <2>2. violations' \in Nat /\ (violations' > 0 => violations' <= MaxViolations + 1)
      BY <1>3 DEF TypeOK, Save
  <2> QED  BY <1>3, <2>1, <2>2 DEF TypeOK, Save, session, loops
<1>4. CASE LoopBegins
    BY <1>4 DEF TypeOK, LoopBegins, session, measured, calls
<1>5. CASE LoopReturns
  <2>1. created' = created /\ running' = 0 /\ running # 0
        /\ queue' \subseteq queue \cup {running}
      BY <1>5 DEF LoopReturns
  <2>2. /\ created \in Nat /\ queue \subseteq 1..(2 * created)
        /\ running \in 0..(2 * created)
      BY DEF TypeOK
  <2>3. queue' \subseteq 1..(2 * created') /\ running' \in 0..(2 * created')
      BY <2>1, <2>2
  <2> QED  BY <1>5, <2>3 DEF TypeOK, LoopReturns, session, measured, calls
<1> QED  BY <1>1, <1>2, <1>3, <1>4, <1>5 DEF LoopStep

\* A read without a complete line keeps the types.
LEMMA ReadType ==
    ASSUME TypeOK, ReadFails \/ ReadsNothing
    PROVE  TypeOK'
<1>1. errors' \in 0..(ErrorLimit + 1)
    BY SafetyAssumption DEF TypeOK, ReadFails, ReadsNothing
<1> QED  BY <1>1 DEF TypeOK, ReadFails, ReadsNothing, session, loops, calls

\* A measurement keeps the types.
LEMMA MeasureType ==
    ASSUME TypeOK, Measure
    PROVE  TypeOK'
<1>1. air' \in Temperatures /\ coolant' \in BOOLEAN
    BY TemperaturesAssumption DEF Measure
<1>2. MaxViolations \in Int
    BY SafetyAssumption
<1>3. /\ violations' \in Nat /\ (violations' > 0 => violations' <= MaxViolations + 1)
    BY <1>2 DEF TypeOK, Measure, InRange, Tolerate, Correct, NotSupervised, Throws
<1>4. /\ at' \in [Threads -> {"idle", "apply", "save", "dead"}]
      /\ argument' \in [Threads -> Setpoints]
  <2>1. CASE InRange \/ Tolerate \/ NotSupervised
      BY <2>1 DEF TypeOK, InRange, Tolerate, NotSupervised, calls
  <2>2. CASE Correct
    <3>1. applied.glycol \in Int /\ air' \in Int
        BY <1>1, <2>2 DEF Correct, Supervised, TypeOK, Setpoints, Temperatures
    <3>2. Correction(applied.glycol, air') \in Setpoints
        BY <3>1, CorrectionInRange, NumbersAreValid
    <3> QED  BY <2>2, <3>2 DEF TypeOK, Correct, calls, Threads
  <2>3. CASE Throws
      BY <2>3 DEF TypeOK, Throws, Threads
  <2> QED  BY <2>1, <2>2, <2>3 DEF Measure
<1>5. errors' \in 0..(ErrorLimit + 1)
    BY SafetyAssumption DEF Measure
<1>6. summaryState' \in {"Standby", "Disabled", "Enabled", "Fault"}
    BY DEF TypeOK, Measure
<1> QED  BY <1>1, <1>3, <1>4, <1>5, <1>6 DEF TypeOK, Measure, loops

-----------------------------------------------------------------------------
(* The invariant *)

\* The commands and faults, which leave every call where it is.
SessionStep == Start \/ Enable \/ Disable \/ Standby \/ Fault \/ SetEngineeringMode

\* Types hold initially and are kept by every step.
LEMMA TypeStep ==
    ASSUME SetpointInv, [Next]_vars
    PROVE  TypeOK'
<1>1. CASE SessionStep
    BY <1>1, SessionType DEF SessionStep, SetpointInv
<1>2. CASE \/ \E request \in Requests : ApplySetpoints(request)
           \/ \E t \in Threads : Apply(t) \/ Save(t)
           \/ LoopStep
    BY <1>2, CallType DEF SetpointInv
<1>3. CASE Measure
    BY <1>3, MeasureType DEF SetpointInv
<1>4. CASE UNCHANGED vars
    BY <1>4 DEF SetpointInv, TypeOK, vars, session, measured, loops, calls
<1>5. CASE ReadFails \/ ReadsNothing
    BY <1>5, ReadType DEF SetpointInv
<1> QED  BY <1>1, <1>2, <1>3, <1>4, <1>5 DEF Next, SessionStep, LoopStep

\* One loop per setpoint: only set_setpoints and the runs of the loops change the queue.
LEMMA LoopsStep ==
    ASSUME SetpointInv, [Next]_vars
    PROVE  ReplacedLoopsStop' /\ HeatersEven'
<1>1. CASE \E t \in Threads : Apply(t)
    BY <1>1, ApplyLoops DEF SetpointInv
<1>2. CASE LoopBegins
  <2>1. PICK task \in queue : queue' = queue \ {task} /\ running' = task
      BY <1>2 DEF LoopBegins
  <2>2. running = 0 /\ UNCHANGED <<glycolTask, heatersTask, overtaken>>
      BY <1>2 DEF LoopBegins, Free
  <2>3. Loops' = Loops
      BY <2>1, <2>2 DEF Loops, SetpointInv, TypeOK
  <2> QED  BY <2>2, <2>3 DEF SetpointInv, ReplacedLoopsStop, HeatersEven
<1>3. CASE LoopReturns
  <2>1. UNCHANGED <<glycolTask, heatersTask, overtaken>> /\ running' = 0
      BY <1>3 DEF LoopReturns
  <2>2. Loops' \subseteq Loops
      BY <1>3 DEF LoopReturns, Loops
  <2>3. ASSUME Ends
        PROVE  running # heatersTask
    <3>1. PICK n \in 1..(created + 1) : running = 2 * n - 1
        BY <2>3 DEF Ends, GlycolTasks
    <3>2. PICK k \in Nat : heatersTask = 2 * k
        BY DEF SetpointInv, HeatersEven
    <3> QED  BY <3>1, <3>2 DEF SetpointInv, TypeOK
  <2>4. heatersTask \in Loops => heatersTask \in Loops'
      BY <1>3, <2>3 DEF LoopReturns, Loops
  <2> QED  BY <2>1, <2>2, <2>4 DEF SetpointInv, ReplacedLoopsStop, HeatersEven
<1>4. CASE UNCHANGED <<queue, running, overtaken, glycolTask, heatersTask>>
    BY <1>4 DEF SetpointInv, ReplacedLoopsStop, Loops, HeatersEven
<1>5. \/ \E t \in Threads : Apply(t)
      \/ LoopBegins
      \/ LoopReturns
      \/ UNCHANGED <<queue, running, overtaken, glycolTask, heatersTask>>
    BY DEF Next, vars, loops, Start, Enable, Disable, Standby, Fault, SetEngineeringMode,
           ApplySetpoints, Save, ReadFails, ReadsNothing, Measure
<1> QED  BY <1>1, <1>2, <1>3, <1>4, <1>5

\* The lock: what a thread saves is what it applied, and the file then holds it.
LEMMA LockStep ==
    ASSUME SetpointInv, [Next]_vars
    PROVE  LockInv' /\ SavedIsApplied'
<1> USE DEF SetpointInv
<1>1. CASE SessionStep
  <2>1. UNCHANGED <<file, at, argument>>
      BY <1>1 DEF SessionStep, Start, Enable, Disable, Standby, Fault, SetEngineeringMode, calls
  <2>2. setBy' = "set_setpoints" => setBy = "set_setpoints" /\ applied' = applied
      BY <1>1 DEF SessionStep, Start, Enable, Disable, Standby, Fault, SetEngineeringMode, Applies
  <2> QED  BY <2>1, <2>2 DEF LockInv, SavedIsApplied, Settled
<1>2. ASSUME NEW request \in Requests, ApplySetpoints(request)
      PROVE  LockInv' /\ SavedIsApplied'
  <2>1. UNCHANGED <<file, applied, setBy>>
      BY <1>2 DEF ApplySetpoints
  <2>2. \A t \in Threads :
            at'[t] = "save" <=> at[t] = "save" /\ t # "controller"
      BY <1>2 DEF ApplySetpoints, TypeOK, Free
  <2>3. at["controller"] = "idle"
      BY <1>2 DEF ApplySetpoints, Free
  <2>4. \A t \in Threads : t # "controller" => argument'[t] = argument[t]
      BY <1>2 DEF ApplySetpoints, TypeOK
  <2>5. Settled' => Settled
      BY <2>2, <2>3 DEF Settled
  <2> QED  BY <2>1, <2>2, <2>4, <2>5 DEF LockInv, SavedIsApplied
<1>3. ASSUME NEW t \in Threads, Apply(t)
      PROVE  LockInv' /\ SavedIsApplied'
  <2>1. at' = [at EXCEPT ![t] = "save"] /\ argument' = argument /\ applied' = argument[t]
      BY <1>3 DEF Apply, Applies
  <2>2. \A u \in Threads : at'[u] = "save" <=> u = t
      BY <1>3, <2>1 DEF Apply, LockFree, TypeOK
  <2> QED  BY <2>1, <2>2 DEF LockInv, SavedIsApplied, Settled
<1>4. ASSUME NEW t \in Threads, Save(t)
      PROVE  LockInv' /\ SavedIsApplied'
  <2>1. \A u \in Threads : at'[u] # "save"
      BY <1>4 DEF Save, LockInv, TypeOK
  <2>2. setBy' = "set_setpoints" =>
            file' = [stamp |-> "own", setpoints |-> applied']
      BY <1>4 DEF Save, LockInv
  <2> QED  BY <2>1, <2>2 DEF LockInv, SavedIsApplied
<1>5. CASE LoopStep \/ ReadFails \/ ReadsNothing \/ UNCHANGED vars
    BY <1>5 DEF LoopStep, LoopBegins, LoopReturns, ReadFails, ReadsNothing, vars, session, measured, calls, LockInv, SavedIsApplied, Settled
<1>6. CASE Measure
  <2>1. UNCHANGED <<file, applied, setBy>>
      BY <1>6 DEF Measure
  <2>2. \A t \in Threads : at'[t] = "save" <=> at[t] = "save"
      BY <1>6 DEF Measure, InRange, Tolerate, Correct, NotSupervised, Throws, calls, TypeOK
  <2>3. \A t \in Threads : at[t] = "save" => argument'[t] = argument[t]
      BY <1>6 DEF Measure, InRange, Tolerate, Correct, NotSupervised, Throws, calls, TypeOK
  <2>4. Settled' <=> Settled
      BY <2>2 DEF Settled
  <2> QED  BY <2>1, <2>2, <2>3, <2>4 DEF LockInv, SavedIsApplied
<1> QED  BY <1>1, <1>2, <1>3, <1>4, <1>5, <1>6 DEF Next, SessionStep, LoopStep

\* Whoever applies setpoints to an Enabled CSC applies two numbers.
LEMMA ValidStep ==
    ASSUME SetpointInv, [Next]_vars
    PROVE  EnabledHasSetpoints' /\ ArgumentsValid'
<1> USE DEF SetpointInv
<1>1. CASE Start
    BY <1>1 DEF Start, calls, EnabledHasSetpoints, ArgumentsValid, Valid
<1>2. CASE Enable
  <2>1. CASE Valid(applied)
      BY <1>2, <2>1 DEF Enable, calls, EnabledHasSetpoints, ArgumentsValid, Valid
  <2>2. CASE ~Valid(applied)
    <3>1. air \in Int /\ applied' = Default
        BY <1>2, <2>2 DEF Enable, Applies, TypeOK, Temperatures
    <3>2. Default \in [glycol : Int, heaters : Int]
        BY <3>1 DEF Default
    <3>3. Valid(applied)'
        BY <3>1, <3>2, NumbersAreValid DEF Valid
    <3> QED  BY <1>2, <3>3 DEF Enable, calls, EnabledHasSetpoints, ArgumentsValid, Valid
  <2> QED  BY <2>1, <2>2
<1>3. CASE \/ Disable \/ Standby \/ Fault \/ SetEngineeringMode
           \/ LoopStep \/ ReadFails \/ ReadsNothing
           \/ UNCHANGED vars
    BY <1>3 DEF Disable, Standby, Fault, SetEngineeringMode, LoopStep, LoopBegins,
             LoopReturns, ReadFails,
                ReadsNothing, vars, session, calls, EnabledHasSetpoints, ArgumentsValid, Valid
<1>4. ASSUME NEW request \in Requests, ApplySetpoints(request)
      PROVE  EnabledHasSetpoints' /\ ArgumentsValid'
  <2>1. Valid(request)
      BY NumbersAreValid, RequestsAssumption
  <2>2. UNCHANGED <<summaryState, applied>>
      BY <1>4 DEF ApplySetpoints, session
  <2>3. \A t \in Threads : at'[t] = "apply" => Valid(argument'[t])
      BY <1>4, <2>1 DEF ApplySetpoints, TypeOK, ArgumentsValid
  <2> QED  BY <2>2, <2>3 DEF EnabledHasSetpoints, ArgumentsValid, Valid
<1>5. ASSUME NEW t \in Threads, Apply(t)
      PROVE  EnabledHasSetpoints' /\ ArgumentsValid'
  <2>1. Valid(argument[t]) /\ applied' = argument[t] /\ argument' = argument
      BY <1>5 DEF Apply, Applies, ArgumentsValid
  <2>2. \A u \in Threads : at'[u] = "apply" => at[u] = "apply"
      BY <1>5 DEF Apply, TypeOK
  <2> QED  BY <2>1, <2>2 DEF EnabledHasSetpoints, ArgumentsValid, Valid
<1>6. ASSUME NEW t \in Threads, Save(t)
      PROVE  EnabledHasSetpoints' /\ ArgumentsValid'
    BY <1>6 DEF Save, session, TypeOK, EnabledHasSetpoints, ArgumentsValid, Valid
<1>7. CASE Measure
  <2>1. applied' = applied /\ (summaryState' = "Enabled" => summaryState = "Enabled")
      BY <1>7 DEF Measure
  <2>2. CASE InRange \/ Tolerate \/ NotSupervised
      BY <2>1, <2>2 DEF InRange, Tolerate, NotSupervised, calls, EnabledHasSetpoints,
                        ArgumentsValid, Valid
  <2>3. CASE Correct
    <3>1. applied.glycol \in Int /\ air' \in Int
        BY <1>7, <2>3, TemperaturesAssumption
           DEF Measure, Correct, Supervised, TypeOK, Setpoints, Temperatures
    <3>2. Valid(Correction(applied.glycol, air'))
        BY <3>1, CorrectionInRange, NumbersAreValid
    <3>3. \A t \in Threads : at'[t] = "apply" => Valid(argument'[t])
        BY <2>3, <3>2 DEF Correct, calls, TypeOK, ArgumentsValid, Threads
    <3> QED  BY <2>1, <3>3 DEF EnabledHasSetpoints, ArgumentsValid, Valid
  <2>4. CASE Throws
      BY <2>1, <2>4 DEF Throws, TypeOK, EnabledHasSetpoints, ArgumentsValid, Valid
  <2> QED  BY <1>7, <2>2, <2>3, <2>4 DEF Measure
<1> QED  BY <1>1, <1>2, <1>3, <1>4, <1>5, <1>6, <1>7 DEF Next, LoopStep

\* A correction is made for the air temperature the thread knows until it is done.
LEMMA CorrectionStep ==
    ASSUME SetpointInv, [Next]_vars
    PROVE  CorrectionIsSafe'
<1> USE DEF SetpointInv
<1>0. at \in [Threads -> {"idle", "apply", "save", "dead"}] /\ argument \in [Threads -> Setpoints]
    BY DEF TypeOK
<1>1. CASE \/ SessionStep
           \/ LoopStep \/ ReadFails \/ ReadsNothing
           \/ UNCHANGED vars
           \/ \E request \in Requests : ApplySetpoints(request)
           \/ \E t \in Threads : Apply(t) \/ Save(t)
  <2>1. /\ air' = air
        /\ argument'["temperature"] = argument["temperature"]
        /\ at'["temperature"] \in {"apply", "save"} => at["temperature"] \in {"apply", "save"}
      BY <1>0, <1>1 DEF SessionStep, Start, Enable, Disable, Standby, Fault,
             SetEngineeringMode, LoopStep, LoopBegins,
             LoopReturns, ReadFails, ReadsNothing, ApplySetpoints, Apply, Save, vars, measured,
             calls, Threads
  <2> QED  BY <2>1 DEF CorrectionIsSafe, Far
<1>2. CASE Measure
  <2>1. at["temperature"] = "idle"
      BY <1>2 DEF Measure
  <2>2. CASE Correct
    <3>1. applied.glycol \in Int /\ air' \in Int
        BY <1>2, <2>2, TemperaturesAssumption
           DEF Measure, Correct, Supervised, TypeOK, Setpoints, Temperatures
    <3>2. ~Far(Correction(applied.glycol, air').glycol, air')
        BY <3>1, CorrectionInRange
    <3>3. at'["temperature"] \in {"apply", "save"} =>
              argument'["temperature"] = Correction(applied.glycol, air')
        BY <1>0, <2>1, <2>2 DEF Correct, calls, Threads
    <3>4. ASSUME at'["temperature"] \in {"apply", "save"}
          PROVE  ~Far(argument'["temperature"].glycol, air')
        BY <3>2, <3>3, <3>4
    <3> QED  BY <3>4 DEF CorrectionIsSafe, Far
  <2>3. CASE InRange \/ Tolerate \/ NotSupervised \/ Throws
    <3>1. at'["temperature"] \notin {"apply", "save"}
        BY <1>0, <2>1, <2>3 DEF InRange, Tolerate, NotSupervised, Throws, calls, Threads
    <3> QED  BY <3>1 DEF CorrectionIsSafe
  <2> QED  BY <1>2, <2>2, <2>3 DEF Measure
<1> QED  BY <1>1, <1>2 DEF Next, SessionStep, LoopStep

\* The invariant holds initially.
LEMMA InitInv == Init => SetpointInv
<1> SUFFICES ASSUME Init
             PROVE  SetpointInv
    OBVIOUS
<1>1. TypeOK
    BY InitType
<1>2. \A t \in Threads : at[t] = "idle"
    BY DEF Init
<1>3. ReplacedLoopsStop /\ HeatersEven
    BY DEF Init, ReplacedLoopsStop, Loops, HeatersEven
<1>4. SavedIsApplied /\ LockInv /\ EnabledHasSetpoints /\ ArgumentsValid
    BY <1>2 DEF Init, SavedIsApplied, LockInv, EnabledHasSetpoints, ArgumentsValid
<1>6. CorrectionIsSafe
    BY <1>2 DEF Init, CorrectionIsSafe, Threads
<1> QED  BY <1>1, <1>3, <1>4, <1>6 DEF SetpointInv

\* The inductive invariant holds of the setpoints, whatever the two threads do.
THEOREM SetpointInvariant == Spec => []SetpointInv
<1>1. Init => SetpointInv
    BY InitInv
<1>2. SetpointInv /\ [Next]_vars => SetpointInv'
    BY TypeStep, LoopsStep, LockStep, ValidStep, CorrectionStep DEF SetpointInv
<1> QED  BY <1>1, <1>2, PTL DEF Spec

\* Every variable has its type, and violations are counted to one more than the limit.
THEOREM TypeCorrect == Spec => []TypeOK
<1>1. SetpointInv => TypeOK
    BY DEF SetpointInv
<1> QED  BY <1>1, SetpointInvariant, PTL

\* For every sequence of calls from both threads, a call in the middle of a run included, a
\* loop that was replaced is not run again unless it ran when it was replaced; the loop of
\* the heaters stays.
THEOREM ReplacedLoopsAreStopped == Spec => []ReplacedLoopsStop
<1>1. SetpointInv => ReplacedLoopsStop
    BY DEF SetpointInv
<1> QED  BY <1>1, SetpointInvariant, PTL

\* Between calls of set_setpoints the file holds what the last one applied.
THEOREM FileFollowsSetpoints == Spec => []SavedIsApplied
<1>1. SetpointInv => SavedIsApplied
    BY DEF SetpointInv
<1> QED  BY <1>1, SetpointInvariant, PTL

\* An Enabled CSC has both setpoints.
THEOREM SetpointsAreValid == Spec => []EnabledHasSetpoints
<1>1. SetpointInv => EnabledHasSetpoints
    BY DEF SetpointInv
<1> QED  BY <1>1, SetpointInvariant, PTL

\* What the supervision applies is in the safe range of the air it was made for.
THEOREM CorrectionsAreSafe == Spec => []CorrectionIsSafe
<1>1. SetpointInv => CorrectionIsSafe
    BY DEF SetpointInv
<1> QED  BY <1>1, SetpointInvariant, PTL
=============================================================================
