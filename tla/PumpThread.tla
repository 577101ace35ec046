------------------------------ MODULE PumpThread ------------------------------
(***************************************************************************)
(* Telemetry::PumpThread and Events::GlycolPumpStatus: the thread that     *)
(* sends the requests of the CSC to the drive of the EGW pump, one per     *)
(* cycle, reads the drive out, retries a failed startup, resets the drive  *)
(* after an error, and faults the CSC when none of this helps.             *)
(*                                                                         *)
(* Time is counted in cycles of the thread that failed to read the drive.  *)
(***************************************************************************)
EXTENDS Naturals, Sequences, FiniteSets

CONSTANTS
    AutoRecoverAttempts,  \* GlycolPump.Communication settings of _init.yaml
    Timeout,              \* in cycles
    ErrorLimit,           \* cycles an error may outlive its reset (5)
    AutoReset,            \* drive errors that are reset
    NonResettable,        \* drive errors that are not, the unknown included
    MaxRequests,          \* bound on requests of the CSC, and on its sessions
    MaxDisturbances       \* bound on changes of the link, errors of the drive and
                          \* events of its status that cannot be sent

ASSUME SettingsAssumption ==
    /\ AutoRecoverAttempts \in Nat
    /\ Timeout \in Nat
    /\ ErrorLimit \in Nat
    /\ MaxRequests \in Nat
    /\ MaxDisturbances \in Nat

Errors == AutoReset \cup NonResettable

ASSUME ErrorsAssumption ==
    AutoReset \cap NonResettable = {} /\ "none" \notin Errors

VARIABLES
    thread,      \* the thread runs its loop, or has left it
    at,          \* the step of the cycle
    request,     \* n_r, the request this cycle has sent
    queue,       \* _next_requests
    attempts,    \* _recovery_left_attempts
    contacts,    \* _success_count, which is only compared with 2
    remaining,   \* failed cycles until _fail_after
    lastError,   \* GlycolPumpStatus::_last_errorCode
    errorCount,  \* GlycolPumpStatus::_error_count, only compared with ErrorLimit
    fault,       \* the reason of the first fail() of the session
    pump,        \* the drive turns the pump
    error,       \* the drive's error
    link,        \* the drive answers
    wanted,      \* a startup was requested, and not yet carried out
    unanswered,  \* since then, the drive did not answer a request
    startups,    \* startup requests of this session
    outages,     \* times the link was down, for some time, in this session
    requests,    \* requests so far
    disturbances,\* changes of the link, errors and lost events so far
    unreported   \* cycles the drive's present trouble has lasted without a fault, from
                 \* the one on whose event told of it

cycle == <<thread, at, request, attempts, contacts, remaining>>
status == <<lastError, errorCount>>
drive == <<pump, error, link>>
startup == <<wanted, unanswered>>
counts == <<startups, outages, requests, disturbances>>
vars == <<cycle, queue, status, fault, drive, startup, counts, unreported>>

Requests == {"START", "STOP", "RESET", "FREQ", "STARTUP"}

\* A new PumpThread; the status of the pump is a singleton that outlives it.
NewThread ==
    /\ thread = "running"
    /\ at = "check"
    /\ request = "NOP"
    /\ queue = <<>>
    /\ attempts = AutoRecoverAttempts
    /\ contacts = 0
    /\ remaining = Timeout

Init ==
    /\ NewThread
    /\ lastError = "unknown"
    /\ errorCount = 0
    /\ fault = "none"
    /\ pump = FALSE
    /\ error = "none"
    /\ link = TRUE
    /\ wanted = FALSE
    /\ unanswered = FALSE
    /\ startups = 0
    /\ outages = 0
    /\ requests = 0
    /\ disturbances = 0
    /\ unreported = 0

-----------------------------------------------------------------------------
(* Requests of the CSC: enable, and the coolantPump commands                *)

Ask(r) ==
    /\ requests < MaxRequests
    /\ requests' = requests + 1
    /\ queue' = Append(queue, r)
    /\ wanted' = (wanted \/ r = "STARTUP")
    /\ unanswered' = (unanswered /\ r # "STARTUP")
    /\ startups' = IF r = "STARTUP" THEN startups + 1 ELSE startups
    /\ UNCHANGED <<cycle, status, fault, drive, outages, disturbances, unreported>>

\* standby stops the thread and powers the pump down, start creates the next one.
Restart ==
    /\ requests < MaxRequests
    /\ at = "check"
    /\ thread' = "running"
    /\ at' = "check"
    /\ request' = "NOP"
    /\ queue' = <<>>
    /\ attempts' = AutoRecoverAttempts
    /\ contacts' = 0
    /\ remaining' = Timeout
    /\ fault' = "none"
    /\ pump' = FALSE
    /\ error' \in {error, "none"}
    /\ wanted' = FALSE
    /\ unanswered' = FALSE
    /\ startups' = 0
    /\ outages' = IF link THEN 0 ELSE 1
    /\ requests' = requests + 1
    /\ unreported' = 0
    /\ UNCHANGED <<status, link, disturbances>>

-----------------------------------------------------------------------------
(* SummaryState::fail, and the catch block of run()                         *)

Fail(reason) == fault' = IF fault = "none" THEN reason ELSE fault

Expired == remaining = 0

EndCycle == at' = "check" /\ request' = "NOP"

\* Mutants: the attempts are not counted; one is allowed too many; the time of the
\* last contact is renewed by a failed cycle.
CatchForgetsAttempts(sent, pending) ==
    IF Expired
       THEN /\ Fail("silence")
            /\ thread' = "ended"
            /\ queue' = pending
            /\ UNCHANGED <<contacts, attempts, remaining>>
       ELSE /\ contacts' = 0
            /\ remaining' = remaining - 1
            /\ queue' = IF sent = "STARTUP" THEN Append(pending, "STARTUP") ELSE pending
            /\ UNCHANGED <<attempts, thread, fault>>
CatchOneTooMany(sent, pending) ==
    /\ ~Expired
    /\ contacts' = 0
    /\ remaining' = remaining - 1
    /\ attempts' = IF sent = "STARTUP" THEN attempts - 1 ELSE attempts
    /\ queue' = IF sent = "STARTUP" THEN Append(pending, "STARTUP") ELSE pending
    /\ UNCHANGED <<thread, fault>>
CatchRenews(sent, pending) ==
    /\ contacts' = 0
    /\ queue' = pending
    /\ UNCHANGED <<attempts, remaining, thread, fault>>

\* What a failed cycle does that has sent a request, and left others pending.
Catch(sent, pending) ==
    IF Expired
       THEN /\ Fail("silence")
            /\ thread' = "ended"
            /\ queue' = pending
            /\ UNCHANGED <<contacts, attempts, remaining>>
       ELSE /\ contacts' = 0
            /\ remaining' = remaining - 1
            /\ \/ /\ sent # "STARTUP"
                  /\ queue' = pending
                  /\ UNCHANGED <<attempts, thread, fault>>
               \/ /\ sent = "STARTUP" /\ attempts > 0
                  /\ attempts' = attempts - 1
                  /\ queue' = Append(pending, "STARTUP")
                  /\ UNCHANGED <<thread, fault>>
               \/ /\ sent = "STARTUP" /\ attempts = 0
                  /\ Fail("attempts")
                  /\ thread' = "ended"
                  /\ queue' = pending
                  /\ UNCHANGED attempts

-----------------------------------------------------------------------------
(* _check_commands: the request lock is held until the drive has answered   *)

InContact == contacts > 2

\* What the drive makes of a request it receives.  A reset need not help.
Execute(r) ==
    /\ error' \in IF r \in {"RESET", "STARTUP"} THEN {error, "none"} ELSE {error}
    /\ pump' = IF r = "STOP" THEN FALSE
               ELSE IF r \in {"START", "STARTUP"} THEN error' = "none"
               ELSE pump

Checking == thread = "running" /\ at = "check"

CheckNothing ==
    /\ Checking
    /\ queue = <<>>
    /\ at' = "read"
    /\ UNCHANGED <<thread, request, attempts, contacts, remaining, queue, status, fault,
                   drive, startup, counts>>

Sends(r) == r # "STARTUP" \/ InContact

CheckSends ==
    /\ Checking
    /\ queue # <<>> /\ Sends(Head(queue))
    /\ link
    /\ Execute(Head(queue))
    /\ request' = Head(queue)
    /\ queue' = Tail(queue)
    /\ wanted' = (wanted /\ Head(queue) # "STARTUP")
    /\ at' = "read"
    /\ UNCHANGED <<thread, attempts, contacts, remaining, status, fault, link,
                   unanswered, counts>>

\* The drive does not answer, although it may have received the request.  The
\* request is gone from the queue, and run() does not know of it.
CheckThrows ==
    /\ Checking
    /\ queue # <<>> /\ Sends(Head(queue))
    /\ ~link
    /\ \/ Execute(Head(queue)) /\ wanted' = (wanted /\ Head(queue) # "STARTUP")
       \/ UNCHANGED <<pump, error, wanted>>
    /\ unanswered' = TRUE
    /\ Catch("NOP", Tail(queue))
    /\ EndCycle
    /\ UNCHANGED <<status, link, counts>>

\* Mutant: a startup that has to wait for contact is not queued again.
CheckDropsStartup ==
    /\ Checking
    /\ queue # <<>> /\ ~Sends(Head(queue))
    /\ ~Expired
    /\ request' = "STARTUP"
    /\ queue' = Tail(queue)
    /\ at' = "read"
    /\ UNCHANGED <<thread, attempts, contacts, remaining, status, fault, drive, startup,
                   counts>>

CheckDefers ==
    /\ Checking
    /\ queue # <<>> /\ ~Sends(Head(queue))
    /\ ~Expired
    /\ request' = "STARTUP"
    /\ queue' = Append(Tail(queue), "STARTUP")
    /\ at' = "read"
    /\ UNCHANGED <<thread, attempts, contacts, remaining, status, fault, drive, startup,
                   counts>>

CheckGivesUp ==
    /\ Checking
    /\ queue # <<>> /\ ~Sends(Head(queue))
    /\ Expired
    /\ Fail("startup")
    /\ request' = "STARTUP"
    /\ queue' = Tail(queue)
    /\ at' = "read"
    /\ UNCHANGED <<thread, attempts, contacts, remaining, status, drive, startup, counts>>

-----------------------------------------------------------------------------
(* The readout of the drive *)

Reading == thread = "running" /\ at = "read"

\* The status is remembered once its event is sent: an error whose event is lost is a
\* new one in the next cycle, reset again and not counted.
Remember ==
    \/ lastError' = error /\ UNCHANGED disturbances
    \/ /\ error # lastError
       /\ disturbances < MaxDisturbances
       /\ disturbances' = disturbances + 1
       /\ UNCHANGED lastError

\* Mutant: the cycles an error outlives its reset are not counted.
UpdateNeverCounts ==
    /\ Remember
    /\ \/ error = "none" /\ errorCount' = 0 /\ UNCHANGED <<queue, fault>>
       \/ error \in NonResettable /\ Fail("drive") /\ UNCHANGED <<queue, errorCount>>
       \/ /\ error \in AutoReset /\ error # lastError
          /\ queue' = queue \o <<"RESET", "START">>
          /\ UNCHANGED <<errorCount, fault>>
       \/ /\ error \in AutoReset /\ error = lastError
          /\ UNCHANGED <<errorCount, queue, fault>>

\* GlycolPumpStatus::update: an error of AutoReset is reset when it appears.
Update ==
    /\ Remember
    /\ \/ error = "none" /\ errorCount' = 0 /\ UNCHANGED <<queue, fault>>
       \/ error \in NonResettable /\ Fail("drive") /\ UNCHANGED <<queue, errorCount>>
       \/ /\ error \in AutoReset /\ error # lastError
          /\ queue' = queue \o <<"RESET", "START">>
          /\ UNCHANGED <<errorCount, fault>>
       \/ /\ error \in AutoReset /\ error = lastError
          /\ errorCount' = IF errorCount > ErrorLimit THEN errorCount ELSE errorCount + 1
          /\ IF errorCount' > ErrorLimit THEN Fail("drive") ELSE UNCHANGED fault
          /\ UNCHANGED queue

\* Mutant: a readout is not counted as a contact.
ReadSucceedsUncounted ==
    /\ Reading
    /\ link
    /\ Update
    /\ remaining' = Timeout
    /\ attempts' = IF request = "STARTUP" THEN AutoRecoverAttempts ELSE attempts
    /\ EndCycle
    /\ UNCHANGED <<thread, contacts, drive, startup, startups, outages, requests>>

ReadSucceeds ==
    /\ Reading
    /\ link
    /\ Update
    /\ remaining' = Timeout
    /\ contacts' = IF InContact THEN contacts ELSE contacts + 1
    /\ attempts' = IF request = "STARTUP" THEN AutoRecoverAttempts ELSE attempts
    /\ EndCycle
    /\ UNCHANGED <<thread, drive, startup, startups, outages, requests>>

ReadThrows ==
    /\ Reading
    /\ ~link
    /\ Catch(request, queue)
    /\ EndCycle
    /\ UNCHANGED <<status, drive, startup, counts>>

\* The bound of the cycles counted, beyond what any trouble may last.
Horizon == Timeout + ErrorLimit + 2

\* The drive has answered with an error, and its event was sent.
Published == error # "none" /\ error' = error /\ lastError' = error

\* A cycle more of a silence, or of an error that is published.
Reported ==
    unreported' =
        IF fault' # "none" \/ (link /\ ~Published) THEN 0
        ELSE IF at' = "check" /\ unreported < Horizon THEN unreported + 1
        ELSE unreported

Cycle ==
    /\ \/ CheckNothing
       \/ CheckSends
       \/ CheckThrows
       \/ CheckDefers
       \/ CheckGivesUp
       \/ ReadSucceeds
       \/ ReadThrows
    /\ Reported

-----------------------------------------------------------------------------
(* The drive and its serial line *)

LinkChanges ==
    /\ disturbances < MaxDisturbances
    /\ disturbances' = disturbances + 1
    /\ link' = ~link
    /\ outages' = IF link THEN outages + 1 ELSE outages
    /\ unreported' = 0
    /\ UNCHANGED <<cycle, queue, status, fault, pump, error, startup, startups,
                   requests>>

DriveTrips(e) ==
    /\ disturbances < MaxDisturbances
    /\ disturbances' = disturbances + 1
    /\ error = "none"
    /\ error' = e
    /\ pump' = FALSE
    /\ unreported' = IF link THEN 0 ELSE unreported
    /\ UNCHANGED <<cycle, queue, status, fault, link, startup, startups, outages,
                   requests>>

Next ==
    \/ \E r \in Requests : Ask(r)
    \/ Restart
    \/ Cycle
    \/ LinkChanges
    \/ \E e \in Errors : DriveTrips(e)

Spec == Init /\ [][Next]_vars

\* The thread's loop goes on: nothing it waits for has no timeout.
Fairness == WF_vars(Cycle)

FairSpec == Spec /\ Fairness

-----------------------------------------------------------------------------
(* Properties *)

\* Every variable has its type.
TypeOK ==
    /\ thread \in {"running", "ended"}
    /\ at \in {"check", "read"}
    /\ request \in Requests \cup {"NOP"}
    /\ queue \in Seq(Requests)
    /\ attempts \in 0..AutoRecoverAttempts
    /\ contacts \in 0..3
    /\ remaining \in 0..Timeout
    /\ lastError \in Errors \cup {"none", "unknown"}
    /\ errorCount \in 0..(ErrorLimit + 1)
    /\ fault \in {"none", "silence", "attempts", "startup", "drive"}
    /\ pump \in BOOLEAN
    /\ error \in Errors \cup {"none"}
    /\ link \in BOOLEAN
    /\ wanted \in BOOLEAN
    /\ unanswered \in BOOLEAN
    /\ startups \in 0..MaxRequests
    /\ outages \in 0..MaxDisturbances
    /\ requests \in 0..MaxRequests
    /\ disturbances \in 0..MaxDisturbances
    /\ unreported \in 0..Horizon

Queued(r) == {i \in 1..Len(queue) : queue[i] = r}

\* A startup enable has asked for is never forgotten: until the drive has carried
\* it out, it is queued - unless the drive did not answer a request, or the CSC has
\* faulted.
StartupKept ==
    wanted /\ ~unanswered /\ fault = "none" => Queued("STARTUP") # {}

\* The retries of a failed startup and its deferrals multiply it in the queue, but
\* in every outage of the link only as often as there are attempts.
StartupsBounded ==
    Cardinality(Queued("STARTUP")) <= startups + AutoRecoverAttempts * outages

\* A startup does not wait for contact for ever: it is sent, or the CSC faults.
StartupSettles ==
    Queued("STARTUP") # {} ~> (Queued("STARTUP") = {} \/ fault # "none")

\* A drive that stops to answer faults the CSC, whatever is being retried.
SilenceFaults == ~link ~> (link \/ fault # "none")

\* A drive that does not answer is reported in time: no outage lasts longer than the
\* timeout without a fault, although every cycle of it retries, defers and sends.
SilenceInTime == ~link => unreported <= Timeout

\* And so is the error of a drive that answers: at once if it cannot be reset, and
\* otherwise after the cycles its reset is given, which no retry renews.  They count
\* from the cycle on that publishes the error: until then it is a new one in each.
ErrorInTime ==
    link => /\ error \in AutoReset => unreported <= ErrorLimit + 1
            /\ error \in NonResettable => unreported = 0

\* An error the drive keeps faults the CSC, even when its reset is retried: one that can
\* be reset as soon as it is published, any other without.
ErrorFaults ==
    \A e \in Errors :
        error = e /\ (lastError = e \/ e \in NonResettable)
            ~> (error # e \/ ~link \/ fault # "none")

\* Whatever exchange with the drive fails, a startup is carried out, tried again or
\* reported: run() says "Queing again failed startup sequence - try {}/{}.".
StartupNeverLost ==
    wanted /\ fault = "none" => Queued("STARTUP") # {} \/ request = "STARTUP"
=============================================================================
