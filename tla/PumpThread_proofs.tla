--------------------------- MODULE PumpThread_proofs ---------------------------
(***************************************************************************)
(* That a startup is neither forgotten nor multiplied without bound, that  *)
(* trouble of the drive is reported in time, and that the queue gets done, *)
(* for any setting of the attempts, the timeouts and the errors.           *)
(***************************************************************************)
EXTENDS PumpThread, FiniteSetTheorems, TLAPS

-----------------------------------------------------------------------------
(* The startups of a queue *)

StartupsIn(q) == {i \in 1..Len(q) : q[i] = "STARTUP"}

\* The startups of the queue, as the module and as the proofs count them.
LEMMA QueuedStartups == Queued("STARTUP") = StartupsIn(queue)
  BY DEF Queued, StartupsIn

\* There are finitely many of them.
LEMMA StartupsFinite ==
    ASSUME NEW q \in Seq(Requests)
    PROVE  IsFiniteSet(StartupsIn(q)) /\ Cardinality(StartupsIn(q)) \in Nat
  <1>1. IsFiniteSet(1..Len(q))
    BY FS_Interval
  <1>2. IsFiniteSet(StartupsIn(q))
    BY <1>1, FS_Subset DEF StartupsIn
  <1> QED BY <1>2, FS_CardinalityType

\* A startup that is appended is one more, another request none.
LEMMA StartupsAppended ==
    ASSUME NEW q \in Seq(Requests), NEW r \in Requests
    PROVE  /\ Append(q, r) \in Seq(Requests)
           /\ StartupsIn(q) \subseteq StartupsIn(Append(q, r))
           /\ r = "STARTUP" => StartupsIn(Append(q, r)) # {}
           /\ Cardinality(StartupsIn(Append(q, r))) <= Cardinality(StartupsIn(q)) + 1
           /\ r # "STARTUP" => StartupsIn(Append(q, r)) = StartupsIn(q)
  <1>1. StartupsIn(Append(q, r)) =
            IF r = "STARTUP" THEN StartupsIn(q) \cup {Len(q) + 1} ELSE StartupsIn(q)
    BY DEF StartupsIn
  <1>2. IsFiniteSet(StartupsIn(q)) /\ Cardinality(StartupsIn(q)) \in Nat
    BY StartupsFinite
  <1>3. Cardinality(StartupsIn(q) \cup {Len(q) + 1}) <= Cardinality(StartupsIn(q)) + 1
    <2>1. Cardinality(StartupsIn(q) \cup {Len(q) + 1}) =
            IF Len(q) + 1 \in StartupsIn(q) THEN Cardinality(StartupsIn(q))
            ELSE Cardinality(StartupsIn(q)) + 1
      BY <1>2, FS_AddElement, Zenon
    <2> QED BY <1>2, <2>1
  <1>4. Cardinality(StartupsIn(Append(q, r))) <= Cardinality(StartupsIn(q)) + 1
    BY <1>1, <1>2, <1>3
  <1>5. Append(q, r) \in Seq(Requests)
    OBVIOUS
  <1>6. StartupsIn(q) \subseteq StartupsIn(Append(q, r))
    BY <1>1
  <1>7. r = "STARTUP" => StartupsIn(Append(q, r)) # {}
    BY <1>1
  <1>8. r # "STARTUP" => StartupsIn(Append(q, r)) = StartupsIn(q)
    BY <1>1
  <1> QED BY <1>4, <1>5, <1>6, <1>7, <1>8

\* The reset of an error appends none.
LEMMA StartupsReset ==
    ASSUME NEW q \in Seq(Requests)
    PROVE  /\ q \o <<"RESET", "START">> \in Seq(Requests)
           /\ StartupsIn(q \o <<"RESET", "START">>) = StartupsIn(q)
  <1>1. <<"RESET", "START">> \in Seq(Requests)
    BY DEF Requests
  <1>2. q \o <<"RESET", "START">> \in Seq(Requests)
    BY <1>1
  <1>3. StartupsIn(q \o <<"RESET", "START">>) = StartupsIn(q)
    BY DEF StartupsIn
  <1> QED BY <1>2, <1>3

\* A startup taken from the queue is one less, another request none.
LEMMA StartupsTaken ==
    ASSUME NEW q \in Seq(Requests), q # <<>>
    PROVE  /\ Tail(q) \in Seq(Requests) /\ Head(q) \in Requests
           /\ Cardinality(StartupsIn(Tail(q))) <= Cardinality(StartupsIn(q))
           /\ Head(q) = "STARTUP" =>
                Cardinality(StartupsIn(Tail(q))) + 1 <= Cardinality(StartupsIn(q))
           /\ Head(q) # "STARTUP" /\ StartupsIn(q) # {} => StartupsIn(Tail(q)) # {}
  <1> DEFINE after == [i \in StartupsIn(Tail(q)) |-> i + 1]
  <1>1. /\ Tail(q) \in Seq(Requests) /\ Head(q) \in Requests /\ Head(q) = q[1]
        /\ Len(Tail(q)) = Len(q) - 1 /\ Len(q) \in Nat
        /\ \A i \in 1..Len(Tail(q)) : Tail(q)[i] = q[i + 1]
    OBVIOUS
  <1>2. \A i \in StartupsIn(Tail(q)) : i \in Nat /\ i + 1 \in StartupsIn(q) \ {1}
    BY <1>1 DEF StartupsIn
  <1>3. after \in Injection(StartupsIn(Tail(q)), StartupsIn(q) \ {1})
    BY <1>2 DEF Injection, IsInjective
  <1>4. /\ IsFiniteSet(StartupsIn(q)) /\ Cardinality(StartupsIn(q)) \in Nat
        /\ Cardinality(StartupsIn(Tail(q))) \in Nat
    BY <1>1, StartupsFinite
  <1>5. /\ IsFiniteSet(StartupsIn(q) \ {1})
        /\ Cardinality(StartupsIn(q) \ {1}) =
             IF 1 \in StartupsIn(q) THEN Cardinality(StartupsIn(q)) - 1
             ELSE Cardinality(StartupsIn(q))
    BY <1>4, FS_RemoveElement
  <1>6. Cardinality(StartupsIn(Tail(q))) <= Cardinality(StartupsIn(q) \ {1})
    BY <1>3, <1>5, FS_Injection
  <1>7. Head(q) = "STARTUP" => 1 \in StartupsIn(q)
    BY <1>1 DEF StartupsIn
  <1>8. ASSUME Head(q) # "STARTUP", StartupsIn(q) # {}
        PROVE  StartupsIn(Tail(q)) # {}
    <2>1. PICK i \in 1..Len(q) : q[i] = "STARTUP"
      BY <1>8 DEF StartupsIn
    <2>2. i # 1 /\ i - 1 \in 1..Len(Tail(q))
      BY <1>1, <1>8, <2>1
    <2>3. Tail(q)[i - 1] = q[i]
      BY <1>1, <2>2
    <2>4. i - 1 \in StartupsIn(Tail(q))
      BY <2>1, <2>2, <2>3 DEF StartupsIn
    <2> QED BY <2>4
  <1> QED BY <1>1, <1>4, <1>5, <1>6, <1>7, <1>8

-----------------------------------------------------------------------------
(* The invariant *)

\* What is counted has happened: no startup without a request of the CSC, no outage
\* without a change of the link.
Counted ==
    /\ startups <= requests
    /\ outages <= disturbances
    /\ ~link => disturbances >= 1

\* In the outage under way, the attempts left may still multiply the startups: they
\* are only renewed by a readout.
Multiplied ==
    Cardinality(StartupsIn(queue)) + (IF link THEN 0 ELSE attempts)
        <= startups + AutoRecoverAttempts * outages

PumpInv == TypeOK /\ Counted /\ StartupKept /\ Multiplied

\* Only bounds are known of the settings.
LEMMA Settings ==
    /\ AutoRecoverAttempts \in Nat /\ Timeout \in Nat /\ ErrorLimit \in Nat
    /\ MaxRequests \in Nat /\ MaxDisturbances \in Nat
    /\ Horizon \in Nat /\ Horizon = Timeout + ErrorLimit + 2
  BY SettingsAssumption DEF Horizon

\* One outage more is worth its attempts.
LEMMA OutageWorth ==
    ASSUME NEW n \in Nat
    PROVE  /\ AutoRecoverAttempts * n \in Nat
           /\ AutoRecoverAttempts * (n + 1) = AutoRecoverAttempts * n + AutoRecoverAttempts
  BY Settings

\* The attempts do not exceed the setting.
LEMMA AttemptsType ==
    ASSUME TypeOK
    PROVE  attempts \in Nat /\ attempts <= AutoRecoverAttempts
           /\ startups \in Nat /\ outages \in Nat /\ queue \in Seq(Requests)
  BY Settings DEF TypeOK

\* A thread that was just started satisfies the invariant.
LEMMA PumpInit == Init => PumpInv
  <1> SUFFICES ASSUME Init PROVE PumpInv
    OBVIOUS
  <1>1. TypeOK
    <2>1. /\ attempts \in 0..AutoRecoverAttempts /\ contacts \in 0..3
          /\ remaining \in 0..Timeout /\ errorCount \in 0..(ErrorLimit + 1)
          /\ startups \in 0..MaxRequests /\ outages \in 0..MaxDisturbances
          /\ requests \in 0..MaxRequests /\ disturbances \in 0..MaxDisturbances
          /\ unreported \in 0..Horizon
      BY Settings DEF Init, NewThread
    <2>2. queue \in Seq(Requests)
      BY DEF Init, NewThread
    <2> QED BY <2>1, <2>2 DEF Init, NewThread, TypeOK
  <1>2. Counted /\ StartupKept
    BY DEF Init, Counted, StartupKept
  <1>3. StartupsIn(queue) = {}
    BY DEF Init, NewThread, StartupsIn
  <1>4. Multiplied
    BY <1>3, Settings, FS_EmptySet DEF Init, Multiplied
  <1> QED BY <1>1, <1>2, <1>4 DEF PumpInv

\* What a cycle counts of the drive's trouble stays within the bound.
LEMMA ReportedType ==
    ASSUME TypeOK, Reported
    PROVE  unreported' \in 0..Horizon
  BY Settings DEF TypeOK, Reported

-----------------------------------------------------------------------------
(* A failed cycle *)

\* What a failed cycle does to the thread.
LEMMA CatchType ==
    ASSUME TypeOK, NEW sent, NEW pending \in Seq(Requests), Catch(sent, pending)
    PROVE  /\ thread' \in {"running", "ended"}
           /\ queue' \in Seq(Requests)
           /\ attempts' \in 0..AutoRecoverAttempts
           /\ contacts' \in 0..3
           /\ remaining' \in 0..Timeout
           /\ fault' \in {"none", "silence", "attempts", "startup", "drive"}
  <1>1. CASE Expired
    BY <1>1 DEF Catch, TypeOK, Fail
  <1>2. CASE ~Expired
    <2>1. Append(pending, "STARTUP") \in Seq(Requests)
      BY DEF Requests
    <2>2. remaining' \in 0..Timeout /\ contacts' \in 0..3
      BY <1>2, Settings DEF Catch, Expired, TypeOK
    <2>3. queue' \in Seq(Requests)
      BY <1>2, <2>1 DEF Catch
    <2>4. attempts' \in 0..AutoRecoverAttempts
      BY <1>2, Settings DEF Catch, TypeOK
    <2> QED BY <1>2, <2>2, <2>3, <2>4 DEF Catch, TypeOK, Fail
  <1> QED BY <1>1, <1>2

\* And to the startups: it loses none, and pays for each it adds with an attempt.
LEMMA CatchStartups ==
    ASSUME TypeOK, NEW sent, NEW pending \in Seq(Requests), Catch(sent, pending)
    PROVE  /\ StartupsIn(pending) # {} => StartupsIn(queue') # {}
           /\ Cardinality(StartupsIn(queue')) + attempts'
                <= Cardinality(StartupsIn(pending)) + attempts
           /\ fault' = "none" => fault = "none"
  <1>1. Cardinality(StartupsIn(pending)) \in Nat /\ attempts \in Nat
    BY StartupsFinite, AttemptsType
  <1>2. fault' = "none" => fault = "none"
    BY DEF Catch, Fail, TypeOK
  <1>3. CASE queue' = pending /\ UNCHANGED attempts
    BY <1>1, <1>2, <1>3
  <1>4. CASE queue' = Append(pending, "STARTUP") /\ attempts > 0 /\ attempts' = attempts - 1
    <2>1. /\ StartupsIn(queue') # {}
          /\ Cardinality(StartupsIn(queue')) <= Cardinality(StartupsIn(pending)) + 1
      BY <1>4, StartupsAppended DEF Requests
    <2>2. Cardinality(StartupsIn(queue')) \in Nat
      BY <1>4, StartupsFinite, StartupsAppended DEF Requests
    <2> QED BY <1>1, <1>2, <1>4, <2>1, <2>2
  <1> QED BY <1>3, <1>4 DEF Catch

-----------------------------------------------------------------------------
(* Step by step *)

\* A request of a command keeps the invariant.
LEMMA AskKeeps ==
    ASSUME PumpInv, NEW r \in Requests, Ask(r)
    PROVE  PumpInv'
  <1>1. queue \in Seq(Requests) /\ queue' = Append(queue, r)
    BY DEF PumpInv, TypeOK, Ask
  <1>2. TypeOK' /\ Counted'
    <2>1. queue' \in Seq(Requests)
      BY <1>1, StartupsAppended
    <2>2. requests' = requests + 1 /\ requests' \in 0..MaxRequests
      BY Settings DEF PumpInv, TypeOK, Ask
    <2>3. startups' \in 0..MaxRequests /\ startups' <= requests'
      BY <2>2, Settings DEF PumpInv, TypeOK, Counted, Ask
    <2> QED BY <2>1, <2>2, <2>3 DEF PumpInv, TypeOK, Counted, Ask, cycle, status, drive
  <1>3. StartupKept'
    BY <1>1, StartupsAppended, QueuedStartups
       DEF PumpInv, TypeOK, StartupKept, Ask, Queued, StartupsIn
  <1>4. Multiplied'
    <2>1. UNCHANGED <<link, attempts, outages>>
      BY DEF Ask, cycle, drive
    <2>2. /\ Cardinality(StartupsIn(queue)) \in Nat /\ Cardinality(StartupsIn(queue')) \in Nat
          /\ attempts \in Nat /\ startups \in Nat /\ AutoRecoverAttempts * outages \in Nat
      BY <1>1, StartupsFinite, StartupsAppended, AttemptsType, OutageWorth DEF PumpInv
    <2>3. CASE r = "STARTUP"
      <3>1. startups' = startups + 1
            /\ Cardinality(StartupsIn(queue')) <= Cardinality(StartupsIn(queue)) + 1
        BY <1>1, <2>3, StartupsAppended DEF Ask
      <3> QED BY <2>1, <2>2, <3>1 DEF PumpInv, Multiplied
    <2>4. CASE r # "STARTUP"
      <3>1. startups' = startups /\ StartupsIn(queue') = StartupsIn(queue)
        BY <1>1, <2>4, StartupsAppended DEF Ask
      <3> QED BY <2>1, <3>1 DEF PumpInv, Multiplied
    <2> QED BY <2>3, <2>4
  <1> QED BY <1>2, <1>3, <1>4 DEF PumpInv

\* So does a new thread in place of the old one,
LEMMA RestartKeeps ==
    ASSUME PumpInv, Restart
    PROVE  PumpInv'
  <1>1. TypeOK' /\ Counted'
    <2>1. requests' \in 0..MaxRequests /\ remaining' \in 0..Timeout
          /\ attempts' \in 0..AutoRecoverAttempts /\ startups' = 0
          /\ unreported' \in 0..Horizon
      BY Settings DEF PumpInv, TypeOK, Restart
    <2>2. outages' \in 0..MaxDisturbances /\ outages' <= disturbances'
      BY Settings DEF PumpInv, TypeOK, Counted, Restart
    <2>3. queue' = <<>> /\ queue' \in Seq(Requests)
      BY DEF Restart
    <2>4. startups' \in 0..MaxRequests /\ startups' <= requests'
      BY <2>1, Settings
    <2>5. UNCHANGED <<lastError, errorCount, link, disturbances>> /\ contacts' \in 0..3
      BY DEF Restart, status
    <2>6. TypeOK'
      BY <2>1, <2>2, <2>3, <2>4, <2>5 DEF PumpInv, TypeOK, Restart
    <2>7. Counted'
      BY <2>2, <2>4, <2>5 DEF PumpInv, Counted
    <2> QED BY <2>6, <2>7
  <1>2. StartupKept'
    BY DEF Restart, StartupKept
  <1>3. Multiplied'
    <2>1. StartupsIn(queue') = {}
      BY DEF Restart, StartupsIn
    <2>2. Cardinality(StartupsIn(queue')) = 0
      BY <2>1, FS_EmptySet
    <2>3. CASE link
      BY <2>2, <2>3, Settings DEF Restart, Multiplied, StartupsIn
    <2>4. CASE ~link
      BY <2>2, <2>4, Settings DEF Restart, Multiplied, StartupsIn
    <2> QED BY <2>3, <2>4
  <1> QED BY <1>1, <1>2, <1>3 DEF PumpInv

\* A cycle that adds no startup, while the drive answers or keeping the attempts.
LEMMA NoneAdded ==
    ASSUME PumpInv, UNCHANGED <<link, startups, outages>>, queue' \in Seq(Requests),
           Cardinality(StartupsIn(queue')) <= Cardinality(StartupsIn(queue)),
           link \/ UNCHANGED attempts
    PROVE  Multiplied'
  <1>1. /\ Cardinality(StartupsIn(queue)) \in Nat /\ Cardinality(StartupsIn(queue')) \in Nat
        /\ attempts \in Nat /\ startups \in Nat /\ AutoRecoverAttempts * outages \in Nat
    BY StartupsFinite, AttemptsType, OutageWorth DEF PumpInv
  <1> QED BY <1>1 DEF PumpInv, Multiplied

\* a cycle with an empty queue,
LEMMA CheckNothingKeeps ==
    ASSUME PumpInv, CheckNothing, Reported
    PROVE  PumpInv'
  <1>1. UNCHANGED <<queue, link, startups, outages, attempts>> /\ queue \in Seq(Requests)
    BY AttemptsType DEF CheckNothing, counts, drive, PumpInv
  <1>2. TypeOK' /\ Counted'
    BY ReportedType DEF PumpInv, TypeOK, Counted, CheckNothing, status, drive, startup, counts
  <1>3. StartupKept'
    BY DEF PumpInv, StartupKept, CheckNothing, startup, Queued
  <1>4. Multiplied'
    BY <1>1 DEF PumpInv, Multiplied
  <1> QED BY <1>2, <1>3, <1>4 DEF PumpInv

\* a request the drive executes,
LEMMA CheckSendsKeeps ==
    ASSUME PumpInv, CheckSends, Reported
    PROVE  PumpInv'
  <1>1. queue \in Seq(Requests) /\ queue # <<>> /\ queue' = Tail(queue)
    BY AttemptsType DEF CheckSends, PumpInv
  <1>2. queue' \in Seq(Requests) /\ Head(queue) \in Requests
    BY <1>1, StartupsTaken
  <1>3. TypeOK' /\ Counted'
    <2>1. error' \in Errors \cup {"none"} /\ pump' \in BOOLEAN
      BY DEF PumpInv, TypeOK, CheckSends, Execute
    <2>2. wanted' \in BOOLEAN
      BY DEF PumpInv, TypeOK, CheckSends
    <2> QED BY <1>2, <2>1, <2>2, ReportedType DEF PumpInv, TypeOK, Counted, CheckSends, status, counts
  <1>4. StartupKept'
    BY <1>1, StartupsTaken DEF PumpInv, StartupKept, CheckSends, Queued, StartupsIn
  <1>5. Multiplied'
    BY <1>1, <1>2, StartupsTaken, NoneAdded DEF CheckSends, counts
  <1> QED BY <1>3, <1>4, <1>5 DEF PumpInv

\* A failed cycle keeps the invariant, if it loses no startup, or nothing is promised.
LEMMA CatchKeeps ==
    ASSUME PumpInv, NEW sent, NEW pending \in Seq(Requests), Catch(sent, pending),
           Cardinality(StartupsIn(pending)) <= Cardinality(StartupsIn(queue)), ~link,
           \/ pending = queue /\ UNCHANGED <<wanted, unanswered>>
           \/ unanswered',
           EndCycle, UNCHANGED <<status, link, counts>>, wanted' \in BOOLEAN,
           unanswered' \in BOOLEAN, pump' \in BOOLEAN, error' \in Errors \cup {"none"},
           Reported
    PROVE  PumpInv'
  <1>1. TypeOK' /\ Counted'
    BY CatchType, ReportedType DEF PumpInv, TypeOK, Counted, EndCycle, status, counts
  <1>2. StartupKept'
    BY CatchStartups DEF PumpInv, StartupKept, Queued, StartupsIn
  <1>3. Multiplied'
    <2>1. Cardinality(StartupsIn(queue')) + attempts'
            <= Cardinality(StartupsIn(pending)) + attempts
      BY CatchStartups DEF PumpInv
    <2>2. /\ Cardinality(StartupsIn(queue)) \in Nat
          /\ Cardinality(StartupsIn(pending)) \in Nat
          /\ Cardinality(StartupsIn(queue')) \in Nat
          /\ attempts \in Nat /\ attempts' \in Nat
          /\ startups \in Nat /\ AutoRecoverAttempts * outages \in Nat
      BY <1>1, StartupsFinite, CatchType, Settings, AttemptsType, OutageWorth
         DEF PumpInv
    <2>3. UNCHANGED <<startups, outages>>
      BY DEF counts
    <2> QED BY <2>1, <2>2, <2>3 DEF PumpInv, Multiplied
  <1> QED BY <1>1, <1>2, <1>3 DEF PumpInv

\* a request the drive does not answer,
LEMMA CheckThrowsKeeps ==
    ASSUME PumpInv, CheckThrows, Reported
    PROVE  PumpInv'
  <1>1. queue \in Seq(Requests) /\ queue # <<>>
    BY AttemptsType DEF CheckThrows, PumpInv
  <1>2. /\ Tail(queue) \in Seq(Requests)
        /\ Cardinality(StartupsIn(Tail(queue))) <= Cardinality(StartupsIn(queue))
    BY <1>1, StartupsTaken
  <1>3. wanted' \in BOOLEAN /\ pump' \in BOOLEAN /\ error' \in Errors \cup {"none"}
    BY DEF PumpInv, TypeOK, CheckThrows, Execute
  <1> QED BY <1>2, <1>3, CatchKeeps DEF CheckThrows

\* a read of the drive that fails,
LEMMA ReadThrowsKeeps ==
    ASSUME PumpInv, ReadThrows, Reported
    PROVE  PumpInv'
  <1>1. queue \in Seq(Requests) /\ Cardinality(StartupsIn(queue)) \in Nat
    BY AttemptsType, StartupsFinite DEF PumpInv
  <1>2. UNCHANGED <<wanted, unanswered, pump, error, link>>
    BY DEF ReadThrows, startup, drive
  <1>3. /\ wanted \in BOOLEAN /\ unanswered \in BOOLEAN /\ pump \in BOOLEAN
        /\ error \in Errors \cup {"none"}
    BY DEF PumpInv, TypeOK
  <1> QED BY <1>1, <1>2, <1>3, CatchKeeps DEF ReadThrows

\* a startup that is put off or given up,
LEMMA CheckWaitsKeeps ==
    ASSUME PumpInv, CheckDefers \/ CheckGivesUp, Reported
    PROVE  PumpInv'
  <1>1. /\ queue \in Seq(Requests) /\ queue # <<>> /\ Head(queue) = "STARTUP"
        /\ Cardinality(StartupsIn(queue)) \in Nat
    BY AttemptsType, StartupsFinite DEF CheckDefers, CheckGivesUp, Sends, PumpInv
  <1>2. /\ Tail(queue) \in Seq(Requests)
        /\ Cardinality(StartupsIn(Tail(queue))) \in Nat
        /\ Cardinality(StartupsIn(Tail(queue))) + 1 <= Cardinality(StartupsIn(queue))
    BY <1>1, StartupsTaken, StartupsFinite
  <1>3. UNCHANGED <<link, startups, outages, attempts>>
    BY DEF CheckDefers, CheckGivesUp, drive, counts
  <1>4. CASE CheckDefers
    <2>1. /\ queue' \in Seq(Requests) /\ StartupsIn(queue') # {}
          /\ Cardinality(StartupsIn(queue')) <= Cardinality(StartupsIn(Tail(queue))) + 1
      BY <1>2, <1>4, StartupsAppended DEF CheckDefers, Requests
    <2>2. Cardinality(StartupsIn(queue')) \in Nat
      BY <2>1, StartupsFinite
    <2>3. Multiplied'
      BY <1>1, <1>2, <1>3, <2>1, <2>2, NoneAdded
    <2>4. TypeOK' /\ Counted'
      BY <1>4, <2>1, ReportedType DEF PumpInv, TypeOK, Counted, CheckDefers, status, drive, startup,
                        counts, Requests
    <2>5. StartupKept'
      BY <2>1 DEF StartupKept, Queued, StartupsIn
    <2> QED BY <2>3, <2>4, <2>5 DEF PumpInv
  <1>5. CASE CheckGivesUp
    <2>1. queue' = Tail(queue) /\ fault' # "none"
          /\ fault' \in {"none", "silence", "attempts", "startup", "drive"}
      BY <1>5 DEF CheckGivesUp, Fail, PumpInv, TypeOK
    <2>2. Multiplied'
      BY <1>1, <1>2, <1>3, <2>1, NoneAdded
    <2>3. TypeOK' /\ Counted'
      BY <1>2, <1>5, <2>1, ReportedType
         DEF PumpInv, TypeOK, Counted, CheckGivesUp, status, drive, startup,
                        counts, Requests
    <2> QED BY <2>1, <2>2, <2>3 DEF PumpInv, StartupKept
  <1> QED BY <1>4, <1>5

\* a read that succeeds,
LEMMA ReadSucceedsKeeps ==
    ASSUME PumpInv, ReadSucceeds, Reported
    PROVE  PumpInv'
  <1>1. queue \in Seq(Requests) /\ Cardinality(StartupsIn(queue)) \in Nat
    BY AttemptsType, StartupsFinite DEF PumpInv
  <1>2. queue' \in Seq(Requests) /\ StartupsIn(queue') = StartupsIn(queue)
    BY <1>1, StartupsReset DEF ReadSucceeds, Update
  <1>3. /\ fault' \in {"none", "silence", "attempts", "startup", "drive"}
        /\ fault' = "none" => fault = "none"
    BY DEF ReadSucceeds, Update, Fail, PumpInv, TypeOK
  <1>4. errorCount' \in 0..(ErrorLimit + 1)
    <2>1. errorCount \in 0..(ErrorLimit + 1)
      BY DEF PumpInv, TypeOK
    <2>2. errorCount' \in {0, errorCount, IF errorCount > ErrorLimit THEN errorCount
                                          ELSE errorCount + 1}
      BY DEF ReadSucceeds, Update
    <2> QED BY <2>1, <2>2, Settings
  <1>5. attempts' \in 0..AutoRecoverAttempts /\ contacts' \in 0..3 /\ remaining' \in 0..Timeout
    BY Settings DEF ReadSucceeds, PumpInv, TypeOK, InContact
  <1>6. TypeOK' /\ Counted'
    <2>1. lastError' \in Errors \cup {"none", "unknown"}
      BY DEF ReadSucceeds, Update, Remember, PumpInv, TypeOK
    <2>2. UNCHANGED <<thread, pump, error, link, wanted, unanswered, startups, outages,
                      requests>>
      BY DEF ReadSucceeds, drive, startup
    <2>3. disturbances' \in 0..MaxDisturbances /\ disturbances <= disturbances'
      BY Settings DEF ReadSucceeds, Update, Remember, PumpInv, TypeOK
    <2>4. TypeOK'
      BY <1>2, <1>3, <1>4, <1>5, <2>1, <2>2, <2>3, ReportedType
         DEF PumpInv, TypeOK, ReadSucceeds, EndCycle
    <2>5. Counted'
      BY <2>2, <2>3, AttemptsType, Settings DEF PumpInv, TypeOK, Counted, ReadSucceeds
    <2> QED BY <2>4, <2>5
  <1>7. StartupKept'
    BY <1>2, <1>3 DEF PumpInv, StartupKept, ReadSucceeds, startup, Queued, StartupsIn
  <1>8. Multiplied'
    BY <1>1, <1>2, NoneAdded DEF ReadSucceeds, drive
  <1> QED BY <1>6, <1>7, <1>8 DEF PumpInv

\* the serial line that comes and goes,
LEMMA LinkKeeps ==
    ASSUME PumpInv, LinkChanges
    PROVE  PumpInv'
  <1>1. disturbances' = disturbances + 1 /\ disturbances' \in 0..MaxDisturbances
    BY Settings DEF PumpInv, TypeOK, LinkChanges
  <1>2. outages' \in 0..MaxDisturbances /\ outages' <= disturbances'
    BY <1>1, Settings DEF PumpInv, TypeOK, Counted, LinkChanges
  <1>3. TypeOK'
    BY <1>1, <1>2, Settings DEF PumpInv, TypeOK, LinkChanges, cycle, status, startup
  <1>4. Counted'
    BY <1>1, <1>2, Settings DEF PumpInv, TypeOK, Counted, LinkChanges
  <1>5. StartupKept'
    BY DEF PumpInv, StartupKept, LinkChanges, startup, Queued
  <1>6. Multiplied'
    <2>1. UNCHANGED <<queue, attempts, startups>>
      BY DEF LinkChanges, cycle
    <2>2. /\ Cardinality(StartupsIn(queue)) \in Nat /\ attempts \in Nat
          /\ attempts <= AutoRecoverAttempts /\ AutoRecoverAttempts \in Nat
          /\ startups \in Nat /\ AutoRecoverAttempts * outages \in Nat
      BY StartupsFinite, AttemptsType, OutageWorth, Settings DEF PumpInv
    <2>3. CASE link
      <3>1. ~link' /\ AutoRecoverAttempts * outages' =
                        AutoRecoverAttempts * outages + AutoRecoverAttempts
        BY <2>3, AttemptsType, OutageWorth DEF LinkChanges, PumpInv
      <3>2. Cardinality(StartupsIn(queue)) <= startups + AutoRecoverAttempts * outages
        BY <2>2, <2>3 DEF PumpInv, Multiplied
      <3>3. Cardinality(StartupsIn(queue)) + attempts
              <= startups + (AutoRecoverAttempts * outages + AutoRecoverAttempts)
        BY <2>2, <3>2
      <3> QED BY <2>1, <3>1, <3>3 DEF Multiplied, StartupsIn
    <2>4. CASE ~link
      <3>1. link' /\ outages' = outages
        BY <2>4 DEF LinkChanges, PumpInv, TypeOK
      <3>2. Cardinality(StartupsIn(queue)) + attempts
              <= startups + AutoRecoverAttempts * outages
        BY <2>4 DEF PumpInv, Multiplied
      <3>3. Cardinality(StartupsIn(queue)) + 0 <= startups + AutoRecoverAttempts * outages
        BY <2>2, <3>2
      <3> QED BY <2>1, <3>1, <3>3 DEF Multiplied, StartupsIn
    <2> QED BY <2>3, <2>4
  <1> QED BY <1>3, <1>4, <1>5, <1>6 DEF PumpInv

\* a trip of the drive,
LEMMA TripKeeps ==
    ASSUME PumpInv, NEW e \in Errors, DriveTrips(e)
    PROVE  PumpInv'
  <1>1. disturbances' = disturbances + 1 /\ disturbances' \in 0..MaxDisturbances
    BY Settings DEF PumpInv, TypeOK, DriveTrips
  <1>2. UNCHANGED <<queue, attempts, startups, outages, link>>
    BY DEF DriveTrips, cycle
  <1>3. TypeOK'
    <2>1. unreported' \in 0..Horizon
      BY Settings DEF PumpInv, TypeOK, DriveTrips
    <2> QED BY <1>1, <2>1 DEF PumpInv, TypeOK, DriveTrips, cycle, status, startup
  <1>4. Counted'
    <2>1. outages \in Nat /\ disturbances \in Nat
      BY AttemptsType, Settings DEF PumpInv, TypeOK
    <2> QED BY <1>1, <2>1 DEF PumpInv, Counted, DriveTrips
  <1>5. StartupKept'
    BY DEF PumpInv, StartupKept, DriveTrips, startup, Queued
  <1>6. Multiplied'
    BY <1>2 DEF PumpInv, Multiplied
  <1> QED BY <1>3, <1>4, <1>5, <1>6 DEF PumpInv

\* and a step that changes nothing.
LEMMA StutterKeeps ==
    ASSUME PumpInv, UNCHANGED vars
    PROVE  PumpInv'
  <1>1. TypeOK'
    BY DEF PumpInv, TypeOK, vars, cycle, status, drive, startup, counts
  <1>2. Counted' /\ StartupKept' /\ Multiplied'
    BY DEF PumpInv, Counted, StartupKept, Multiplied, Queued, vars, cycle, drive, startup,
           counts
  <1> QED BY <1>1, <1>2 DEF PumpInv

\* The invariant is inductive.
LEMMA PumpStep ==
    ASSUME PumpInv, [Next]_vars
    PROVE  PumpInv'
  <1>1. CASE \E r \in Requests : Ask(r)
    BY <1>1, AskKeeps
  <1>2. CASE Restart
    BY <1>2, RestartKeeps
  <1>3. CASE Cycle
    BY <1>3, CheckNothingKeeps, CheckSendsKeeps, CheckThrowsKeeps, CheckWaitsKeeps,
       ReadSucceedsKeeps, ReadThrowsKeeps DEF Cycle
  <1>4. CASE LinkChanges
    BY <1>4, LinkKeeps
  <1>5. CASE \E e \in Errors : DriveTrips(e)
    BY <1>5, TripKeeps
  <1>6. CASE UNCHANGED vars
    BY <1>6, StutterKeeps
  <1> QED BY <1>1, <1>2, <1>3, <1>4, <1>5, <1>6 DEF Next

\* What holds of the queue, the attempts and the counts in every state of the thread.
THEOREM PumpInvariant == Spec => []PumpInv
  BY PumpInit, PumpStep, PTL DEF Spec

\* PumpThread keeps its types, with any settings and any errors of the drive.
THEOREM TypeCorrect == Spec => []TypeOK
  <1>1. PumpInv => TypeOK
    BY DEF PumpInv
  <1> QED BY <1>1, PumpInvariant, PTL

\* A startup is queued until it is carried out, however it is deferred and retried.
THEOREM StartupIsKept == Spec => []StartupKept
  <1>1. PumpInv => StartupKept
    BY DEF PumpInv
  <1> QED BY <1>1, PumpInvariant, PTL

\* And however many outages it is retried in, it is queued at most as often as there
\* are attempts in each.
THEOREM StartupsStayBounded == Spec => []StartupsBounded
  <1>1. PumpInv => StartupsBounded
    <2> SUFFICES ASSUME PumpInv PROVE StartupsBounded
      OBVIOUS
    <2>1. /\ Cardinality(StartupsIn(queue)) \in Nat /\ attempts \in Nat
          /\ startups \in Nat /\ AutoRecoverAttempts * outages \in Nat
      BY StartupsFinite, AttemptsType, OutageWorth DEF PumpInv
    <2>2. Cardinality(StartupsIn(queue)) <= startups + AutoRecoverAttempts * outages
      BY <2>1 DEF PumpInv, Multiplied
    <2> QED BY <2>2, QueuedStartups DEF StartupsBounded
  <1> QED BY <1>1, PumpInvariant, PTL

-----------------------------------------------------------------------------
(* The trouble of the drive is reported in time *)

\* What is not reported is of a session without a fault.
FaultReports == fault # "none" => unreported = 0

\* The cycles of a silence and those left to its timeout.
SilenceCounted == ~link => remaining + unreported <= Timeout \/ unreported = 0

\* An error that is told of is the last one remembered, and all its cycles but the
\* first are counted.
ErrorCounted ==
    link /\ unreported # 0 =>
        /\ error \in AutoReset
        /\ lastError = error
        /\ unreported <= errorCount + 1
        /\ unreported <= ErrorLimit + 1

Timing == FaultReports /\ SilenceCounted /\ ErrorCounted

\* The counters are numbers, and the kinds of errors are apart.
LEMMA TimingType ==
    ASSUME TypeOK
    PROVE  /\ remaining \in Nat /\ remaining <= Timeout /\ unreported \in Nat
           /\ errorCount \in Nat /\ errorCount <= ErrorLimit + 1
           /\ fault \in {"none", "silence", "attempts", "startup", "drive"}
           /\ link \in BOOLEAN /\ error \in Errors \cup {"none"}
  BY Settings DEF TypeOK

\* A step that leaves the drive's trouble and all its counts alone.
LEMMA TroubleSame ==
    ASSUME Timing, UNCHANGED <<unreported, remaining, lastError, errorCount, link, error,
                               fault>>
    PROVE  Timing'
  BY DEF Timing, FaultReports, SilenceCounted, ErrorCounted

\* A step after which nothing is counted.
LEMMA TroubleOver ==
    ASSUME unreported' = 0
    PROVE  Timing'
  BY DEF Timing, FaultReports, SilenceCounted, ErrorCounted

\* A cycle that faults the CSC reports the trouble.
LEMMA FaultOver ==
    ASSUME Reported, fault' # "none"
    PROVE  Timing'
  BY TroubleOver DEF Reported

\* A cycle that goes on to its readout counts nothing yet.
LEMMA CheckKeepsTiming ==
    ASSUME Timing, Reported, at' = "read", fault' = fault,
           UNCHANGED <<remaining, lastError, errorCount, link>>,
           link \/ UNCHANGED error
    PROVE  Timing'
  <1>1. CASE unreported' = 0
    BY <1>1, TroubleOver
  <1>2. CASE unreported' # 0
    <2>1. unreported' = unreported /\ error' = error
      BY <1>2 DEF Reported, Published
    <2> QED BY <2>1, TroubleSame
  <1> QED BY <1>1, <1>2

\* A cycle the drive does not answer has used up one of those left to it,
LEMMA CatchKeepsTiming ==
    ASSUME TypeOK, Timing, Reported, ~link, UNCHANGED link, NEW sent, NEW pending,
           Catch(sent, pending)
    PROVE  Timing'
  <1>1. CASE fault' # "none"
    BY <1>1, FaultOver
  <1>2. CASE fault' = "none"
    <2>1. ~Expired /\ remaining' = remaining - 1
      BY <1>2, TimingType DEF Catch, Fail
    <2>2. unreported' \in {0, unreported, unreported + 1}
      BY DEF Reported
    <2>3. SilenceCounted'
      <3>1. remaining + unreported <= Timeout
        BY TimingType, Settings DEF Timing, SilenceCounted
      <3> QED BY <2>1, <2>2, <3>1, TimingType, Settings DEF SilenceCounted, Expired
    <2> QED BY <1>2, <2>3 DEF Timing, FaultReports, ErrorCounted
  <1> QED BY <1>1, <1>2

\* and one it answers with an error that is told of has counted it.
LEMMA ReadKeepsTiming ==
    ASSUME TypeOK, Timing, Reported, ReadSucceeds
    PROVE  Timing'
  <1>1. link /\ link' /\ error' = error
    BY DEF ReadSucceeds, drive
  <1>2. CASE unreported' = 0
    BY <1>2, TroubleOver
  <1>3. CASE unreported' # 0
    <2>1. fault' = "none" /\ error # "none" /\ unreported' \in {unreported, unreported + 1}
      BY <1>1, <1>3 DEF Reported, Published
    <2>2. error \in AutoReset /\ lastError' = error
      <3>1. error \notin NonResettable
        BY <2>1, TimingType, ErrorsAssumption DEF ReadSucceeds, Update, Fail
      <3>2. lastError' = error
        BY <1>1, <1>3 DEF Reported, Published
      <3> QED BY <2>1, <3>1, <3>2, TimingType DEF Errors
    <2>3. CASE error # lastError
      <3>1. unreported = 0
        BY <1>1, <2>3 DEF Timing, ErrorCounted
      <3>2. errorCount' = errorCount
        BY <2>1, <2>2, <2>3, ErrorsAssumption DEF ReadSucceeds, Update
      <3> QED BY <1>1, <2>1, <2>2, <3>1, <3>2, TimingType, Settings
              DEF Timing, FaultReports, SilenceCounted, ErrorCounted
    <2>4. CASE error = lastError
      <3>1. error \notin NonResettable /\ error # "none"
        BY <2>1, <2>2, ErrorsAssumption DEF Errors
      <3>2. /\ errorCount' = IF errorCount > ErrorLimit THEN errorCount ELSE errorCount + 1
            /\ IF errorCount' > ErrorLimit THEN Fail("drive") ELSE UNCHANGED fault
        BY <2>4, <3>1 DEF ReadSucceeds, Update
      <3>3. ~(errorCount' > ErrorLimit)
        BY <2>1, <3>2 DEF Fail
      <3>4. errorCount' = errorCount + 1 /\ errorCount + 1 <= ErrorLimit
        BY <3>2, <3>3, TimingType, Settings
      <3>5. unreported <= errorCount + 1
        BY <1>1, TimingType DEF Timing, ErrorCounted
      <3>6. unreported' <= errorCount' + 1 /\ unreported' <= ErrorLimit + 1
        BY <2>1, <3>4, <3>5, TimingType, Settings
      <3> QED BY <1>1, <2>1, <2>2, <3>6
              DEF Timing, FaultReports, SilenceCounted, ErrorCounted
    <2> QED BY <2>3, <2>4
  <1> QED BY <1>2, <1>3

\* Step by step: no retry, deferral or reset stops the counting.
LEMMA TimingStep ==
    ASSUME TypeOK, Timing, [Next]_vars
    PROVE  Timing'
  <1>1. ASSUME NEW r \in Requests, Ask(r) PROVE Timing'
    BY <1>1, TroubleSame DEF Ask, cycle, status, drive
  <1>2. CASE Restart
    BY <1>2, TroubleOver DEF Restart
  <1>3. CASE Cycle
    <2>1. Reported
      BY <1>3 DEF Cycle
    <2>2. CASE CheckNothing
      BY <2>1, <2>2, CheckKeepsTiming DEF CheckNothing, status, drive
    <2>3. CASE CheckSends
      BY <2>1, <2>3, CheckKeepsTiming DEF CheckSends, status
    <2>4. CASE CheckThrows
      BY <2>1, <2>4, CatchKeepsTiming DEF CheckThrows
    <2>5. CASE CheckDefers
      BY <2>1, <2>5, CheckKeepsTiming DEF CheckDefers, status, drive
    <2>6. CASE CheckGivesUp
      <3>1. fault' # "none"
        BY <2>6, TimingType DEF CheckGivesUp, Fail
      <3> QED BY <2>1, <3>1, FaultOver
    <2>7. CASE ReadSucceeds
      BY <2>1, <2>7, ReadKeepsTiming
    <2>8. CASE ReadThrows
      BY <2>1, <2>8, CatchKeepsTiming DEF ReadThrows, drive
    <2> QED BY <1>3, <2>2, <2>3, <2>4, <2>5, <2>6, <2>7, <2>8 DEF Cycle
  <1>4. CASE LinkChanges
    BY <1>4, TroubleOver DEF LinkChanges
  <1>5. ASSUME NEW e \in Errors, DriveTrips(e) PROVE Timing'
    <2>1. CASE link
      BY <1>5, <2>1, TroubleOver DEF DriveTrips
    <2>2. CASE ~link
      BY <1>5, <2>2 DEF DriveTrips, cycle, status, Timing, FaultReports, SilenceCounted,
                        ErrorCounted
    <2> QED BY <2>1, <2>2
  <1>6. CASE UNCHANGED vars
    BY <1>6, TroubleSame DEF vars, cycle, status, drive
  <1> QED BY <1>1, <1>2, <1>3, <1>4, <1>5, <1>6 DEF Next

\* In every state of the thread the cycles of a silence are counted against the timeout,
\* and those of an error against its limit, from the one on whose event is sent: an error
\* whose event is lost is not counted.
THEOREM TroubleIsCounted == Spec => []Timing
  <1>1. Init => Timing
    BY DEF Init, Timing, FaultReports, SilenceCounted, ErrorCounted
  <1>2. TypeOK /\ Timing /\ [Next]_vars => Timing'
    BY TimingStep
  <1> QED BY <1>1, <1>2, TypeCorrect, PTL DEF Spec

\* A silent drive faults the CSC within the timeout, for every timeout, every number of
\* attempts and every traffic of requests.
THEOREM SilenceIsReported == Spec => []SilenceInTime
  <1>1. TypeOK /\ Timing => SilenceInTime
    BY TimingType, Settings DEF Timing, SilenceCounted, SilenceInTime
  <1> QED BY <1>1, TroubleIsCounted, TypeCorrect, PTL

\* An error the drive keeps answering with faults the CSC at once, or within the error
\* limit from the cycle on whose event tells of it, for every set of errors that are reset
\* and of errors that are not.
THEOREM ErrorIsReported == Spec => []ErrorInTime
  <1>1. TypeOK /\ Timing => ErrorInTime
    BY TimingType, Settings, ErrorsAssumption DEF Timing, ErrorCounted, ErrorInTime
  <1> QED BY <1>1, TroubleIsCounted, TypeCorrect, PTL

-----------------------------------------------------------------------------
(* A startup is waited for only as long as there is work to do *)

\* The requests that the readout of a new error appends: its reset and a start.
Unseen == IF error \in AutoReset /\ error # lastError THEN 2 ELSE 0

\* The steps of the thread, while the drive answers, until it is in contact and has
\* sent all of the queue.
Work ==
    2 * ((3 - contacts) + Len(queue) + Unseen)
        + (IF at = "read" <=> InContact THEN 1 ELSE 0)

\* While the drive answers, no cycle gives the queue more to do than it has done:
\* deferring a startup brings the contact nearer which it waits for, and a reset is
\* appended once for an error whose event is sent.  Only a readout whose event is lost
\* shrinks nothing: it will append the reset again.
WorkShrinks ==
    [][Cycle /\ link /\ queue # <<>> /\ (at = "read" => lastError' = error)
            => Work' < Work]_vars

\* The parts of the work are numbers.
LEMMA WorkType ==
    ASSUME TypeOK
    PROVE  /\ contacts \in Nat /\ contacts <= 3 /\ InContact <=> contacts = 3
           /\ Len(queue) \in Nat /\ Unseen \in {0, 2}
           /\ at \in {"check", "read"} /\ Work \in Nat
  <1>1. contacts \in 0..3 /\ Len(queue) \in Nat /\ at \in {"check", "read"}
    BY DEF TypeOK
  <1>2. Unseen \in {0, 2}
    BY DEF Unseen
  <1> QED BY <1>1, <1>2 DEF Work, InContact

\* What the work is, of the parts as numbers.
LEMMA WorkIs ==
    ASSUME NEW c \in 0..3, c = 3 - contacts, NEW n \in Nat, n = Len(queue),
           NEW k \in Nat, k = Unseen, contacts \in 0..3
    PROVE  /\ at = "check" => Work = 2 * (c + n + k) + (IF c = 0 THEN 0 ELSE 1)
           /\ at = "read" => Work = 2 * (c + n + k) + (IF c = 0 THEN 1 ELSE 0)
  <1>1. InContact <=> c = 0
    BY DEF InContact
  <1>2. Work = 2 * (c + n + k) + (IF at = "read" <=> c = 0 THEN 1 ELSE 0)
    BY <1>1 DEF Work
  <1> QED BY <1>2

\* No contact is missing as soon as there are more than two.
LEMMA Contacts == \A x \in 0..3 : x > 2 <=> 3 - x = 0
  OBVIOUS

\* And the work there is next.
LEMMA WorkIsNext ==
    ASSUME NEW c \in 0..3, c = 3 - contacts', NEW n \in Nat, n = Len(queue'),
           NEW k \in Nat, k = Unseen', contacts' \in 0..3
    PROVE  /\ at' = "check" => Work' = 2 * (c + n + k) + (IF c = 0 THEN 0 ELSE 1)
           /\ at' = "read" => Work' = 2 * (c + n + k) + (IF c = 0 THEN 1 ELSE 0)
  <1>1. InContact' <=> c = 0
    <2>1. contacts' > 2 <=> 3 - contacts' = 0
      BY Contacts
    <2> QED BY <2>1 DEF InContact
  <1>2. Work' = 2 * ((3 - contacts') + Len(queue') + Unseen')
                    + (IF at' = "read" <=> InContact' THEN 1 ELSE 0)
    BY DEF Work
  <1> QED BY <1>1, <1>2

\* A check takes a request off the queue, or defers a startup that lacks contact.
LEMMA CheckWorks ==
    ASSUME TypeOK, queue # <<>>, CheckSends \/ CheckDefers \/ CheckGivesUp
    PROVE  Work' < Work
  <1>1. PICK n \in Nat : n = Len(queue)
    BY WorkType
  <1>2. n > 0 /\ Len(Tail(queue)) = n - 1 /\ Tail(queue) \in Seq(Requests)
    BY <1>1 DEF TypeOK
  <1>3. contacts' = contacts /\ at = "check" /\ at' = "read" /\ contacts \in 0..3
    BY DEF CheckSends, CheckDefers, CheckGivesUp, Checking, TypeOK
  <1>4. PICK k \in Nat, l \in Nat : k = Unseen /\ l = Unseen' /\ l <= k
    <2>1. lastError' = lastError /\ error' \in {error, "none"}
      BY DEF CheckSends, CheckDefers, CheckGivesUp, Execute, status, drive
    <2>2. Unseen' = Unseen \/ Unseen' = 0
      BY <2>1, ErrorsAssumption DEF Unseen, Errors
    <2> QED BY <2>2, WorkType
  <1>5. PICK c \in 0..3 : c = 3 - contacts
    BY <1>3
  <1>6. PICK m \in Nat : m = Len(queue') /\ (m = n - 1 \/ (m = n /\ c # 0))
    <2>1. CASE CheckDefers
      <3>1. Len(Append(Tail(queue), "STARTUP")) = Len(Tail(queue)) + 1
        BY <1>2
      <3>2. Len(queue') = n /\ ~InContact
        BY <1>1, <1>2, <2>1, <3>1 DEF CheckDefers, Sends
      <3> QED BY <1>3, <1>5, <3>2 DEF InContact
    <2>2. CASE CheckSends \/ CheckGivesUp
      BY <1>2, <2>2 DEF CheckSends, CheckGivesUp
    <2> QED BY <2>1, <2>2
  <1>7. Work = 2 * (c + n + k) + (IF c = 0 THEN 0 ELSE 1)
    BY <1>1, <1>3, <1>4, <1>5, WorkIs
  <1>8. Work' = 2 * (c + m + l) + (IF c = 0 THEN 1 ELSE 0)
    BY <1>3, <1>4, <1>5, <1>6, WorkIsNext
  <1> QED BY <1>2, <1>4, <1>6, <1>7, <1>8

\* A readout is a contact more, or the last step of a cycle that has sent something;
\* what it appends of an error was counted when the error came up.
LEMMA ReadWorks ==
    ASSUME TypeOK, ReadSucceeds, lastError' = error
    PROVE  Work' < Work
  <1>1. at = "read" /\ at' = "check" /\ error' = error /\ lastError' = error
    BY DEF ReadSucceeds, Reading, EndCycle, drive
  <1>2. PICK n \in Nat, k \in Nat : n = Len(queue) /\ k = Unseen
    BY WorkType
  <1>3. Unseen' = 0
    BY <1>1 DEF Unseen
  <1>4. PICK m \in Nat : m = Len(queue') /\ m <= n + k
    <2>1. CASE queue' = queue
      BY <1>2, <2>1
    <2>2. CASE error \in AutoReset /\ error # lastError /\ queue' = queue \o <<"RESET", "START">>
      <3>1. Len(queue \o <<"RESET", "START">>) = Len(queue) + 2
        BY DEF TypeOK, Requests
      <3>2. Unseen = 2
        BY <2>2 DEF Unseen
      <3> QED BY <1>2, <2>2, <3>1, <3>2
    <2> QED BY <2>1, <2>2 DEF ReadSucceeds, Update
  <1>5. contacts \in 0..3 /\ contacts' = IF contacts > 2 THEN contacts ELSE contacts + 1
    BY DEF ReadSucceeds, InContact, TypeOK
  <1>6. PICK c \in 0..3, d \in 0..3 :
            c = 3 - contacts /\ d = 3 - contacts' /\ d = (IF c = 0 THEN 0 ELSE c - 1)
    BY <1>5
  <1>7. Work = 2 * (c + n + k) + (IF c = 0 THEN 1 ELSE 0)
    BY <1>1, <1>2, <1>5, <1>6, WorkIs
  <1>8. Work' = 2 * (d + m + 0) + (IF d = 0 THEN 0 ELSE 1)
    BY <1>1, <1>3, <1>4, <1>5, <1>6, WorkIsNext
  <1>9. 2 * (d + m + 0) + (IF d = 0 THEN 0 ELSE 1) < 2 * (c + n + k) + (IF c = 0 THEN 1 ELSE 0)
    <2>1. CASE c = 0
      BY <1>4, <1>6, <2>1
    <2>2. CASE c # 0
      <3>1. d = c - 1
        BY <1>6, <2>2
      <3> QED BY <1>4, <2>2, <3>1
    <2> QED BY <2>1, <2>2
  <1> QED BY <1>7, <1>8, <1>9

\* With the bound on the silence of the drive, this is why a startup settles: while the
\* drive answers and its events are sent there is always less to do before it, and in a
\* lasting silence the CSC faults.
THEOREM WorkIsDone == Spec => WorkShrinks
  <1>1. TypeOK /\ [Next]_vars
            => [Cycle /\ link /\ queue # <<>> /\ (at = "read" => lastError' = error)
                    => Work' < Work]_vars
    <2> SUFFICES ASSUME TypeOK, Cycle, link, queue # <<>>, at = "read" => lastError' = error
                 PROVE  Work' < Work
      OBVIOUS
    <2>1. CASE ReadSucceeds
      BY <2>1, ReadWorks DEF ReadSucceeds, Reading
    <2> QED BY <2>1, CheckWorks DEF Cycle, CheckNothing, CheckThrows, ReadThrows
  <1> QED BY <1>1, TypeCorrect, PTL DEF Spec, WorkShrinks
=============================================================================
