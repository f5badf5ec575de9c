--------------------------- MODULE JobRunsProofs ---------------------------
(***************************************************************************)
(* Proofs about JobRuns for any occurrences, duties and firings: the shape   *)
(* of rows and firings, that a SUCCESS in the ledger is earned, and that one   *)
(* firing at a time executes an occurrence unless a run is slow.            *)
(***************************************************************************)
EXTENDS MCJobRuns, TLAPS

Rows == [status : {"NONE", "RUNNING", "SUCCESS", "FAILED"}, started : Nat,
         stale : BOOLEAN]
Firing == [step : {"find", "claim", "create", "raced", "take", "run", "worked",
                   "failed"},
           todo : Seq(Jobs) \ {<<>>}, seen : Rows]

RowInv == row \in [Jobs -> Rows]
WorkerInv == worker \in [Workers -> Firing \cup {Idle}]
CountInv ==
    /\ effects \in [Jobs -> Nat] /\ early \subseteq Jobs
    /\ failures \in 0..MaxFailures /\ crashes \in 0..MaxCrashes
    /\ slow \in 0..MaxSlow

\* A firing that is to record a success has seen the work carried out, and
\* what was carried out stays so.
WorkedInv ==
    \A w \in Workers : worker[w].step = "worked" => effects[Job(w)] > 0

JobRunsInv == RowInv /\ WorkerInv /\ CountInv /\ WorkedInv /\ SuccessIsEarned

LEMMA InitInv == Init => JobRunsInv
<1> SUFFICES ASSUME Init PROVE JobRunsInv
  OBVIOUS
<1>1. RowInv /\ SuccessIsEarned
  <2>1. PICK failed \in SUBSET Claimed : row = [j \in Jobs |->
            IF j \in failed THEN [NoRow EXCEPT !.status = "FAILED"] ELSE NoRow]
    BY DEF Init
  <2> DEFINE failedRow == [NoRow EXCEPT !.status = "FAILED"]
  <2>2. NoRow \in Rows /\ NoRow.status # "SUCCESS"
    BY DEF NoRow, Rows
  <2>3. failedRow \in Rows /\ failedRow.status # "SUCCESS"
    BY DEF NoRow, Rows
  <2> HIDE DEF failedRow
  <2>4. \A j \in Jobs : row[j] \in {NoRow, failedRow}
    BY <2>1 DEF failedRow
  <2>5. row \in [Jobs -> {NoRow, failedRow}]
    BY <2>1 DEF failedRow
  <2> QED
    BY <2>2, <2>3, <2>4, <2>5 DEF RowInv, SuccessIsEarned
<1>2. WorkerInv /\ WorkedInv
  BY DEF Init, WorkerInv, WorkedInv, Idle
<1>3. CountInv
  BY BoundsAssumption DEF Init, CountInv
<1> QED
  BY <1>1, <1>2, <1>3 DEF JobRunsInv

\* A firing that is under way has a job.
LEMMA JobFacts ==
    ASSUME JobRunsInv, NEW w \in Workers, worker[w].step # "idle"
    PROVE  worker[w] \in Firing /\ Job(w) \in Jobs
<1>1. worker[w] \in Firing
  BY DEF JobRunsInv, WorkerInv, Idle
<1>2. worker[w].todo \in Seq(Jobs) /\ worker[w].todo # <<>>
  BY <1>1 DEF Firing
<1> QED
  BY <1>1, <1>2 DEF Job

-----------------------------------------------------------------------------
(***************************************************************************)
(* What a step does to the firing: it moves on (Goto, with or without what   *)
(* it has read) or has done with its job (Done).                             *)
(***************************************************************************)
LEMMA GotoStep ==
    ASSUME JobRunsInv, NEW w \in Workers, worker[w].step # "idle",
           NEW step \in {"claim", "create", "raced", "take", "run", "worked", "failed"},
           Goto(w, step)
    PROVE  /\ WorkerInv' /\ Job(w)' = Job(w)
           /\ \A v \in Workers : /\ worker'[v].todo = worker[v].todo
                                 /\ v # w => worker'[v] = worker[v]
           /\ worker'[w].step = step
<1>1. worker[w] \in Firing
  BY JobFacts
<1> QED
  BY <1>1 DEF JobRunsInv, WorkerInv, Goto, Firing, Job

LEMMA DoneStep ==
    ASSUME JobRunsInv, NEW w \in Workers, worker[w].step # "idle", Done(w)
    PROVE  /\ WorkerInv'
           /\ worker'[w].step # "worked"
           /\ \A v \in Workers : v # w => worker'[v] = worker[v]
<1>1. worker[w] \in Firing
  BY JobFacts
<1> DEFINE todo == worker[w].todo
           next == [step |-> "find", todo |-> Tail(todo), seen |-> NoRow]
<1>2. todo \in Seq(Jobs) /\ todo # <<>>
  BY <1>1 DEF Firing
<1>3. Len(todo) # 1 => next \in Firing
  <2>1. Len(todo) # 1 => Tail(todo) \in Seq(Jobs) /\ Len(Tail(todo)) # 0
    BY <1>2
  <2>2. Len(<<>>) = 0
    OBVIOUS
  <2>3. NoRow \in Rows
    BY DEF NoRow, Rows
  <2> QED
    BY <2>1, <2>2, <2>3 DEF Firing
<1>4. worker' = [worker EXCEPT ![w] = IF Len(todo) = 1 THEN Idle ELSE next]
  BY DEF Done
<1> HIDE DEF next
<1>5. next.step = "find"
  BY DEF next
<1> QED
  BY <1>3, <1>4, <1>5 DEF JobRunsInv, WorkerInv, Idle

\* Rows that do not become SUCCESS and work that is not forgotten keep both
\* parts about success, if nobody comes to have worked by this step.
LEMMA SuccessFrame ==
    ASSUME JobRunsInv, RowInv', WorkerInv',
           \A j \in Jobs : row'[j].status = "SUCCESS" => row[j].status = "SUCCESS",
           UNCHANGED effects,
           \A v \in Workers : worker'[v].step = "worked" => worker'[v] = worker[v]
    PROVE  WorkedInv' /\ SuccessIsEarned'
BY DEF JobRunsInv, WorkedInv, SuccessIsEarned, Job

LEMMA ClaimedRow ==
    ASSUME JobRunsInv, NEW j \in Jobs, row' = [row EXCEPT ![j] = Running(j)]
    PROVE  /\ RowInv'
           /\ \A k \in Jobs : row'[k].status = "SUCCESS" => row[k].status = "SUCCESS"
<1>1. Running(j) \in Rows /\ Running(j).status = "RUNNING"
  BY DEF JobRunsInv, RowInv, Rows, Running
<1> QED
  BY <1>1 DEF JobRunsInv, RowInv
-----------------------------------------------------------------------------
LEMMA ClaimInv ==
    ASSUME JobRunsInv, NEW w \in Workers,
           Find(w) \/ Claim(w) \/ Create(w) \/ Raced(w) \/ Take(w)
    PROVE  JobRunsInv'
<1>1. worker[w].step # "idle" /\ UNCHANGED <<effects, early, bounds>>
  BY DEF Find, Claim, Create, Raced, Take
<1>2. Job(w) \in Jobs /\ worker[w] \in Firing
  BY <1>1, JobFacts
<1>3. \/ UNCHANGED row
      \/ row' = [row EXCEPT ![Job(w)] = Running(Job(w))]
  BY DEF Find, Claim, Create, Raced, Take
<1>4. /\ RowInv'
      /\ \A k \in Jobs : row'[k].status = "SUCCESS" => row[k].status = "SUCCESS"
  BY <1>2, <1>3, ClaimedRow DEF JobRunsInv, RowInv
<1>5. WorkerInv' /\ \A v \in Workers :
                      worker'[v].step = "worked" => worker'[v] = worker[v]
  <2>1. CASE Done(w)
    BY <1>1, <2>1, DoneStep
  <2>2. ASSUME NEW step \in {"create", "raced", "take", "run"}, Goto(w, step)
        PROVE  WorkerInv' /\ \A v \in Workers :
                      worker'[v].step = "worked" => worker'[v] = worker[v]
    BY <1>1, <2>2, GotoStep
  <2>3. CASE worker' = [worker EXCEPT ![w].step = "claim", ![w].seen = row[Job(w)]]
    BY <1>2, <2>3 DEF JobRunsInv, WorkerInv, RowInv, Firing
  <2>4. \/ Done(w)
        \/ \E step \in {"create", "raced", "take", "run"} : Goto(w, step)
        \/ worker' = [worker EXCEPT ![w].step = "claim", ![w].seen = row[Job(w)]]
    BY DEF Find, Claim, Create, Raced, Take
  <2> QED
    BY <2>1, <2>2, <2>3, <2>4
<1>6. WorkedInv' /\ SuccessIsEarned'
  BY <1>1, <1>4, <1>5, SuccessFrame
<1> QED
  BY <1>1, <1>4, <1>5, <1>6 DEF JobRunsInv, CountInv, bounds

LEMMA WorkInv ==
    ASSUME JobRunsInv, NEW w \in Workers, Work(w)
    PROVE  JobRunsInv'
<1>1. worker[w].step # "idle" /\ Job(w) \in Jobs
  BY JobFacts DEF Work
<1>2. /\ WorkerInv' /\ Job(w)' = Job(w)
      /\ \A v \in Workers : /\ worker'[v].todo = worker[v].todo
                            /\ v # w => worker'[v] = worker[v]
  BY <1>1, GotoStep DEF Work
<1>3. /\ effects' \in [Jobs -> Nat] /\ effects'[Job(w)] > 0
      /\ \A j \in Jobs : effects[j] > 0 => effects'[j] > 0
  BY <1>1 DEF Work, JobRunsInv, CountInv
<1>4. CountInv'
  <2>1. early' \subseteq Jobs
    BY <1>1 DEF Work, JobRunsInv, CountInv
  <2> QED
    BY <1>3, <2>1 DEF Work, bounds, JobRunsInv, CountInv
<1>5. RowInv' /\ SuccessIsEarned'
  BY <1>3 DEF Work, JobRunsInv, RowInv, SuccessIsEarned
<1>6. WorkedInv'
  <2> SUFFICES ASSUME NEW v \in Workers, worker'[v].step = "worked"
               PROVE  effects'[Job(v)'] > 0
    BY DEF WorkedInv
  <2>1. CASE v = w
    BY <1>2, <1>3, <2>1
  <2>2. CASE v # w
    <3>1. worker[v].step = "worked" /\ Job(v)' = Job(v)
      BY <1>2, <2>2 DEF Job
    <3>2. Job(v) \in Jobs
      BY <3>1, JobFacts
    <3> QED
      BY <1>3, <3>1, <3>2 DEF JobRunsInv, WorkedInv
  <2> QED
    BY <2>1, <2>2
<1> QED
  BY <1>2, <1>4, <1>5, <1>6 DEF JobRunsInv

\* What is recorded is a success only of a job that worked.
LEMMA RecordInv ==
    ASSUME JobRunsInv, NEW w \in Workers, NEW status \in {"SUCCESS", "FAILED"},
           worker[w].step \in {"worked", "failed"},
           status = "SUCCESS" => worker[w].step = "worked",
           Record(w, status), CountInv'
    PROVE  JobRunsInv'
<1>1. worker[w].step # "idle" /\ Job(w) \in Jobs
  BY JobFacts
<1>2. /\ WorkerInv'
      /\ \A v \in Workers : worker'[v].step = "worked" => worker'[v] = worker[v]
  BY <1>1, DoneStep DEF Record
<1>3. row' = [row EXCEPT ![Job(w)].status = status, ![Job(w)].stale = FALSE]
  BY DEF Record
<1>4. RowInv'
  BY <1>1, <1>3 DEF JobRunsInv, RowInv, Rows
<1>5. WorkedInv'
  BY <1>2 DEF Record, JobRunsInv, WorkedInv, Job
<1>6. SuccessIsEarned'
  <2> SUFFICES ASSUME NEW j \in Jobs, row'[j].status = "SUCCESS"
               PROVE  effects'[j] > 0
    BY DEF SuccessIsEarned
  <2>1. CASE j = Job(w) /\ status = "SUCCESS"
    BY <2>1 DEF Record, JobRunsInv, WorkedInv
  <2>2. CASE ~ (j = Job(w) /\ status = "SUCCESS")
    <3>1. row[j].status = "SUCCESS"
      BY <1>1, <1>3, <2>2 DEF JobRunsInv, RowInv, Rows
    <3> QED
      BY <3>1 DEF Record, JobRunsInv, SuccessIsEarned
  <2> QED
    BY <2>1, <2>2
<1> QED
  BY <1>2, <1>4, <1>5, <1>6 DEF JobRunsInv

LEMMA EndInv ==
    ASSUME JobRunsInv, NEW w \in Workers,
           \/ RecordSuccess(w) \/ RecordSuccessFails(w)
           \/ RecordFailure(w) \/ RecordFailureFails(w) \/ WorkFails(w)
    PROVE  JobRunsInv'
<1>1. CountInv'
  BY BoundsAssumption DEF RecordSuccess, RecordSuccessFails, RecordFailure,
        RecordFailureFails, WorkFails, Record, bounds, JobRunsInv, CountInv
<1>2. CASE RecordSuccess(w)
  BY <1>1, <1>2, RecordInv DEF RecordSuccess
<1>3. CASE RecordSuccessFails(w)
  BY <1>1, <1>3, RecordInv DEF RecordSuccessFails
<1>4. CASE RecordFailure(w)
  BY <1>1, <1>4, RecordInv DEF RecordFailure
<1>5. CASE RecordFailureFails(w)
  <2>1. WorkerInv' /\ \A v \in Workers :
                        worker'[v].step = "worked" => worker'[v] = worker[v]
    BY <1>5, DoneStep DEF RecordFailureFails
  <2>2. RowInv' /\ UNCHANGED <<row, effects>>
    BY <1>5 DEF RecordFailureFails, JobRunsInv, RowInv
  <2> QED
    BY <1>1, <2>1, <2>2, SuccessFrame DEF JobRunsInv
<1>6. CASE WorkFails(w)
  <2>1. WorkerInv' /\ \A v \in Workers :
                        worker'[v].step = "worked" => worker'[v] = worker[v]
    BY <1>6, GotoStep DEF WorkFails
  <2>2. RowInv' /\ UNCHANGED <<row, effects>>
    BY <1>6 DEF WorkFails, JobRunsInv, RowInv
  <2> QED
    BY <1>1, <2>1, <2>2, SuccessFrame DEF JobRunsInv
<1> QED
  BY <1>2, <1>3, <1>4, <1>5, <1>6

LEMMA WorldInv ==
    ASSUME JobRunsInv,
           \/ \E w \in Workers : Crash(w) \/ \E duty \in Duties : Fire(w, duty)
           \/ \E j \in Jobs : Stale(j)
           \/ UNCHANGED vars
    PROVE  JobRunsInv'
<1>1. ASSUME NEW w \in Workers, Crash(w) PROVE JobRunsInv'
  <2>1. WorkerInv' /\ \A v \in Workers :
                        worker'[v].step = "worked" => worker'[v] = worker[v]
    BY <1>1 DEF Crash, JobRunsInv, WorkerInv, Idle
  <2>2. RowInv' /\ CountInv' /\ UNCHANGED <<row, effects>>
    BY <1>1, BoundsAssumption DEF Crash, JobRunsInv, RowInv, CountInv
  <2> QED
    BY <2>1, <2>2, SuccessFrame DEF JobRunsInv
<1>2. ASSUME NEW w \in Workers, NEW duty \in Duties, Fire(w, duty)
      PROVE  JobRunsInv'
  <2> DEFINE next == [step |-> "find", todo |-> duty, seen |-> NoRow]
  <2>1. next \in Firing /\ next.step = "find"
    BY DutiesAssumption DEF Firing, Rows, NoRow
  <2>2. worker' = [worker EXCEPT ![w] = next]
    BY <1>2 DEF Fire
  <2> HIDE DEF next
  <2>3. WorkerInv' /\ \A v \in Workers :
                        worker'[v].step = "worked" => worker'[v] = worker[v]
    BY <2>1, <2>2 DEF JobRunsInv, WorkerInv
  <2>4. RowInv' /\ CountInv' /\ UNCHANGED <<row, effects>>
    BY <1>2 DEF Fire, bounds, JobRunsInv, RowInv, CountInv
  <2> QED
    BY <2>3, <2>4, SuccessFrame DEF JobRunsInv
<1>3. ASSUME NEW j \in Jobs, Stale(j) PROVE JobRunsInv'
  <2>1. RowInv' /\ \A k \in Jobs : row'[k].status = row[k].status
    BY <1>3 DEF Stale, JobRunsInv, RowInv, Rows
  <2>2. CountInv'
    BY <1>3, BoundsAssumption DEF Stale, JobRunsInv, CountInv
  <2>3. WorkerInv' /\ UNCHANGED <<worker, effects>>
    BY <1>3 DEF Stale, JobRunsInv, WorkerInv
  <2> QED
    BY <2>1, <2>2, <2>3, SuccessFrame DEF JobRunsInv
<1>4. CASE UNCHANGED vars
  BY <1>4 DEF vars, bounds, JobRunsInv, RowInv, WorkerInv, CountInv, WorkedInv,
              SuccessIsEarned, Job
<1> QED
  BY <1>1, <1>2, <1>3, <1>4

LEMMA NextInv == JobRunsInv /\ [Next]_vars => JobRunsInv'
  BY ClaimInv, WorkInv, EndInv, WorldInv DEF Next, Step

\* The inductive invariant: rows, firings, and what recording a success rests on.
THEOREM Invariance == Spec => []JobRunsInv
  BY InitInv, NextInv, PTL DEF Spec
-----------------------------------------------------------------------------
\* Rows and firings keep their shape, and the bounds are kept (claimRun).
THEOREM TypeCorrect == Spec => []TypeOK
<1>1. JobRunsInv => TypeOK
  BY DEF JobRunsInv, RowInv, Rows, WorkerInv, Firing, Idle, CountInv, TypeOK
<1> QED
  BY <1>1, Invariance, PTL

\* However firings crash, fail, overlap and take over from each other, the ledger
\* says SUCCESS only of a job that was carried out (runForBuilding).
THEOREM EarnedSuccess == Spec => []SuccessIsEarned
<1>1. JobRunsInv => SuccessIsEarned
  BY DEF JobRunsInv
<1> QED
  BY <1>1, Invariance, PTL
-----------------------------------------------------------------------------
(***************************************************************************)
(* One firing at a time.  A firing that is to claim a RUNNING row saw it     *)
(* stale, and the row is so still unless it was stamped anew; and as long as *)
(* no run is slow, the row of a job that is being executed is not stale.     *)
(***************************************************************************)
Runs(v) == worker[v].step \in {"run", "worked", "failed"}

SeenInv ==
    \A v \in Workers : worker[v].step = "claim" =>
        /\ CanRetry(worker[v].seen)
        /\ worker[v].seen.status = "RUNNING" =>
              /\ row[Job(v)].started >= worker[v].seen.started
              /\ /\ row[Job(v)].started = worker[v].seen.started
                 /\ row[Job(v)].status = "RUNNING"
                 => row[Job(v)].stale

LiveInv ==
    /\ \A v \in Workers : worker[v].step # "take"
    /\ \A v \in Workers : Runs(v) => /\ row[Job(v)].status = "RUNNING"
                                     /\ ~ row[Job(v)].stale
    /\ \A u, v \in Workers : Runs(u) /\ Runs(v) /\ Job(u) = Job(v) => u = v

ExclusiveInv == SeenInv /\ (slow = 0 /\ ~tookOver => LiveInv)

\* A row is stamped anew, or comes to be RUNNING and fresh in no other way.
RowsGoOn ==
    \A j \in Jobs :
        \/ row'[j].started > row[j].started
        \/ /\ row'[j].started = row[j].started
           /\ row'[j].status = "RUNNING" =>
                 row[j].status = "RUNNING" /\ (row[j].stale => row'[j].stale)

LEMMA RowsStep ==
    ASSUME JobRunsInv, [Next]_vars
    PROVE  RowsGoOn
<1>1. ASSUME NEW w \in Workers, worker[w].step # "idle",
             row' = [row EXCEPT ![Job(w)] = Running(Job(w))]
      PROVE  RowsGoOn
  <2>1. Job(w) \in Jobs
    BY <1>1, JobFacts
  <2>2. row[Job(w)].started \in Nat
    BY <2>1 DEF JobRunsInv, RowInv, Rows
  <2>3. row'[Job(w)].started > row[Job(w)].started
    BY <1>1, <2>1, <2>2 DEF JobRunsInv, RowInv, Running
  <2>4. \A j \in Jobs : j # Job(w) => row'[j] = row[j]
    BY <1>1 DEF JobRunsInv, RowInv
  <2> QED
    BY <2>3, <2>4 DEF RowsGoOn
<1>2. ASSUME NEW w \in Workers, worker[w].step # "idle",
             NEW status \in {"SUCCESS", "FAILED"}, Record(w, status)
      PROVE  RowsGoOn
  <2>1. Job(w) \in Jobs
    BY <1>2, JobFacts
  <2> QED
    BY <1>2, <2>1 DEF Record, RowsGoOn, JobRunsInv, RowInv, Rows
<1>3. ASSUME NEW j \in Jobs, Stale(j)
      PROVE  RowsGoOn
  BY <1>3 DEF Stale, RowsGoOn, JobRunsInv, RowInv, Rows
<1>4. CASE UNCHANGED row
  BY <1>4 DEF RowsGoOn
<1>5. ASSUME NEW w \in Workers, Step(w)
      PROVE  RowsGoOn
  BY <1>1, <1>2, <1>4, <1>5 DEF Step, Find, Claim, Create, Raced, Take, Work, WorkFails,
     RecordSuccess, RecordSuccessFails, RecordFailure, RecordFailureFails
<1> QED
  BY <1>3, <1>4, <1>5 DEF Next, Crash, Fire, vars

\* Who comes to claim has read the row just now.
LEMMA SeenStep ==
    ASSUME JobRunsInv, SeenInv, RowsGoOn, RowInv',
           \A v \in Workers : worker'[v].step = "claim" =>
              \/ worker'[v] = worker[v]
              \/ /\ CanRetry(row[Job(v)]) /\ Job(v)' = Job(v) /\ Job(v) \in Jobs
                 /\ worker'[v].seen = row[Job(v)] /\ UNCHANGED row
    PROVE  SeenInv'
<1> SUFFICES ASSUME NEW v \in Workers, worker'[v].step = "claim"
             PROVE  /\ CanRetry(worker'[v].seen)
                    /\ worker'[v].seen.status = "RUNNING" =>
                         /\ row'[Job(v)'].started >= worker'[v].seen.started
                         /\ /\ row'[Job(v)'].started = worker'[v].seen.started
                            /\ row'[Job(v)'].status = "RUNNING"
                            => row'[Job(v)'].stale
  BY DEF SeenInv, CanRetry
<1>1. CASE worker'[v] = worker[v]
  <2>1. Job(v)' = Job(v) /\ Job(v) \in Jobs /\ worker[v] \in Firing
    BY <1>1, JobFacts DEF Job
  <2> DEFINE j == Job(v)
             seen == worker[v].seen
  <2>2. CanRetry(seen)
    BY <1>1 DEF SeenInv
  <2>3. ASSUME seen.status = "RUNNING"
        PROVE  /\ row[j].started >= seen.started
               /\ row[j].started = seen.started /\ row[j].status = "RUNNING"
                    => row[j].stale
    BY <1>1, <2>3 DEF SeenInv
  <2>4. seen.started \in Nat /\ row[j].started \in Nat
    BY <2>1 DEF Firing, Rows, JobRunsInv, RowInv
  <2>5. \/ row'[j].started > row[j].started
        \/ /\ row'[j].started = row[j].started
           /\ row'[j].status = "RUNNING" =>
                 row[j].status = "RUNNING" /\ (row[j].stale => row'[j].stale)
    BY <2>1 DEF RowsGoOn
  <2>6. row'[j].started \in Nat
    BY <2>1 DEF RowInv, Rows
  <2> HIDE DEF j, seen
  <2>7. ASSUME seen.status = "RUNNING"
        PROVE  /\ row'[j].started >= seen.started
               /\ row'[j].started = seen.started /\ row'[j].status = "RUNNING"
                    => row'[j].stale
    <3>1. CASE row'[j].started = row[j].started
      BY <2>3, <2>4, <2>5, <2>7, <3>1
    <3>2. CASE row'[j].started > row[j].started
      BY <2>3, <2>4, <2>6, <2>7, <3>2
    <3> QED
      BY <2>5, <3>1, <3>2
  <2> QED
    BY <1>1, <2>1, <2>2, <2>7 DEF j, seen
<1>2. CASE worker'[v] # worker[v]
  <2>1. /\ CanRetry(row[Job(v)]) /\ Job(v)' = Job(v) /\ Job(v) \in Jobs
        /\ worker'[v].seen = row[Job(v)] /\ UNCHANGED row
    BY <1>2
  <2>2. row[Job(v)].started \in Nat
    BY <2>1 DEF JobRunsInv, RowInv, Rows
  <2> QED
    BY <2>1, <2>2 DEF CanRetry
<1> QED
  BY <1>1, <1>2

LEMMA SeenNext ==
    ASSUME JobRunsInv, SeenInv, [Next]_vars
    PROVE  SeenInv'
<1> DEFINE Fresh(v) ==
             \/ worker'[v] = worker[v]
             \/ /\ CanRetry(row[Job(v)]) /\ Job(v)' = Job(v) /\ Job(v) \in Jobs
                /\ worker'[v].seen = row[Job(v)] /\ UNCHANGED row
           Claims == \A v \in Workers : worker'[v].step = "claim" => Fresh(v)
<1>1. ASSUME NEW w \in Workers, worker[w].step # "idle", Done(w)
      PROVE  Claims
  <2> DEFINE next == [step |-> "find", todo |-> Tail(worker[w].todo), seen |-> NoRow]
  <2>1. next.step # "claim" /\ Idle.step # "claim"
    BY DEF Idle
  <2>2. worker' = [worker EXCEPT ![w] = IF Len(worker[w].todo) = 1 THEN Idle ELSE next]
    BY <1>1 DEF Done
  <2> HIDE DEF next
  <2>3. worker'[w].step # "claim" /\ \A v \in Workers : v # w => worker'[v] = worker[v]
    BY <2>1, <2>2 DEF JobRunsInv, WorkerInv
  <2> QED
    BY <2>3
<1>2. ASSUME NEW w \in Workers, worker[w].step # "idle",
             NEW step \in {"create", "raced", "take", "run", "worked", "failed"},
             Goto(w, step)
      PROVE  Claims
  BY <1>2, GotoStep
<1>3. ASSUME NEW w \in Workers, Find(w)
      PROVE  Claims
  <2>1. CASE worker' = [worker EXCEPT ![w].step = "claim", ![w].seen = row[Job(w)]]
    <3>1. Job(w) \in Jobs /\ worker[w] \in Firing
      BY <1>3, JobFacts DEF Find
    <3>2. CanRetry(row[Job(w)]) /\ UNCHANGED row
      <4>1. worker'[w].step = "claim"
        BY <2>1, <3>1 DEF JobRunsInv, WorkerInv, Firing
      <4>2. ~ Done(w)
        BY <1>1, <1>3, <2>1, <4>1, DoneStep DEF Find, Done, JobRunsInv, WorkerInv, Idle
      <4>3. ~ Goto(w, "create")
        BY <3>1, <4>1 DEF Goto, JobRunsInv, WorkerInv, Firing
      <4> QED
        BY <1>3, <4>2, <4>3 DEF Find
    <3>3. worker'[w].seen = row[Job(w)] /\ worker'[w].todo = worker[w].todo
      BY <2>1, <3>1 DEF JobRunsInv, WorkerInv, Firing
    <3>4. \A v \in Workers : v # w => worker'[v] = worker[v]
      BY <2>1 DEF JobRunsInv, WorkerInv
    <3> QED
      BY <3>1, <3>2, <3>3, <3>4 DEF Job
  <2>2. \/ Done(w) \/ Goto(w, "create")
        \/ worker' = [worker EXCEPT ![w].step = "claim", ![w].seen = row[Job(w)]]
    BY <1>3 DEF Find
  <2> QED
    BY <1>1, <1>2, <1>3, <2>1, <2>2 DEF Find
<1>4. ASSUME NEW w \in Workers, Step(w)
      PROVE  Claims
  <2> HIDE DEF Claims
  <2> QED
    BY <1>1, <1>2, <1>3, <1>4 DEF Step, Claim, Create, Raced, Take, Work, WorkFails,
       RecordSuccess, RecordSuccessFails, RecordFailure, RecordFailureFails, Record
<1>5. ASSUME NEW w \in Workers, Crash(w) \/ \E duty \in Duties : Fire(w, duty)
      PROVE  Claims
  <2>1. worker'[w].step # "claim" /\ \A v \in Workers : v # w => worker'[v] = worker[v]
    BY <1>5 DEF Crash, Fire, JobRunsInv, WorkerInv, Idle
  <2> QED
    BY <2>1
<1>6. ASSUME worker' = worker
      PROVE  Claims
  <2>1. \A v \in Workers : worker'[v] = worker[v]
    BY <1>6
  <2> QED
    BY <2>1
<1>7. Claims
  <2> HIDE DEF Claims
  <2>1. \/ \E w \in Workers :
              Step(w) \/ Crash(w) \/ \E duty \in Duties : Fire(w, duty)
        \/ worker' = worker
    BY DEF Next, Stale, vars
  <2> QED
    BY <1>4, <1>5, <1>6, <2>1
<1>8. RowInv' /\ RowsGoOn
  BY NextInv, RowsStep DEF JobRunsInv
<1> QED
  BY <1>7, <1>8, SeenStep
-----------------------------------------------------------------------------
\* Whoever executes a job was executing it before, and its row is left alone.
LEMMA LiveKeep ==
    ASSUME LiveInv, \A v \in Workers : worker'[v].step # "take",
           \A v \in Workers : Runs(v)' =>
              /\ Runs(v) /\ Job(v)' = Job(v)
              /\ row'[Job(v)].status = row[Job(v)].status
              /\ row'[Job(v)].stale = row[Job(v)].stale
    PROVE  LiveInv'
  BY DEF LiveInv

\* A firing begins to execute a job that nobody executes.
LEMMA LiveClaim ==
    ASSUME JobRunsInv, LiveInv, \A v \in Workers : worker'[v].step # "take",
           NEW w \in Workers, worker[w].step # "idle", Goto(w, "run"),
           row' = [row EXCEPT ![Job(w)] = Running(Job(w))],
           \A v \in Workers : Runs(v) => Job(v) # Job(w)
    PROVE  LiveInv'
<1>1. Job(w) \in Jobs /\ Job(w)' = Job(w)
  BY JobFacts, GotoStep
<1>2. \A v \in Workers : v # w => (worker'[v] = worker[v] /\ Job(v)' = Job(v))
  BY GotoStep DEF Job
<1>3. row'[Job(w)].status = "RUNNING" /\ ~ row'[Job(w)].stale
  BY <1>1 DEF JobRunsInv, RowInv, Running
<1>4. \A j \in Jobs : j # Job(w) => row'[j] = row[j]
  BY DEF JobRunsInv, RowInv
<1>5. \A v \in Workers : Runs(v) => Job(v) \in Jobs
  BY JobFacts DEF Runs
<1>6. \A v \in Workers : v # w /\ Runs(v)' => Runs(v)
  BY <1>2 DEF Runs
<1>7. \A v \in Workers : Runs(v)' => /\ row'[Job(v)'].status = "RUNNING"
                                     /\ ~ row'[Job(v)'].stale
  <2> TAKE v \in Workers
  <2>1. CASE v = w
    BY <1>1, <1>3, <2>1
  <2>2. CASE v # w
    BY <1>2, <1>4, <1>5, <1>6, <2>2 DEF LiveInv
  <2> QED
    BY <2>1, <2>2
<1>8. \A u, v \in Workers : Runs(u)' /\ Runs(v)' /\ Job(u)' = Job(v)' => u = v
  BY <1>1, <1>2, <1>6 DEF LiveInv
<1> QED
  BY <1>7, <1>8 DEF LiveInv

\* The row a firing may claim, or take for new, is that of a job nobody executes.
LEMMA ClaimedIsFree ==
    ASSUME JobRunsInv, SeenInv, LiveInv, NEW w \in Workers,
           Claim(w) \/ Create(w), Goto(w, "run"),
           row' = [row EXCEPT ![Job(w)] = Running(Job(w))]
    PROVE  /\ \A v \in Workers : Runs(v) => Job(v) # Job(w)
           /\ row[Job(w)].status # "SUCCESS"
<1>1. worker[w] \in Firing /\ Job(w) \in Jobs
  BY JobFacts DEF Claim, Create
<1>2. worker'[w].step = "run"
  BY <1>1 DEF Goto, JobRunsInv, WorkerInv, Firing
<1>3. \A v \in Workers : Runs(v) /\ Job(v) = Job(w) =>
         row[Job(w)].status = "RUNNING" /\ ~ row[Job(w)].stale
  BY DEF LiveInv
<1>4. CASE Create(w)
  <2>1. ~ Goto(w, "raced")
    BY <1>1, <1>2 DEF Goto, JobRunsInv, WorkerInv, Firing
  <2>2. row[Job(w)].status = "NONE"
    BY <1>4, <2>1 DEF Create
  <2> QED
    BY <1>3, <2>2
<1>5. CASE Claim(w)
  <2>1. ~ Done(w)
    BY <1>1, <1>2 DEF Done, JobRunsInv, WorkerInv, Firing, Idle
  <2>2. /\ row[Job(w)].status = worker[w].seen.status
        /\ worker[w].seen.status = "RUNNING" =>
              row[Job(w)].started = worker[w].seen.started
    BY <1>5, <2>1 DEF Claim
  <2>3. /\ CanRetry(worker[w].seen)
        /\ worker[w].seen.status = "RUNNING" =>
              (/\ row[Job(w)].started = worker[w].seen.started
               /\ row[Job(w)].status = "RUNNING"
               => row[Job(w)].stale)
    BY <1>5 DEF Claim, SeenInv
  <2> QED
    BY <1>3, <2>2, <2>3 DEF CanRetry
<1> QED
  BY <1>4, <1>5

\* A step that leaves the rows alone and lets nobody begin to execute a job.
LEMMA QuietStep ==
    ASSUME LiveInv, \A v \in Workers : worker'[v].step # "take", row' = row,
           \A v \in Workers : Runs(v)' => Runs(v) /\ Job(v)' = Job(v)
    PROVE  LiveInv' /\ \A j \in Jobs : row[j].status = "SUCCESS" => row'[j] = row[j]
<1>1. LiveInv'
  BY LiveKeep
<1> QED
  BY <1>1

\* What a firing that is done with its job leaves running.
LEMMA DoneRuns ==
    ASSUME JobRunsInv, NEW w \in Workers, worker[w].step # "idle", Done(w)
    PROVE  /\ ~ Runs(w)'
           /\ \A v \in Workers : Runs(v)' => Runs(v) /\ Job(v)' = Job(v) /\ v # w
<1> DEFINE next == [step |-> "find", todo |-> Tail(worker[w].todo), seen |-> NoRow]
<1>1. next.step = "find" /\ Idle.step = "idle"
  BY DEF Idle
<1>2. worker' = [worker EXCEPT ![w] = IF Len(worker[w].todo) = 1 THEN Idle ELSE next]
  BY DEF Done
<1> HIDE DEF next
<1>3. worker'[w].step \in {"find", "idle"}
  BY <1>1, <1>2 DEF JobRunsInv, WorkerInv
<1>4. \A v \in Workers : v # w => worker'[v] = worker[v]
  BY <1>2 DEF JobRunsInv, WorkerInv
<1> QED
  BY <1>3, <1>4 DEF Runs, Job

\* The same of a firing that moves on.
LEMMA GotoRuns ==
    ASSUME JobRunsInv, NEW w \in Workers, worker[w].step # "idle",
           NEW step \in {"claim", "create", "raced", "take", "run", "worked", "failed"},
           Goto(w, step), step \in {"run", "worked", "failed"} => Runs(w)
    PROVE  \A v \in Workers : Runs(v)' => Runs(v) /\ Job(v)' = Job(v)
<1>1. /\ Job(w)' = Job(w) /\ worker'[w].step = step
      /\ \A v \in Workers : v # w => worker'[v] = worker[v]
  BY GotoStep
<1>2. Runs(w)' => Runs(w)
  BY <1>1 DEF Runs
<1>3. \A v \in Workers : v # w => (Runs(v)' => Runs(v)) /\ Job(v)' = Job(v)
  BY <1>1 DEF Runs, Job
<1> QED
  BY <1>1, <1>2, <1>3

\* What a claim does, in the cases of its outcome.
LEMMA ClaimLive ==
    ASSUME JobRunsInv, SeenInv, LiveInv, \A v \in Workers : worker'[v].step # "take",
           NEW w \in Workers, Find(w) \/ Claim(w) \/ Create(w) \/ Raced(w) \/ Take(w)
    PROVE  LiveInv' /\ SuccessIsKept
<1>1. worker[w].step # "idle" /\ UNCHANGED effects
  BY DEF Find, Claim, Create, Raced, Take
<1>2. worker[w] \in Firing /\ Job(w) \in Jobs
  BY <1>1, JobFacts
<1>3. ~ Take(w)
  BY DEF Take, LiveInv
<1>4. ~ Goto(w, "take")
  <2>1. Goto(w, "take") => worker'[w].step = "take"
    BY <1>2 DEF Goto, JobRunsInv, WorkerInv, Firing
  <2> QED
    BY <2>1
<1>5. CASE (Claim(w) \/ Create(w)) /\ Goto(w, "run")
           /\ row' = [row EXCEPT ![Job(w)] = Running(Job(w))]
  <2>1. /\ \A v \in Workers : Runs(v) => Job(v) # Job(w)
        /\ row[Job(w)].status # "SUCCESS"
    BY <1>5, ClaimedIsFree
  <2>2. LiveInv'
    BY <1>1, <1>5, <2>1, LiveClaim
  <2>3. SuccessIsKept
    BY <1>1, <1>5, <2>1 DEF SuccessIsKept, JobRunsInv, RowInv
  <2> QED
    BY <2>2, <2>3
<1>6. CASE row' = row /\ Done(w)
  <2>1. LiveInv'
    BY <1>1, <1>6, DoneRuns, QuietStep
  <2> QED
    BY <1>1, <1>6, <2>1 DEF SuccessIsKept
<1>7. CASE row' = row /\ (Goto(w, "create") \/ Goto(w, "raced"))
  <2>1. \A v \in Workers : Runs(v)' => Runs(v) /\ Job(v)' = Job(v)
    BY <1>1, <1>7, GotoRuns
  <2>2. LiveInv'
    BY <1>7, <2>1, QuietStep
  <2> QED
    BY <1>1, <1>7, <2>2 DEF SuccessIsKept
<1>8. CASE row' = row
           /\ worker' = [worker EXCEPT ![w].step = "claim", ![w].seen = row[Job(w)]]
  <2>1. worker'[w].step = "claim" /\ \A v \in Workers : v # w => worker'[v] = worker[v]
    BY <1>2, <1>8 DEF JobRunsInv, WorkerInv, Firing
  <2>2. \A v \in Workers : Runs(v)' => Runs(v) /\ Job(v)' = Job(v)
    BY <2>1 DEF Runs, Job
  <2>3. LiveInv'
    BY <1>8, <2>2, QuietStep
  <2> QED
    BY <1>1, <1>8, <2>3 DEF SuccessIsKept
<1>9. \/ /\ Claim(w) \/ Create(w)
         /\ Goto(w, "run")
         /\ row' = [row EXCEPT ![Job(w)] = Running(Job(w))]
      \/ row' = row /\ Done(w)
      \/ row' = row /\ (Goto(w, "create") \/ Goto(w, "raced"))
      \/ /\ row' = row
         /\ worker' = [worker EXCEPT ![w].step = "claim", ![w].seen = row[Job(w)]]
  BY <1>3, <1>4 DEF Find, Claim, Create, Raced
<1> QED
  BY <1>5, <1>6, <1>7, <1>8, <1>9

LEMMA RunLive ==
    ASSUME JobRunsInv, LiveInv, \A v \in Workers : worker'[v].step # "take",
           NEW w \in Workers,
           \/ Work(w) \/ WorkFails(w) \/ RecordSuccess(w) \/ RecordSuccessFails(w)
           \/ RecordFailure(w) \/ RecordFailureFails(w)
    PROVE  LiveInv' /\ SuccessIsKept
<1>1. Runs(w) /\ worker[w].step # "idle"
  BY DEF Work, WorkFails, RecordSuccess, RecordSuccessFails, RecordFailure,
         RecordFailureFails, Runs
<1>2. Job(w) \in Jobs /\ row[Job(w)].status = "RUNNING"
  BY <1>1, JobFacts DEF LiveInv
<1>3. ASSUME NEW step \in {"worked", "failed"}, Goto(w, step), row' = row,
             \A j \in Jobs : j # Job(w) => effects'[j] = effects[j]
      PROVE  LiveInv' /\ SuccessIsKept
  <2>1. \A v \in Workers : Runs(v)' => Runs(v) /\ Job(v)' = Job(v)
    BY <1>1, <1>3, GotoRuns
  <2>2. LiveInv'
    BY <1>3, <2>1, QuietStep
  <2> QED
    BY <1>2, <1>3, <2>2 DEF SuccessIsKept
<1>4. ASSUME Done(w), \A j \in Jobs : j # Job(w) => row'[j] = row[j],
             effects' = effects
      PROVE  LiveInv' /\ SuccessIsKept
  <2>1. \A v \in Workers : Runs(v)' => Runs(v) /\ Job(v)' = Job(v) /\ v # w
    BY <1>1, <1>4, DoneRuns
  <2>2. \A v \in Workers : Runs(v)' => Job(v) # Job(w) /\ Job(v) \in Jobs
    BY <1>1, <2>1, JobFacts DEF LiveInv, Runs
  <2>3. LiveInv'
    BY <1>4, <2>1, <2>2, LiveKeep
  <2> QED
    BY <1>2, <1>4, <2>3 DEF SuccessIsKept
<1>5. CASE Work(w)
  <2>1. \A j \in Jobs : j # Job(w) => effects'[j] = effects[j]
    BY <1>5 DEF Work, JobRunsInv, CountInv
  <2> QED
    BY <1>3, <1>5, <2>1 DEF Work
<1>6. CASE WorkFails(w)
  BY <1>3, <1>6 DEF WorkFails
<1>7. CASE \E status \in {"SUCCESS", "FAILED"} : Record(w, status)
  <2>1. \A j \in Jobs : j # Job(w) => row'[j] = row[j]
    BY <1>7 DEF Record, JobRunsInv, RowInv
  <2> QED
    BY <1>4, <1>7, <2>1 DEF Record
<1>8. CASE RecordFailureFails(w)
  BY <1>4, <1>8 DEF RecordFailureFails
<1> QED
  BY <1>5, <1>6, <1>7, <1>8 DEF RecordSuccess, RecordSuccessFails, RecordFailure

LEMMA WorldLive ==
    ASSUME JobRunsInv, LiveInv, \A v \in Workers : worker'[v].step # "take", slow' = 0,
           \/ \E w \in Workers : Crash(w) \/ \E duty \in Duties : Fire(w, duty)
           \/ \E j \in Jobs : Stale(j)
           \/ UNCHANGED vars
    PROVE  LiveInv' /\ SuccessIsKept
<1>1. ASSUME NEW w \in Workers, Crash(w) \/ \E duty \in Duties : Fire(w, duty)
      PROVE  LiveInv' /\ SuccessIsKept
  <2>1. /\ worker'[w].step \in {"idle", "find"}
        /\ \A v \in Workers : v # w => worker'[v] = worker[v]
    BY <1>1 DEF Crash, Fire, JobRunsInv, WorkerInv, Idle
  <2>2. \A v \in Workers : Runs(v)' => Runs(v) /\ Job(v)' = Job(v)
    BY <2>1 DEF Runs, Job
  <2>3. row' = row /\ effects' = effects
    BY <1>1 DEF Crash, Fire
  <2>4. LiveInv'
    BY <2>2, <2>3, QuietStep
  <2> QED
    BY <2>3, <2>4 DEF SuccessIsKept
<1>2. ASSUME NEW j \in Jobs, Stale(j)
      PROVE  LiveInv' /\ SuccessIsKept
  <2>1. Executing(j) = {}
    <3>1. slow \in Nat
      BY BoundsAssumption DEF JobRunsInv, CountInv
    <3> QED
      BY <1>2, <3>1 DEF Stale
  <2>2. \A v \in Workers : Runs(v) => Job(v) # j /\ Job(v) \in Jobs
    BY <2>1, JobFacts DEF Executing, Runs
  <2>3. /\ worker' = worker /\ effects' = effects /\ row[j].status = "RUNNING"
        /\ \A k \in Jobs : k # j => row'[k] = row[k]
    BY <1>2 DEF Stale, JobRunsInv, RowInv
  <2>4. \A v \in Workers : Runs(v)' => Runs(v) /\ Job(v)' = Job(v)
    BY <2>3 DEF Runs, Job
  <2>5. LiveInv'
    BY <2>2, <2>3, <2>4, LiveKeep
  <2> QED
    BY <2>3, <2>5 DEF SuccessIsKept
<1>3. CASE UNCHANGED vars
  <2>1. worker' = worker /\ row' = row /\ effects' = effects
    BY <1>3 DEF vars
  <2>2. \A v \in Workers : Runs(v)' => Runs(v) /\ Job(v)' = Job(v)
    BY <2>1 DEF Runs, Job
  <2>3. LiveInv'
    BY <2>1, <2>2, QuietStep
  <2> QED
    BY <2>1, <2>3 DEF SuccessIsKept
<1> QED
  BY <1>1, <1>2, <1>3

LEMMA LiveStep ==
    ASSUME JobRunsInv, SeenInv, LiveInv, slow' = 0, [Next]_vars,
           \A v \in Workers : worker'[v].step # "take"
    PROVE  LiveInv' /\ SuccessIsKept
<1>1. ASSUME NEW w \in Workers, Step(w)
      PROVE  LiveInv' /\ SuccessIsKept
  BY <1>1, ClaimLive, RunLive DEF Step
<1> QED
  BY <1>1, WorldLive DEF Next

\* A run that has been slow stays so in the books.
LEMMA SlowStep ==
    ASSUME JobRunsInv, [Next]_vars, slow' = 0
    PROVE  slow = 0
<1>1. slow \in Nat
  BY BoundsAssumption DEF JobRunsInv, CountInv
<1>2. slow' = slow \/ slow' = slow + 1
  BY DEF Next, vars, bounds, Step, Find, Claim, Create, Raced, Take, Work, WorkFails,
     Record, RecordSuccess, RecordSuccessFails, RecordFailure, RecordFailureFails,
     Crash, Fire, Stale
<1> QED
  BY <1>1, <1>2

\* "Honor its claim instead of duplicating work" (claimRun): unless a run outlasts
\* the stale limit or the loser of a create race takes over, one firing at a time
\* executes an occurrence, and a SUCCESS is never taken back or run again.
THEOREM ExclusiveRuns == MCSpec => ExclusiveUnlessSlow
<1> DEFINE mcvars == <<vars, tookOver>>
<1>1. MCInit => JobRunsInv /\ ExclusiveInv
  <2> SUFFICES ASSUME MCInit PROVE ExclusiveInv
    BY InitInv DEF MCInit
  <2>1. \A v \in Workers : worker[v].step = "idle"
    BY DEF MCInit, Init, Idle
  <2> QED
    BY <2>1 DEF ExclusiveInv, SeenInv, LiveInv, Runs
<1>2. [MCNext]_mcvars => [Next]_vars
  BY DEF MCNext
<1>3. JobRunsInv /\ ExclusiveInv /\ [MCNext]_mcvars =>
        /\ ExclusiveInv'
        /\ slow' = 0 /\ ~tookOver' => LiveInv' /\ SuccessIsKept
  <2> SUFFICES ASSUME JobRunsInv, ExclusiveInv, [MCNext]_mcvars
               PROVE  /\ ExclusiveInv'
                      /\ slow' = 0 /\ ~tookOver' => LiveInv' /\ SuccessIsKept
    OBVIOUS
  <2>1. SeenInv'
    BY <1>2, SeenNext DEF ExclusiveInv
  <2>2. ASSUME slow' = 0, ~tookOver'
        PROVE  LiveInv' /\ SuccessIsKept
    <3>1. slow = 0 /\ ~tookOver
      <4>1. slow = 0
        BY <1>2, <2>2, SlowStep
      <4>2. ~tookOver
        BY <2>2 DEF MCNext
      <4> QED
        BY <4>1, <4>2
    <3>2. LiveInv
      BY <3>1 DEF ExclusiveInv
    <3>3. \A v \in Workers : worker'[v].step # "take"
      BY <2>2, <3>2 DEF MCNext, LiveInv, vars
    <3> QED
      BY <1>2, <2>2, <3>2, <3>3, LiveStep DEF ExclusiveInv
  <2> QED
    BY <2>1, <2>2 DEF ExclusiveInv
<1>4. JobRunsInv /\ JobRunsInv' /\ ExclusiveInv /\ [MCNext]_mcvars =>
        [slow' > 0 \/ tookOver' \/ (OneRunAtATime' /\ SuccessIsKept)]_mcvars
  <2> SUFFICES ASSUME JobRunsInv, JobRunsInv', ExclusiveInv, [MCNext]_mcvars,
                      ~ (slow' > 0), ~ tookOver'
               PROVE  OneRunAtATime' /\ SuccessIsKept
    OBVIOUS
  <2>1. slow' = 0
    BY BoundsAssumption DEF JobRunsInv, CountInv
  <2>2. LiveInv' /\ SuccessIsKept
    BY <1>3, <2>1
  <2> QED
    BY <2>2 DEF LiveInv, OneRunAtATime, Executing, Runs
<1> QED
  BY <1>1, <1>2, <1>3, <1>4, NextInv, PTL DEF MCSpec, ExclusiveUnlessSlow
=============================================================================
