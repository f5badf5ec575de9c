------------------------------ MODULE JobRuns ------------------------------
(***************************************************************************)
(* The JobRun ledger of the scheduler (apps/api/src/scheduler): cron jobs   *)
(* of several API replicas and manual triggers claim an occurrence of a job *)
(* (one building, one period), run it, and record how it ended.             *)
(***************************************************************************)
EXTENDS Naturals, Sequences

CONSTANTS
    Jobs,         \* occurrences, each with a unique JobRun key
    Duties,       \* what one firing runs, in order
    Input,        \* for a job, the job whose output it reads, or NoJob
    NoJob,
    Workers,      \* firings in progress, over all replicas
    Claimed,      \* occurrences that may have a FAILED row to begin with
    MaxFailures,  \* bounds: failures of a job or of recording its success,
    MaxCrashes,   \*   crashed firings,
    MaxSlow       \*   and runs that outlast STALE_RUN_AFTER_MS

ASSUME DutiesAssumption == Duties \subseteq Seq(Jobs) \ {<<>>}
ASSUME InputAssumption == Input \in [Jobs -> Jobs \cup {NoJob}]
ASSUME ClaimedAssumption == Claimed \subseteq Jobs
ASSUME BoundsAssumption ==
    MaxFailures \in Nat /\ MaxCrashes \in Nat /\ MaxSlow \in Nat

VARIABLES
    row,       \* JobRun rows, by occurrence
    worker,    \* firings, between two awaits
    effects,   \* how often each job's work was carried out
    early,     \* jobs whose work was carried out before their input's
    failures, crashes, slow

bounds == <<failures, crashes, slow>>
vars == <<row, worker, effects, early, bounds>>

NoRow == [status |-> "NONE", started |-> 0, stale |-> FALSE]
Idle == [step |-> "idle", todo |-> <<>>, seen |-> NoRow]

Init ==
    /\ \E failed \in SUBSET Claimed :
          row = [j \in Jobs |->
            IF j \in failed THEN [NoRow EXCEPT !.status = "FAILED"] ELSE NoRow]
    /\ worker = [w \in Workers |-> Idle]
    /\ effects = [j \in Jobs |-> 0]
    /\ early = {}
    /\ failures = 0 /\ crashes = 0 /\ slow = 0

Job(w) == Head(worker[w].todo)

Goto(w, step) == worker' = [worker EXCEPT ![w].step = step]

\* Mutant: the firing does not notice its last job.
DoneEndless(w) ==
    worker' = [worker EXCEPT ![w] =
        [step |-> "find", todo |-> Tail(@.todo), seen |-> NoRow]]

\* The firing goes on with its next job; the outcome of this one is not asked.
Done(w) ==
    worker' = [worker EXCEPT ![w] =
        IF Len(@.todo) = 1 THEN Idle
        ELSE [step |-> "find", todo |-> Tail(@.todo), seen |-> NoRow]]

Fire(w, duty) ==
    /\ worker[w] = Idle
    /\ worker' = [worker EXCEPT ![w] =
         [step |-> "find", todo |-> duty, seen |-> NoRow]]
    /\ UNCHANGED <<row, effects, early, bounds>>

\* Mutant: a RUNNING row is never given up.
RetryOnlyFailed(r) == r.status = "FAILED"

CanRetry(r) == r.status = "FAILED" \/ (r.status = "RUNNING" /\ r.stale)

Find(w) ==
    LET existing == row[Job(w)] IN
    /\ worker[w].step = "find"
    /\ IF existing.status = "NONE" THEN Goto(w, "create")
       ELSE IF CanRetry(existing)
            THEN worker' = [worker EXCEPT ![w].step = "claim",
                                          ![w].seen = existing]
            ELSE Done(w)
    /\ UNCHANGED <<row, effects, early, bounds>>

\* Every claim stamps startedAt anew.
Running(j) == [status |-> "RUNNING", started |-> row[j].started + 1,
               stale |-> FALSE]

\* Mutant: the update is not conditional on the row that was read.
ClaimBlind(w) ==
    /\ worker[w].step = "claim"
    /\ row' = [row EXCEPT ![Job(w)] = Running(Job(w))]
    /\ Goto(w, "run")
    /\ UNCHANGED <<effects, early, bounds>>

Claim(w) ==
    LET j == Job(w)
        seen == worker[w].seen IN
    /\ worker[w].step = "claim"
    /\ IF /\ row[j].status = seen.status
          /\ seen.status = "RUNNING" => row[j].started = seen.started
       THEN /\ row' = [row EXCEPT ![j] = Running(j)]
            /\ Goto(w, "run")
       ELSE /\ Done(w)
            /\ UNCHANGED row
    /\ UNCHANGED <<effects, early, bounds>>

\* create: the unique key decides between two replicas.
Create(w) ==
    LET j == Job(w) IN
    /\ worker[w].step = "create"
    /\ IF row[j].status = "NONE"
       THEN row' = [row EXCEPT ![j] = Running(j)] /\ Goto(w, "run")
       ELSE Goto(w, "raced") /\ UNCHANGED row
    /\ UNCHANGED <<effects, early, bounds>>

\* The loser reads the winner's row; "a failed/stale winner is retryable".
Raced(w) ==
    /\ worker[w].step = "raced"
    /\ IF CanRetry(row[Job(w)]) THEN Goto(w, "take") ELSE Done(w)
    /\ UNCHANGED <<row, effects, early, bounds>>

Take(w) ==
    /\ worker[w].step = "take"
    /\ row' = [row EXCEPT ![Job(w)] = Running(Job(w))]
    /\ Goto(w, "run")
    /\ UNCHANGED <<effects, early, bounds>>

\* The job's service does its work.
Work(w) ==
    LET j == Job(w) IN
    /\ worker[w].step = "run"
    /\ effects' = [effects EXCEPT ![j] = @ + 1]
    /\ early' = IF Input[j] # NoJob /\ effects[Input[j]] = 0
                THEN early \cup {j} ELSE early
    /\ Goto(w, "worked")
    /\ UNCHANGED <<row, bounds>>

\* It throws, or no administrator is found to run it as.
WorkFails(w) ==
    /\ worker[w].step = "run"
    /\ failures < MaxFailures
    /\ failures' = failures + 1
    /\ Goto(w, "failed")
    /\ UNCHANGED <<row, effects, early, crashes, slow>>

Record(w, status) ==
    /\ row' = [row EXCEPT ![Job(w)].status = status, ![Job(w)].stale = FALSE]
    /\ Done(w)
    /\ UNCHANGED <<effects, early>>

\* Mutant: SUCCESS is recorded whatever the job did.
RecordAnySuccess(w) ==
    /\ worker[w].step \in {"worked", "failed"}
    /\ Record(w, "SUCCESS")
    /\ UNCHANGED bounds

RecordSuccess(w) ==
    /\ worker[w].step = "worked"
    /\ Record(w, "SUCCESS")
    /\ UNCHANGED bounds

\* The update to SUCCESS throws: the catch block writes FAILED.
RecordSuccessFails(w) ==
    /\ worker[w].step = "worked"
    /\ failures < MaxFailures
    /\ failures' = failures + 1
    /\ Record(w, "FAILED")
    /\ UNCHANGED <<crashes, slow>>

RecordFailure(w) ==
    /\ worker[w].step = "failed"
    /\ Record(w, "FAILED")
    /\ UNCHANGED bounds

\* The update to FAILED throws too: it is logged, the row stays RUNNING.
RecordFailureFails(w) ==
    /\ worker[w].step = "failed"
    /\ failures < MaxFailures
    /\ failures' = failures + 1
    /\ Done(w)
    /\ UNCHANGED <<row, effects, early, crashes, slow>>

Crash(w) ==
    /\ worker[w] # Idle
    /\ crashes < MaxCrashes
    /\ crashes' = crashes + 1
    /\ worker' = [worker EXCEPT ![w] = Idle]
    /\ UNCHANGED <<row, effects, early, failures, slow>>

Executing(j) ==
    {w \in Workers : /\ worker[w].step \in {"run", "worked", "failed"}
                     /\ Job(w) = j}

\* STALE_RUN_AFTER_MS pass since startedAt, with or without a live run.
Stale(j) ==
    /\ row[j].status = "RUNNING" /\ ~ row[j].stale
    /\ IF Executing(j) = {} THEN UNCHANGED slow
       ELSE slow < MaxSlow /\ slow' = slow + 1
    /\ row' = [row EXCEPT ![j].stale = TRUE]
    /\ UNCHANGED <<worker, effects, early, failures, crashes>>

Step(w) ==
    \/ Find(w) \/ Claim(w) \/ Create(w) \/ Raced(w) \/ Take(w)
    \/ Work(w) \/ WorkFails(w)
    \/ RecordSuccess(w) \/ RecordSuccessFails(w)
    \/ RecordFailure(w) \/ RecordFailureFails(w)

Next ==
    \/ \E w \in Workers :
          Step(w) \/ Crash(w) \/ \E duty \in Duties : Fire(w, duty)
    \/ \E j \in Jobs : Stale(j)

Spec == Init /\ [][Next]_vars

\* Every cron fires again (a firing in progress does not hold another cron
\* back: strong fairness, since firings share the slots of Workers here), a
\* firing goes on, and time passes.
Fairness ==
    /\ \A w \in Workers : WF_vars(Step(w))
    /\ \A w \in Workers, duty \in Duties : SF_vars(Fire(w, duty))
    /\ \A j \in Jobs : WF_vars(Executing(j) = {} /\ Stale(j))
-----------------------------------------------------------------------------
(***************************************************************************)
(* Properties                                                               *)
(***************************************************************************)
\* Rows and firings have the shape the schema and the code give them.
TypeOK ==
    /\ row \in [Jobs -> [status : {"NONE", "RUNNING", "SUCCESS", "FAILED"},
                         started : Nat, stale : BOOLEAN]]
    /\ \A w \in Workers :
          /\ worker[w].step \in {"idle", "find", "claim", "create", "raced",
                                 "take", "run", "worked", "failed"}
          /\ worker[w].step # "idle" => worker[w].todo \in Seq(Jobs) \ {<<>>}
    /\ effects \in [Jobs -> Nat] /\ early \subseteq Jobs
    /\ failures \in 0..MaxFailures /\ crashes \in 0..MaxCrashes
    /\ slow \in 0..MaxSlow

\* "Honor its claim instead of duplicating work": one firing at a time executes
\* an occurrence, and the ledger says RUNNING meanwhile (claimRun).
OneRunAtATime ==
    \A w \in Workers : \A j \in Jobs :
        w \in Executing(j) => Executing(j) = {w} /\ row[j].status = "RUNNING"

\* A recorded SUCCESS is never taken back or run again (as an action).
SuccessIsKept ==
    \A j \in Jobs : row[j].status = "SUCCESS" =>
                       row'[j] = row[j] /\ effects'[j] = effects[j]

\* The ledger never says SUCCESS of a job whose work was not carried out,
\* however firings crash, fail and overlap (runForBuilding).
SuccessIsEarned ==
    \A j \in Jobs : row[j].status = "SUCCESS" => effects[j] > 0

\* "This prerequisite also repairs a failed/missed recurring run before
\* invoices are attempted": no job works without its input (invoiceRun).
InputComesFirst == early = {}

\* An occurrence whose cron keeps firing succeeds in the end, after crashes,
\* failures and abandoned RUNNING rows (canRetry, closeOverdueVotes,
\* retryPendingDailyRun).
EventuallySucceeds == \A j \in Jobs : <>(row[j].status = "SUCCESS")
=============================================================================
