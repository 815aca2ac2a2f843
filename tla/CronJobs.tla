------------------------------ MODULE CronJobs ------------------------------
(***************************************************************************)
(* The schedules of one project: the file of jobs, the scheduler of coding *)
(* jobs and the scheduler of maintenance jobs on the same file.  The       *)
(* latter is replaced whenever its settings are saved; what the replaced   *)
(* one has started goes on.  One process at a time has the project open.   *)
(*                                                                         *)
(* Times are abstracted to what a tick asks of them: has the interval      *)
(* passed, is the retry due, did the run start less than 120 s ago.        *)
(***************************************************************************)
EXTENDS Naturals, FiniteSets

CONSTANTS
    Job,
    Maintenance,    \* the jobs of the maintenance scheduler
    LongJob,        \* the jobs that may run for more than 120 s
    Frequent,       \* the jobs with an interval that may be less than 120 s
    Generations,    \* bound on the maintenance schedulers of one process
    MaxFaults,      \* bound on reads and writes of the file that fail
    MaxEdits,       \* bound on what users do to the jobs
    MaxCrashes      \* bound on crashes

Scheduler == 0 .. Generations       \* 0 is the one of the coding jobs

ASSUME CronAssumption ==
    /\ Maintenance \subseteq Job /\ LongJob \subseteq Job /\ Frequent \subseteq Job
    /\ Generations \in Nat \ {0}

VARIABLES
    listed,     \* the jobs in the file
    enabled,    \* and of each its fields
    status,
    recent,     \* was lastRunAt less than 120 s ago?
    elapsed,    \* was lastRunAt at least an interval ago?
    retry,      \* nextRetryAt: "none", "later" or "now"
    running,    \* the jobs in flight of each scheduler: onDue has not returned
    detached,   \* the coding jobs with work left that onDue does not await
    current,    \* the maintenance scheduler that ticks, 0 while the process is down
    edits, faults, crashes

fields == <<enabled, status, recent, elapsed, retry>>
file == <<listed, fields>>
memory == <<running, detached, current>>
cronVars == <<file, memory, edits, faults, crashes>>

CronTypeOK ==
    /\ listed \in SUBSET Job
    /\ enabled \in [Job -> BOOLEAN]
    /\ status \in [Job -> {"none", "running", "succeeded", "failed"}]
    /\ recent \in [Job -> BOOLEAN] /\ elapsed \in [Job -> BOOLEAN]
    /\ retry \in [Job -> {"none", "later", "now"}]
    /\ running \in [Scheduler -> SUBSET Job] /\ detached \in SUBSET Job
    /\ current \in Scheduler
    /\ edits \in Nat /\ faults \in Nat /\ crashes \in Nat

CronInit ==
    /\ listed = {}
    /\ enabled = [j \in Job |-> TRUE]
    /\ status = [j \in Job |-> "none"]
    /\ recent = [j \in Job |-> FALSE] /\ elapsed = [j \in Job |-> FALSE]
    /\ retry = [j \in Job |-> "none"]
    /\ running = [s \in Scheduler |-> {}] /\ detached = {}
    /\ current = 0
    /\ edits = 0 /\ faults = 0 /\ crashes = 0

-----------------------------------------------------------------------------
Up == current # 0
Ticking == IF Up THEN {0, current} ELSE {}
Owned(s) == IF s = 0 THEN Job \ Maintenance ELSE Maintenance
InFlight(j) == \E s \in Scheduler : j \in running[s]

Edit == edits < MaxEdits /\ edits' = edits + 1
Fault == faults < MaxFaults /\ faults' = faults + 1

(* The jobs J have lastRunAt set to the present. *)
Touch(J) ==
    /\ recent' = [j \in Job |-> IF j \in J THEN TRUE ELSE recent[j]]
    /\ elapsed' = [j \in Job |-> IF j \in J THEN FALSE ELSE elapsed[j]]

(* CronStore.add: new records of the jobs J, which have on as enabled. *)
AddAll(J, on) ==
    /\ listed' = listed \cup J
    /\ enabled' = [j \in Job |-> IF j \in DOMAIN on THEN on[j] ELSE enabled[j]]
    /\ status' = [j \in Job |-> IF j \in J THEN "none" ELSE status[j]]
    /\ retry' = [j \in Job |-> IF j \in J THEN "none" ELSE retry[j]]
    /\ Touch(J)

-----------------------------------------------------------------------------
(* A user creates a coding job, with an id that was never used before. *)
Add(j) ==
    /\ Up /\ Edit
    /\ j \in Job \ Maintenance /\ j \notin listed /\ status[j] = "none" /\ ~InFlight(j)
    /\ AddAll({j}, [i \in {j} |-> TRUE])
    /\ UNCHANGED <<memory, faults, crashes>>

Remove(j) ==
    /\ Up /\ Edit /\ j \in listed
    /\ listed' = listed \ {j}
    /\ UNCHANGED <<fields, memory, faults, crashes>>

(* "pause" and "resume" of schedule_manage *)
Toggle(j) ==
    /\ Up /\ Edit /\ j \in listed
    /\ enabled' = [enabled EXCEPT ![j] = ~@]
    /\ Touch({j})
    /\ UNCHANGED <<listed, status, retry, memory, faults, crashes>>

(* The interval of a job is changed, and with it whether it has passed. *)
Reschedule(j) ==
    /\ Up /\ Edit /\ j \in listed /\ (recent[j] => j \in Frequent)
    /\ elapsed' = [elapsed EXCEPT ![j] = ~@]
    /\ UNCHANGED <<listed, enabled, status, recent, retry, memory, faults, crashes>>

(* startCoworkLearning: the jobs it needs are ensured, enabled or not, and *)
(* the scheduler is replaced.  start() of the server does it too.          *)
StartLearning ==
    /\ current < Generations
    /\ Up => Edit
    /\ ~Up => UNCHANGED edits
    /\ current' = current + 1
    /\ \E on \in [Maintenance -> BOOLEAN] : AddAll(Maintenance \ listed, on)
    /\ UNCHANGED <<running, detached, faults, crashes>>

(* MUTANT of Due: only the scheduler's own memory is asked. *)
DueUnlessRunning(s) ==
    {j \in listed \cap Owned(s) :
        /\ enabled[j] /\ j \notin running[s]
        /\ IF retry[j] = "none" THEN elapsed[j] ELSE retry[j] = "now"}

(* MUTANT of Due: a job marked as running is left alone. *)
DueUnlessMarked(s) ==
    {j \in listed \cap Owned(s) :
        /\ enabled[j] /\ j \notin running[s]
        /\ status[j] # "running"
        /\ IF retry[j] = "none" THEN elapsed[j] ELSE retry[j] = "now"}

(* The jobs that a tick of scheduler s starts. *)
Due(s) ==
    {j \in listed \cap Owned(s) :
        /\ enabled[j] /\ j \notin running[s]
        /\ ~(status[j] = "running" /\ recent[j])
        /\ IF retry[j] = "none" THEN elapsed[j] ELSE retry[j] = "now"}

(* tick(): every due job is marked and started; one whose mark cannot be   *)
(* written is left for a later tick, and the write that failed may have    *)
(* left the file truncated, which is read as an empty one.                 *)
CronTick(s) ==
    /\ s \in Ticking /\ Due(s) # {}
    /\ \E skipped \in SUBSET Due(s) :
          LET J == Due(s) \ skipped
          IN  /\ IF skipped = {} THEN UNCHANGED <<listed, faults>> ELSE listed' \in {listed, {}} /\ Fault
              /\ running' = [running EXCEPT ![s] = @ \cup J]
              /\ status' = [j \in Job |-> IF j \in J THEN "running" ELSE status[j]]
              /\ Touch(J)
    /\ UNCHANGED <<enabled, retry, detached, current, edits, crashes>>

(* tick() reads the jobs, but the first update() it makes cannot, and      *)
(* takes the file to be empty.  What it then writes is empty.              *)
TickBlind(s) ==
    /\ s \in Ticking /\ Due(s) # {} /\ Fault
    /\ running' = [running EXCEPT ![s] = @ \cup Due(s)]
    /\ listed' = {}
    /\ UNCHANGED <<fields, detached, current, edits, crashes>>

(* The patch of a result, if the job is still listed. *)
Record(j, result, next) ==
    /\ status' = IF j \in listed THEN [status EXCEPT ![j] = result] ELSE status
    /\ retry' = IF j \in listed THEN [retry EXCEPT ![j] = next] ELSE retry

(* onDue returns and the result is recorded.  A success that cannot be     *)
(* written is recorded as a failure, a failure that cannot is not          *)
(* recorded; and a read that fails empties the file, as in TickBlind.      *)
(* executeRun of a coding job may have passed its work on to a fallback    *)
(* model, a queued follow-up or a retry timer, which nobody awaits.        *)
RunEnds(s, j) ==
    /\ j \in running[s]
    /\ running' = [running EXCEPT ![s] = @ \ {j}]
    /\ detached' \in {detached, detached \cup ({j} \ Maintenance)}
    /\ \/ Record(j, "succeeded", "none") /\ UNCHANGED <<listed, faults>>
       \/ Record(j, "failed", "later") /\ UNCHANGED listed /\ (UNCHANGED faults \/ Fault)
       \/ UNCHANGED <<status, retry>> /\ listed' \in {listed, {}} /\ Fault
    /\ UNCHANGED <<enabled, recent, elapsed, current, edits, crashes>>

(* The last of the work of job j that was passed on ends. *)
DetachedEnds(j) ==
    /\ j \in detached
    /\ detached' = detached \ {j}
    /\ UNCHANGED <<file, running, current, edits, faults, crashes>>

(* Time passes: 120 s, an interval, the back-off. *)
Age(j) ==
    /\ recent[j] /\ (InFlight(j) => j \in LongJob)
    /\ recent' = [recent EXCEPT ![j] = FALSE]
    /\ UNCHANGED <<listed, enabled, status, elapsed, retry, memory, edits, faults, crashes>>
Elapse(j) ==
    /\ j \in listed /\ ~elapsed[j] /\ (recent[j] => j \in Frequent)
    /\ elapsed' = [elapsed EXCEPT ![j] = TRUE]
    /\ UNCHANGED <<listed, enabled, status, recent, retry, memory, edits, faults, crashes>>
BackedOff(j) ==
    /\ retry[j] = "later"
    /\ retry' = [retry EXCEPT ![j] = "now"]
    /\ UNCHANGED <<listed, enabled, status, recent, elapsed, memory, edits, faults, crashes>>

(* The process ends. *)
ProcessEnds ==
    /\ Up /\ crashes < MaxCrashes /\ crashes' = crashes + 1
    /\ running' = [s \in Scheduler |-> {}] /\ detached' = {}
    /\ current' = 0
    /\ UNCHANGED <<file, edits, faults>>

CronNext ==
    \/ StartLearning \/ ProcessEnds
    \/ \E j \in Job : Add(j) \/ Remove(j) \/ Toggle(j) \/ Reschedule(j)
    \/ \E j \in Job : DetachedEnds(j) \/ Age(j) \/ Elapse(j) \/ BackedOff(j)
    \/ \E s \in Scheduler :
          \/ CronTick(s) \/ TickBlind(s)
          \/ \E j \in Job : RunEnds(s, j)

CronSpec == CronInit /\ [][CronNext]_cronVars

(* The server is started again, its schedulers tick, runs end and time     *)
(* passes.                                                                 *)
CronFairSpec ==
    /\ CronSpec
    /\ WF_cronVars(~Up /\ StartLearning)
    /\ \A s \in Scheduler :
          /\ WF_cronVars(CronTick(s))
          /\ \A j \in Job : WF_cronVars(RunEnds(s, j))
    /\ \A j \in Job : WF_cronVars(Age(j)) /\ WF_cronVars(BackedOff(j)) /\ WF_cronVars(Elapse(j))

-----------------------------------------------------------------------------
(* No two onDue calls of a job at a time: by the memory of a scheduler for *)
(* as long as the call takes, and by the mark in the file for 120 s when   *)
(* the scheduler is replaced.  What a call passed on is not kept apart,    *)
(* see OneWorking.                                                         *)
OneExecution == \A j \in Job : Cardinality({s \in Scheduler : j \in running[s]}) <= 1

(* A job that is listed and enabled is run again and again, whatever       *)
(* became of its last run: a failure, a result that could not be written,  *)
(* a crash, a change of scheduler.                                         *)
JobsAreServed ==
    \A j \in Job : j \in listed /\ enabled[j] ~> InFlight(j) \/ j \notin listed \/ ~enabled[j]

-----------------------------------------------------------------------------
(* "A filesystem error on the jobs file (AV lock, EACCES, ENOSPC) must     *)
(* only skip a tick", src/cron/scheduler.ts:124.  The code: an error while *)
(* update() reads is an empty file to it, which it writes.                 *)
ErrorsOnlySkip == [][faults' # faults => listed' = listed]_cronVars

(* "with in-flight dedupe", src/server/server.ts:3662, says the code of    *)
(* CronScheduler.  The code: a coding job whose work was passed on is no   *)
(* longer in flight, and is started again beside that work.                *)
OneWorking == \A j \in Job : ~(InFlight(j) /\ j \in detached)
=============================================================================
