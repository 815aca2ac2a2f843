-------------------------- MODULE CompanyScheduler --------------------------
(***************************************************************************)
(* The scheduler of company work: coordinator objects of several server    *)
(* processes that share one SQLite store.  The row scheduler_lock is a     *)
(* lease of 60 seconds, renewed by a timer of 5 seconds; its owner puts    *)
(* the jobs that a former owner left running back in the queue, admits     *)
(* queued jobs and records how they end.  One company; a tick runs to its  *)
(* end without an await, so it is one step.                                *)
(***************************************************************************)
EXTENDS Naturals, FiniteSets

CONSTANTS
    Servers, Coordinators, Jobs,
    Reviews,        \* the jobs enqueued by the tick itself, one at a time
    Chats,          \* the jobs that need the company's conversation; each keeps it busy,
    Questions,      \* except these, which survive a change of direction
    Workers,        \* the smaller of the two limits of concurrent jobs
    MaxDirection,   \* bound: versions of the owner's direction
    MaxStalls,      \* bound: times that a ticking owner misses its renewal
    LongJobs,       \* work may go on for 60 seconds after its coordinator stops
    NONE

ASSUME SchedulerAssumption ==
    /\ NONE \notin Servers \cup Coordinators /\ Reviews \subseteq Jobs
    /\ Workers \in Nat \ {0} /\ MaxDirection \in Nat \ {0} /\ MaxStalls \in Nat
    /\ LongJobs \in BOOLEAN

VARIABLES
    company, direction,     \* the company's record: its state, directionVersion
    state, version,         \* the job records
    lock,                   \* the row of scheduler_lock: owner and expiry
    assigned, down,         \* the server's companyCoordinator; servers stopped
    server, mode,           \* the server of each coordinator, and its timer
    leaseHeld, active, tasks,   \* fields of each coordinator
    stalls

company_ == <<company, direction>>
process == <<assigned, down, server>>
coordinator == <<mode, leaseHeld, active, tasks>>
vars == <<company_, state, version, lock, process, coordinator, stalls>>

Pending == {"queued", "running"}
Final == {"done", "failed", "superseded"}

TypeOK ==
    /\ company \in {"running", "paused", "deleted"} /\ direction \in 1..MaxDirection
    /\ state \in [Jobs -> {"absent"} \cup Pending \cup Final]
    /\ version \in [Jobs -> 0..MaxDirection]
    /\ lock \in [owner : Coordinators \cup {NONE}, expired : BOOLEAN]
    /\ assigned \in [Servers -> Coordinators \cup {NONE}] /\ down \in SUBSET Servers
    /\ server \in [Coordinators -> Servers \cup {NONE}]
    /\ mode \in [Coordinators -> {"new", "ticking", "stopped", "draining", "dead"}]
    /\ leaseHeld \in [Coordinators -> BOOLEAN]
    /\ active \in [Coordinators -> SUBSET Jobs]
    /\ tasks \in [Coordinators -> [Jobs -> Nat]]
    /\ stalls \in 0..MaxStalls

Free == [owner |-> NONE, expired |-> FALSE]
HeldBy(c) == [owner |-> c, expired |-> FALSE]

Init ==
    /\ company = "running" /\ direction = 1
    /\ state = [j \in Jobs |-> "absent"] /\ version = [j \in Jobs |-> 0]
    /\ lock = Free
    /\ assigned = [s \in Servers |-> NONE] /\ down = {}
    /\ server = [c \in Coordinators |-> NONE] /\ mode = [c \in Coordinators |-> "new"]
    /\ leaseHeld = [c \in Coordinators |-> FALSE]
    /\ active = [c \in Coordinators |-> {}]
    /\ tasks = [c \in Coordinators |-> [j \in Jobs |-> 0]]
    /\ stalls = 0

-----------------------------------------------------------------------------
(* The company's record and its queue, written by the API of any server.   *)

Pause ==
    /\ company = "running" /\ company' = "paused"
    /\ UNCHANGED <<direction, state, version, lock, process, coordinator, stalls>>

Resume ==
    /\ company = "paused" /\ company' = "running"
    /\ UNCHANGED <<direction, state, version, lock, process, coordinator, stalls>>

(* Deleting removes the job records; work in progress is not waited for. *)
Delete ==
    /\ company = "paused" /\ company' = "deleted"
    /\ state' = [j \in Jobs |-> "absent"]
    /\ UNCHANGED <<direction, version, lock, process, coordinator, stalls>>

Steer ==
    /\ company = "running" /\ direction < MaxDirection
    /\ direction' = direction + 1
    /\ state' = [j \in Jobs |-> IF state[j] = "queued" /\ j \notin Questions
                                THEN "superseded" ELSE state[j]]
    /\ UNCHANGED <<company, version, lock, process, coordinator, stalls>>

(* Ids are random, so a job is enqueued at most once. *)
Enqueue(j) ==
    /\ company # "deleted" /\ j \notin Reviews /\ version[j] = 0
    /\ state' = [state EXCEPT ![j] = "queued"]
    /\ version' = [version EXCEPT ![j] = direction]
    /\ UNCHANGED <<company_, lock, process, coordinator, stalls>>

-----------------------------------------------------------------------------
(* The servers.                                                            *)

NoTasks(c) == \A j \in Jobs : tasks[c][j] = 0

(* ensureCompanyCoordinator, with companies enabled *)
Ensure(s, c) ==
    /\ s \notin down /\ assigned[s] = NONE /\ mode[c] = "new"
    /\ assigned' = [assigned EXCEPT ![s] = c]
    /\ server' = [server EXCEPT ![c] = s]
    /\ mode' = [mode EXCEPT ![c] = "ticking"]
    /\ UNCHANGED <<company_, state, version, lock, down, leaseHeld, active, tasks, stalls>>

(* MUTANT of Released: stop() hands the lease over with work in progress. *)
ReleasedWithWork(c) == IF lock.owner = c THEN Free ELSE lock

(* stop(): a stopped coordinator renews nothing; with work in progress it  *)
(* leaves the lease to drain(), or to its expiry.                          *)
Released(c) == IF NoTasks(c) /\ lock.owner = c THEN Free ELSE lock

(* Companies are switched off in the settings: nothing drains. *)
Disable(s) ==
    /\ assigned[s] # NONE
    /\ assigned' = [assigned EXCEPT ![s] = NONE]
    /\ mode' = [mode EXCEPT ![assigned[s]] = "stopped"]
    /\ lock' = Released(assigned[s])
    /\ UNCHANGED <<company_, state, version, down, server, leaseHeld, active, tasks, stalls>>

StopServer(s) ==
    /\ assigned[s] # NONE
    /\ assigned' = [assigned EXCEPT ![s] = NONE]
    /\ down' = down \cup {s}
    /\ mode' = [mode EXCEPT ![assigned[s]] = "draining"]
    /\ lock' = Released(assigned[s])
    /\ UNCHANGED <<company_, state, version, server, leaseHeld, active, tasks, stalls>>

DrainEnds(c) ==
    /\ mode[c] = "draining" /\ NoTasks(c)
    /\ mode' = [mode EXCEPT ![c] = "stopped"]
    /\ lock' = Released(c)
    /\ UNCHANGED <<company_, state, version, process, leaseHeld, active, tasks, stalls>>

(* The process ends, at any point. *)
Crash(s) ==
    /\ \E c \in Coordinators : server[c] = s /\ mode[c] # "dead"
    /\ down' = down \cup {s}
    /\ assigned' = [assigned EXCEPT ![s] = NONE]
    /\ mode' = [c \in Coordinators |-> IF server[c] = s THEN "dead" ELSE mode[c]]
    /\ tasks' = [c \in Coordinators |-> IF server[c] = s THEN [j \in Jobs |-> 0] ELSE tasks[c]]
    /\ active' = [c \in Coordinators |-> IF server[c] = s THEN {} ELSE active[c]]
    /\ UNCHANGED <<company_, state, version, lock, server, leaseHeld, stalls>>

(* Sixty seconds without a renewal.  A ticking owner misses them when its  *)
(* process is suspended.                                                   *)
Expire ==
    /\ lock.owner # NONE /\ ~lock.expired
    /\ IF mode[lock.owner] = "ticking"
       THEN stalls < MaxStalls /\ stalls' = stalls + 1
       ELSE (LongJobs \/ NoTasks(lock.owner)) /\ stalls' = stalls
    /\ lock' = [lock EXCEPT !.expired = TRUE]
    /\ UNCHANGED <<company_, state, version, process, coordinator>>

-----------------------------------------------------------------------------
(* One tick.                                                               *)

(* MUTANT of Available: the insert has no clause for an expired row. *)
AvailableWhenReleased(c) == lock.owner \in {c, NONE}

Available(c) == lock.owner \in {c, NONE} \/ lock.expired

(* Another scheduler has the lease: the coordinator stops for good. *)
Lose(c) ==
    /\ mode[c] = "ticking" /\ leaseHeld[c] /\ ~Available(c)
    /\ leaseHeld' = [leaseHeld EXCEPT ![c] = FALSE]
    /\ mode' = [mode EXCEPT ![c] = "stopped"]
    /\ lock' = Released(c)
    /\ UNCHANGED <<company_, state, version, process, active, tasks, stalls>>

(* MUTANTS of Recovered: the first leads without recovering, the second    *)
(* queues failed work again as well.                                       *)
RecoveredNothing(c) == state
RecoveredFailures(c) ==
    [j \in Jobs |-> IF ~leaseHeld[c] /\ state[j] \in {"running", "failed"} THEN "queued" ELSE state[j]]

Recovered(c) ==
    [j \in Jobs |-> IF ~leaseHeld[c] /\ state[j] = "running" THEN "queued" ELSE state[j]]

(* MUTANT of DueReviews: the dedupe key looks at waiting jobs only. *)
DueBesideRunning(queue) ==
    {{}} \cup IF \E j \in Reviews : queue[j] = "queued" THEN {}
              ELSE {{j} : j \in {r \in Reviews : version[r] = 0}}

(* The review that the tick enqueues when one is due, if any. *)
DueReviews(queue) ==
    {{}} \cup IF \E j \in Reviews : queue[j] \in Pending THEN {}
              ELSE {{j} : j \in {r \in Reviews : version[r] = 0}}

Outdated(j, versions) == versions[j] # direction /\ j \notin Questions

(* MUTANT of Reached: each tick has every worker to give out. *)
ReachedByAll(c, queue, versions) ==
    LET queued == {j \in Jobs : queue[j] = "queued"}
        Claims(S) == Cardinality({j \in S : ~Outdated(j, versions)})
    IN  {S \in SUBSET queued : Claims(S) <= Workers /\ (S = queued \/ Claims(S) = Workers)}

(* The queued jobs the loop reaches before every worker is taken. *)
Reached(c, queue, versions) ==
    LET queued == {j \in Jobs : queue[j] = "queued"}
        free == IF Cardinality(active[c]) >= Workers THEN 0 ELSE Workers - Cardinality(active[c])
        Claims(S) == Cardinality({j \in S : ~Outdated(j, versions)})
    IN  {S \in SUBSET queued : Claims(S) <= free /\ (S = queued \/ Claims(S) = free)}

Busy(s) == \E d \in Coordinators, j \in Chats \ Questions : server[d] = s /\ tasks[d][j] > 0

(* Work in a busy conversation fails at once, "Company lead is still       *)
(* working.", and its job is queued again: of the claimed jobs, these start.*)
Starting(c, claimed) ==
    LET conversing == (claimed \cap Chats) \ Questions
    IN  {S \in SUBSET claimed :
            /\ claimed \ Chats \subseteq S
            /\ IF Busy(server[c]) THEN S \cap Chats = {}
               ELSE IF conversing = {} THEN S = claimed
               ELSE Cardinality(S \cap conversing) = 1}

Admit(c, queue, versions) ==
    \E reached \in Reached(c, queue, versions) :
        LET outdated == {j \in reached : Outdated(j, versions)}
        IN  \E started \in Starting(c, reached \ outdated) :
                /\ state' = [j \in Jobs |-> IF j \in outdated THEN "superseded"
                                            ELSE IF j \in started THEN "running" ELSE queue[j]]
                /\ active' = [active EXCEPT ![c] = @ \cup started]
                /\ tasks' = [tasks EXCEPT ![c] =
                                [j \in Jobs |-> IF j \in started THEN @[j] + 1 ELSE @[j]]]

Lead(c) ==
    /\ mode[c] = "ticking" /\ Available(c)
    /\ lock' = HeldBy(c)
    /\ leaseHeld' = [leaseHeld EXCEPT ![c] = TRUE]
    /\ IF company = "running"
       THEN \E due \in DueReviews(Recovered(c)) :
                /\ version' = [j \in Jobs |-> IF j \in due THEN direction ELSE version[j]]
                /\ Admit(c, [j \in Jobs |-> IF j \in due THEN "queued" ELSE Recovered(c)[j]],
                         version')
       ELSE state' = Recovered(c) /\ UNCHANGED <<version, active, tasks>>
    /\ UNCHANGED <<company_, process, mode, stalls>>

Tick(c) == Lead(c) \/ Lose(c)

-----------------------------------------------------------------------------
(* The promise of an execution settles. *)

Outcome(success) ==
    IF success THEN "done"
    ELSE IF company = "paused" THEN "queued" ELSE "failed"

Finish(c, j) ==
    /\ tasks[c][j] > 0
    /\ \E success \in BOOLEAN :
           state' = IF leaseHeld[c] THEN [state EXCEPT ![j] = Outcome(success)] ELSE state
    /\ active' = [active EXCEPT ![c] = @ \ {j}]
    /\ tasks' = [tasks EXCEPT ![c][j] = @ - 1]
    /\ UNCHANGED <<company_, version, lock, process, mode, leaseHeld, stalls>>

-----------------------------------------------------------------------------
Next ==
    \/ Pause \/ Resume \/ Delete \/ Steer \/ Expire
    \/ \E j \in Jobs : Enqueue(j)
    \/ \E s \in Servers : Disable(s) \/ StopServer(s) \/ Crash(s)
    \/ \E s \in Servers, c \in Coordinators : Ensure(s, c)
    \/ \E c \in Coordinators : Tick(c) \/ DrainEnds(c)
    \/ \E c \in Coordinators, j \in Jobs : Finish(c, j)

Spec == Init /\ [][Next]_vars

(* Timers fire, work ends (a conversation's within five minutes) and leases *)
(* that nobody renews expire.                                              *)
FairSpec ==
    /\ Spec /\ WF_vars(Expire)
    /\ \A c \in Coordinators : WF_vars(Tick(c)) /\ WF_vars(DrainEnds(c))
    /\ \A c \in Coordinators, j \in Jobs : WF_vars(Finish(c, j))

-----------------------------------------------------------------------------
(* A job is executed once at a time, by whichever coordinator. *)
RunsOnce ==
    \A c, d \in Coordinators, j \in Jobs :
        /\ tasks[c][j] <= 1
        /\ tasks[c][j] > 0 /\ tasks[d][j] > 0 => c = d

(* While a coordinator leads, a job recorded as running is being executed: *)
(* no job is left behind as running, which nothing would ever claim again. *)
RunningIsExecuted ==
    \A c \in Coordinators, j \in Jobs :
        mode[c] = "ticking" /\ leaseHeld[c] /\ lock = HeldBy(c) /\ state[j] = "running"
            => \E d \in Coordinators : tasks[d][j] > 0

(* The dedupe key of reviews: at most one is waiting or in progress. *)
ReviewIsOne == Cardinality({j \in Reviews : state[j] \in Pending}) <= 1

(* An ending execution changes the store only for the owner of the lease.  *)
WritesUnderLease ==
    [][\A c \in Coordinators, j \in Jobs :
          tasks'[c][j] < tasks[c][j] /\ state' # state => lock.owner = c]_vars

(* What is settled stays settled, until the company is deleted. *)
SettledStays ==
    [][\A j \in Jobs : state[j] \in Final =>
          state'[j] = state[j] \/ company' = "deleted"]_vars

(* The coordinator a server relies on is leading, or standing by for it.   *)
ServerSchedules ==
    \A s \in Servers : assigned[s] # NONE => mode[assigned[s]] = "ticking"

(* Queued work is claimed, superseded or failed, while some coordinator    *)
(* ticks and the company runs: also after crashes and hand-overs.          *)
QueuedIsServed ==
    \A j \in Jobs : state[j] = "queued" ~>
        \/ state[j] # "queued" \/ company # "running"
        \/ \A c \in Coordinators : mode[c] # "ticking"

(* The store, the coordinators and their leases together are one queue     *)
(* with a pool of workers, across crashes, hand-overs and pauses.          *)
Known == {j \in Jobs : version[j] # 0}
Executing == {j \in Jobs : \E c \in Coordinators : tasks[c][j] > 0}
Queueing == {j \in Jobs : state[j] \in Pending} \ Executing
Settled == {j \in Jobs : state[j] \in Final}

Pool == INSTANCE WorkPool WITH
            known <- Known, waiting <- Queueing, working <- Executing, settled <- Settled,
            closed <- company = "deleted"
IsWorkPool == Pool!Spec
=============================================================================
