-------------------------- MODULE SchedulerProofs --------------------------
(***************************************************************************)
(* The two schedulers of the server: that of company work and that of the  *)
(* jobs a user has put on a schedule.                                      *)
(*                                                                         *)
(* While no owner of the company scheduler's lease misses its renewals,    *)
(* work in progress belongs to the one coordinator that holds the lease,   *)
(* for any number of servers, coordinators and jobs.                       *)
(*                                                                         *)
(* While no maintenance job outlasts the mark in the file of jobs, nor     *)
(* comes round before it ends, no job is run twice at a time, whatever the *)
(* settings are changed to, the file loses and the process forgets.        *)
(***************************************************************************)
EXTENDS CompanyScheduler, CronJobs, FiniteSetTheorems, TLAPS

(* Renewals are never late: no ticking owner is suspended for a minute, and *)
(* nothing is executed for a minute after its coordinator has stopped.      *)
Punctual == MaxStalls = 0 /\ ~LongJobs

(* Only the owner of an unexpired lease executes work, once, and the work  *)
(* is recorded as running.                                                 *)
OwnersWork ==
    \A c \in Coordinators, j \in Jobs :
        tasks[c][j] > 0 =>
            /\ tasks[c][j] = 1 /\ lock = HeldBy(c) /\ leaseHeld[c]
            /\ version[j] # 0 /\ (company = "deleted" \/ state[j] = "running")

FreshAbsent == \A j \in Jobs : version[j] = 0 => state[j] = "absent"

LeaseInv == TypeOK /\ OwnersWork /\ FreshAbsent

(* The two action properties, of one step. *)
SettledStep == \A j \in Jobs : state[j] \in Final => state'[j] = state[j] \/ company' = "deleted"
LeasedStep ==
    \A c \in Coordinators, j \in Jobs :
        tasks'[c][j] < tasks[c][j] /\ state' # state => lock.owner = c

-----------------------------------------------------------------------------
(* What one admission chooses. *)

LEMMA ReachedQueued ==
    ASSUME NEW c, NEW queue, NEW versions, NEW S \in Reached(c, queue, versions)
    PROVE  S \subseteq Jobs /\ \A j \in S : queue[j] = "queued"
BY DEF Reached

LEMMA StartingClaimed ==
    ASSUME NEW c, NEW claimed, NEW S \in Starting(c, claimed)
    PROVE  S \subseteq claimed
BY DEF Starting

LEMMA DueFresh ==
    ASSUME NEW queue, NEW due \in DueReviews(queue), NEW j \in due
    PROVE  version[j] = 0
BY DEF DueReviews

(* A coordinator that may take the lease while work is in progress is the  *)
(* one that executes it, and has nothing to recover.                       *)
LEMMA LeaderOwns ==
    ASSUME LeaseInv, NEW c \in Coordinators, Available(c),
           NEW d \in Coordinators, NEW j \in Jobs, tasks[d][j] > 0
    PROVE  d = c /\ leaseHeld[c]
<1>1. lock = HeldBy(d) /\ leaseHeld[d]
  BY DEF LeaseInv, OwnersWork
<1>2. lock.owner = d /\ ~lock.expired
  BY <1>1 DEF HeldBy
<1>3. d # NONE
  BY SchedulerAssumption
<1> QED
  BY <1>1, <1>2, <1>3 DEF Available

(* The tick of the leader, for jobs in progress and for all others. *)
LEMMA StepLead ==
    ASSUME LeaseInv, NEW c \in Coordinators, Lead(c)
    PROVE  /\ LeaseInv'
           /\ \A j \in Jobs : state[j] \in Final => state'[j] = state[j]
           /\ \A d \in Coordinators, j \in Jobs : tasks[d][j] <= tasks'[d][j]
<1> USE DEF LeaseInv
<1>1. /\ TypeOK /\ mode[c] = "ticking" /\ Available(c) /\ lock' = HeldBy(c)
      /\ leaseHeld' = [leaseHeld EXCEPT ![c] = TRUE]
      /\ UNCHANGED <<company_, process, mode, stalls>>
  BY DEF Lead
<1>2. \A d \in Coordinators, j \in Jobs : tasks[d][j] > 0 => d = c /\ leaseHeld[c]
  BY <1>1, LeaderOwns
<1>3. \A j \in Jobs : /\ Recovered(c)[j] \in {state[j], "queued"}
                      /\ Recovered(c)[j] # state[j] => state[j] = "running" /\ ~leaseHeld[c]
  BY DEF Recovered
<1>4. Recovered(c) \in [Jobs -> {"absent"} \cup Pending \cup Final]
  BY <1>1 DEF Recovered, TypeOK, Pending
<1>5. CASE company # "running"
  <2>1. state' = Recovered(c) /\ UNCHANGED <<version, active, tasks>>
    BY <1>5 DEF Lead
  <2>2. TypeOK'
    BY <1>1, <1>4, <2>1 DEF TypeOK, HeldBy, company_, process
  <2>3. OwnersWork'
    BY <1>1, <1>2, <1>3, <2>1 DEF OwnersWork, TypeOK, company_
  <2>4. FreshAbsent'
    BY <1>3, <2>1 DEF FreshAbsent
  <2>5. \A j \in Jobs : state[j] \in Final => state'[j] = state[j]
    BY <1>3, <2>1 DEF Final
  <2> QED
    BY <1>1, <2>1, <2>2, <2>3, <2>4, <2>5 DEF TypeOK
<1>6. CASE company = "running"
  <2>1. PICK due \in DueReviews(Recovered(c)) :
            /\ version' = [j \in Jobs |-> IF j \in due THEN direction ELSE version[j]]
            /\ Admit(c, [j \in Jobs |-> IF j \in due THEN "queued" ELSE Recovered(c)[j]], version')
    BY <1>6 DEF Lead
  <2> DEFINE queue == [j \in Jobs |-> IF j \in due THEN "queued" ELSE Recovered(c)[j]]
  <2>2. PICK reached \in Reached(c, queue, version') :
            LET outdated == {j \in reached : Outdated(j, version')}
            IN  \E started \in Starting(c, reached \ outdated) :
                    /\ state' = [j \in Jobs |-> IF j \in outdated THEN "superseded"
                                                ELSE IF j \in started THEN "running" ELSE queue[j]]
                    /\ active' = [active EXCEPT ![c] = @ \cup started]
                    /\ tasks' = [tasks EXCEPT ![c] =
                                    [j \in Jobs |-> IF j \in started THEN @[j] + 1 ELSE @[j]]]
    BY <2>1 DEF Admit
  <2> DEFINE outdated == {j \in reached : Outdated(j, version')}
  <2>3. PICK started \in Starting(c, reached \ outdated) :
            /\ state' = [j \in Jobs |-> IF j \in outdated THEN "superseded"
                                        ELSE IF j \in started THEN "running" ELSE queue[j]]
            /\ active' = [active EXCEPT ![c] = @ \cup started]
            /\ tasks' = [tasks EXCEPT ![c] =
                            [j \in Jobs |-> IF j \in started THEN @[j] + 1 ELSE @[j]]]
    BY <2>2
  <2>4. reached \subseteq Jobs /\ \A j \in reached : queue[j] = "queued"
    BY ReachedQueued
  <2>5. started \subseteq reached /\ started \cap outdated = {}
    BY StartingClaimed
  <2>6. \A j \in due : version[j] = 0
    BY DueFresh
  <2>7. direction # 0
    BY <1>1, SchedulerAssumption DEF TypeOK
  (* Of the jobs in progress nothing is reached. *)
  <2>8. \A d \in Coordinators, j \in Jobs :
            tasks[d][j] > 0 => j \notin due /\ queue[j] = "running" /\ j \notin reached
    BY <1>2, <1>3, <1>6, <2>4, <2>6 DEF OwnersWork
  (* A job that is not in the queue was not reached. *)
  <2>9. \A j \in Jobs : state[j] \notin {"queued", "running"} /\ j \notin due => state'[j] = state[j]
    BY <1>3, <2>3, <2>4, <2>5
  <2>10. \A j \in Jobs : j \in reached => version'[j] # 0
    BY <1>3, <2>1, <2>4, <2>7 DEF FreshAbsent
  <2>11. tasks' = [d \in Coordinators |-> [j \in Jobs |->
                      IF d = c /\ j \in started THEN tasks[d][j] + 1 ELSE tasks[d][j]]]
    BY <1>1, <2>3 DEF TypeOK
  <2>12. \A d \in Coordinators, j \in Jobs : tasks[d][j] \in Nat
    BY <1>1 DEF TypeOK
  <2>13. TypeOK'
    <3>1. state' \in [Jobs -> {"absent"} \cup Pending \cup Final]
      BY <1>4, <2>3 DEF Pending, Final
    <3>2. version' \in [Jobs -> 0..MaxDirection]
      BY <1>1, <2>1, SchedulerAssumption DEF TypeOK
    <3>3. tasks' \in [Coordinators -> [Jobs -> Nat]]
      BY <2>11, <2>12
    <3>4. active' \in [Coordinators -> SUBSET Jobs]
      BY <1>1, <2>3, <2>4, <2>5 DEF TypeOK
    <3> QED
      BY <1>1, <3>1, <3>2, <3>3, <3>4 DEF TypeOK, HeldBy, company_, process
  <2>14. OwnersWork'
    <3> SUFFICES ASSUME NEW d \in Coordinators, NEW j \in Jobs, tasks'[d][j] > 0
                 PROVE  /\ tasks'[d][j] = 1 /\ lock' = HeldBy(d) /\ leaseHeld'[d]
                        /\ version'[j] # 0 /\ (company' = "deleted" \/ state'[j] = "running")
      BY DEF OwnersWork, HeldBy
    <3>1. CASE d = c /\ j \in started
      <4>1. tasks[d][j] = 0
        BY <2>5, <2>8, <2>12, <3>1
      <4> QED
        BY <1>1, <2>3, <2>5, <2>10, <2>11, <3>1, <4>1 DEF TypeOK
    <3>2. CASE ~(d = c /\ j \in started)
      <4>1. tasks[d][j] > 0 /\ tasks'[d][j] = tasks[d][j]
        BY <2>11, <3>2
      <4>2. d = c /\ leaseHeld'[d] /\ version'[j] = version[j] /\ state'[j] = "running"
        BY <1>1, <1>2, <2>1, <2>3, <2>5, <2>8, <4>1 DEF TypeOK
      <4> QED
        BY <1>1, <4>1, <4>2 DEF OwnersWork
    <3> QED
      BY <3>1, <3>2
  <2>15. FreshAbsent'
    BY <2>1, <2>7, <2>9, <2>10 DEF FreshAbsent
  <2>16. \A j \in Jobs : state[j] \in Final => state'[j] = state[j]
    BY <2>6, <2>9 DEF FreshAbsent, Final
  <2>17. \A d \in Coordinators, j \in Jobs : tasks[d][j] <= tasks'[d][j]
    BY <2>11, <2>12
  <2> QED
    BY <2>13, <2>14, <2>15, <2>16, <2>17
<1> QED
  BY <1>5, <1>6

-----------------------------------------------------------------------------
(* The other steps. *)

(* An ending execution clears its own entry and writes its own job. *)
LEMMA StepFinish ==
    ASSUME LeaseInv, NEW c \in Coordinators, NEW j \in Jobs, Finish(c, j)
    PROVE  LeaseInv' /\ SettledStep /\ LeasedStep
<1> USE DEF LeaseInv
<1>1. /\ tasks[c][j] = 1 /\ lock = HeldBy(c) /\ leaseHeld[c] /\ version[j] # 0
      /\ company = "deleted" \/ state[j] = "running"
  BY DEF Finish, OwnersWork
<1>2. PICK success \in BOOLEAN : state' = [state EXCEPT ![j] = Outcome(success)]
  BY <1>1 DEF Finish
<1>3. tasks' = [d \in Coordinators |-> [k \in Jobs |-> IF d = c /\ k = j THEN 0 ELSE tasks[d][k]]]
  <2>1. tasks' = [tasks EXCEPT ![c][j] = tasks[c][j] - 1]
    BY DEF Finish
  <2>2. tasks' = [tasks EXCEPT ![c][j] = 0]
    BY <1>1, <2>1
  <2> QED
    BY <2>2 DEF TypeOK
<1>4. Outcome(success) \in {"queued", "done", "failed"}
  BY DEF Outcome
<1>5. UNCHANGED <<company_, version, lock, process, mode, leaseHeld, stalls>>
      /\ active' = [active EXCEPT ![c] = @ \ {j}]
  BY DEF Finish
<1>6. TypeOK'
  BY <1>2, <1>3, <1>4, <1>5 DEF TypeOK, Pending, Final, company_, process
(* No other coordinator executes anything. *)
<1>7. \A d \in Coordinators, k \in Jobs : tasks'[d][k] > 0 => k # j /\ tasks'[d][k] = tasks[d][k]
  <2> SUFFICES ASSUME NEW d \in Coordinators, NEW k \in Jobs, tasks'[d][k] > 0
               PROVE  k # j /\ tasks'[d][k] = tasks[d][k]
    OBVIOUS
  <2>1. tasks'[d][k] = tasks[d][k] /\ ~(d = c /\ k = j)
    BY <1>3
  <2>2. lock = HeldBy(d)
    BY <2>1 DEF OwnersWork
  <2> QED
    BY <1>1, <2>1, <2>2 DEF HeldBy
<1>8. OwnersWork'
  BY <1>2, <1>5, <1>7 DEF OwnersWork, TypeOK, HeldBy, company_
<1>9. FreshAbsent'
  BY <1>1, <1>2, <1>5 DEF FreshAbsent, TypeOK
<1>10. SettledStep
  BY <1>1, <1>2, <1>5 DEF SettledStep, Final, TypeOK, company_
<1>11. LeasedStep
  <2> SUFFICES ASSUME NEW d \in Coordinators, NEW k \in Jobs, tasks'[d][k] < tasks[d][k]
               PROVE  d = c
    BY <1>1 DEF LeasedStep, HeldBy
  <2> QED
    BY <1>3 DEF TypeOK
<1> QED
  BY <1>6, <1>8, <1>9, <1>10, <1>11

(* A lease that somebody works under stays with its owner. *)
LEMMA ReleasedIdle ==
    ASSUME LeaseInv, NEW c \in Coordinators
    PROVE  /\ Released(c) \in [owner : Coordinators \cup {NONE}, expired : BOOLEAN]
           /\ \A d \in Coordinators, j \in Jobs : tasks[d][j] > 0 => Released(c) = lock
<1>1. \A d \in Coordinators, j \in Jobs : tasks[d][j] > 0 => lock.owner = d
  BY DEF LeaseInv, OwnersWork, HeldBy
<1> QED
  BY <1>1 DEF LeaseInv, TypeOK, Released, Free, NoTasks

LEMMA StepLease ==
    ASSUME Punctual, LeaseInv, [Next]_vars
    PROVE  LeaseInv' /\ SettledStep /\ LeasedStep
<1> USE DEF LeaseInv
<1> DEFINE Kept == LeaseInv' /\ SettledStep /\ LeasedStep
(* Work and its ownership are untouched by what changes neither. *)
<1>1. ASSUME UNCHANGED <<company_, state, version, leaseHeld, active, tasks>>, TypeOK',
             \A d \in Coordinators, j \in Jobs : tasks[d][j] > 0 => lock' = lock
      PROVE  Kept
  BY <1>1 DEF OwnersWork, FreshAbsent, SettledStep, LeasedStep, HeldBy, company_
<1>2. CASE Pause \/ Resume \/ Delete \/ Steer
  <2> DEFINE Untouched == UNCHANGED <<version, lock, leaseHeld, tasks>>
             Superseded == \A j \in Jobs : \/ state'[j] = state[j] \/ company' = "deleted"
                                           \/ state[j] = "queued" /\ state'[j] = "superseded"
  <2>a. ASSUME Pause \/ Resume PROVE TypeOK' /\ Untouched /\ Superseded
    BY <2>a DEF Pause, Resume, TypeOK, process, coordinator
  <2>b. ASSUME Delete PROVE TypeOK' /\ Untouched /\ Superseded
    <3>1. state' = [j \in Jobs |-> "absent"] /\ company' = "deleted"
      BY <2>b DEF Delete
    <3>2. TypeOK' /\ Untouched
      BY <2>b, <3>1 DEF Delete, TypeOK, process, coordinator
    <3> QED
      BY <3>1, <3>2
  <2>c. ASSUME Steer PROVE TypeOK' /\ Untouched /\ Superseded
    <3>1. direction' \in 1..MaxDirection
      BY <2>c, SchedulerAssumption DEF Steer, TypeOK
    <3>2. state' \in [Jobs -> {"absent"} \cup Pending \cup Final]
      BY <2>c DEF Steer, TypeOK, Pending, Final
    <3>3. TypeOK' /\ Untouched
      BY <2>c, <3>1, <3>2 DEF Steer, TypeOK, process, coordinator
    <3>4. Superseded
      BY <2>c DEF Steer
    <3> QED
      BY <3>3, <3>4
  <2>1. TypeOK' /\ Untouched
    BY <1>2, <2>a, <2>b, <2>c
  <2>2. Superseded
    BY <1>2, <2>a, <2>b, <2>c
  <2>3. company = "deleted" => company' = "deleted"
    BY <1>2 DEF Pause, Resume, Delete, Steer
  <2>4. OwnersWork'
    BY <2>1, <2>2, <2>3 DEF OwnersWork, HeldBy
  <2>5. FreshAbsent'
    BY <1>2 DEF FreshAbsent, Pause, Resume, Delete, Steer
  <2>6. SettledStep /\ LeasedStep
    BY <2>1, <2>2 DEF SettledStep, LeasedStep, Final, TypeOK
  <2> QED
    BY <2>1, <2>4, <2>5, <2>6
<1>3. CASE Expire
  <2>1. lock.owner \in Coordinators /\ NoTasks(lock.owner) /\ stalls' = stalls
    BY <1>3 DEF Expire, Punctual, TypeOK
  <2>2. \A d \in Coordinators, j \in Jobs : tasks[d][j] > 0 => FALSE
    BY <2>1 DEF OwnersWork, HeldBy, NoTasks
  <2>3. TypeOK'
    BY <1>3, <2>1 DEF Expire, TypeOK, company_, process, coordinator
  <2> QED
    BY <1>1, <1>3, <2>2, <2>3 DEF Expire, coordinator
<1>4. ASSUME NEW j \in Jobs, Enqueue(j) PROVE Kept
  <2>1. TypeOK' /\ UNCHANGED <<company, lock, leaseHeld, tasks>>
    BY <1>4, SchedulerAssumption DEF Enqueue, TypeOK, Pending, company_, process, coordinator
  <2>2. state[j] = "absent" /\ version[j] = 0 /\ version'[j] # 0
        /\ \A k \in Jobs \ {j} : state'[k] = state[k] /\ version'[k] = version[k]
    BY <1>4, SchedulerAssumption DEF Enqueue, TypeOK, FreshAbsent
  <2>3. OwnersWork' /\ FreshAbsent' /\ SettledStep /\ LeasedStep
    BY <2>1, <2>2 DEF OwnersWork, FreshAbsent, SettledStep, LeasedStep, Final, HeldBy, TypeOK
  <2> QED
    BY <2>1, <2>3
<1>5. ASSUME NEW s \in Servers, Disable(s) \/ StopServer(s) PROVE Kept
  <2>1. assigned[s] \in Coordinators /\ lock' = Released(assigned[s])
    BY <1>5 DEF Disable, StopServer, TypeOK
  <2>2. UNCHANGED <<company_, state, version, server, leaseHeld, active, tasks, stalls>>
    BY <1>5 DEF Disable, StopServer
  <2>3. TypeOK'
    BY <1>5, <2>1, <2>2, ReleasedIdle DEF Disable, StopServer, TypeOK, company_
  <2> QED
    BY <1>1, <2>1, <2>2, <2>3, ReleasedIdle
<1>6. ASSUME NEW s \in Servers, Crash(s) PROVE Kept
  <2>1. UNCHANGED <<company_, state, version, lock, server, leaseHeld, stalls>>
    BY <1>6 DEF Crash
  <2>2. tasks' = [c \in Coordinators |-> IF server[c] = s THEN [j \in Jobs |-> 0] ELSE tasks[c]]
    BY <1>6 DEF Crash
  <2>3. TypeOK'
    BY <1>6, <2>1, <2>2 DEF Crash, TypeOK, company_
  <2>4. \A c \in Coordinators, j \in Jobs : tasks'[c][j] > 0 => tasks'[c][j] = tasks[c][j]
    BY <2>2
  <2> QED
    BY <2>1, <2>3, <2>4 DEF OwnersWork, FreshAbsent, SettledStep, LeasedStep, HeldBy, company_
<1>7. ASSUME NEW s \in Servers, NEW c \in Coordinators, Ensure(s, c) PROVE Kept
  <2>1. TypeOK'
    BY <1>7 DEF Ensure, TypeOK, company_
  <2> QED
    BY <1>1, <1>7, <2>1 DEF Ensure
<1>8. ASSUME NEW c \in Coordinators, Lead(c) PROVE Kept
  <2>1. \A d \in Coordinators, j \in Jobs : ~(tasks'[d][j] < tasks[d][j])
    BY <1>8, StepLead DEF TypeOK
  <2> QED
    BY <1>8, <2>1, StepLead DEF SettledStep, LeasedStep
<1>9. ASSUME NEW c \in Coordinators, Lose(c) PROVE Kept
  (* What it lost was not work: an owner with work in progress can renew. *)
  <2>1. NoTasks(c)
    BY <1>9 DEF Lose, NoTasks, OwnersWork, HeldBy, Available, TypeOK
  <2>2. /\ lock' = Released(c) /\ UNCHANGED <<company_, state, version, process, active, tasks, stalls>>
        /\ leaseHeld' = [leaseHeld EXCEPT ![c] = FALSE] /\ mode' = [mode EXCEPT ![c] = "stopped"]
    BY <1>9 DEF Lose
  <2>3. TypeOK'
    BY <2>2, ReleasedIdle DEF TypeOK, company_, process
  <2>4. \A d \in Coordinators, j \in Jobs : tasks[d][j] > 0 => d # c /\ lock' = lock
    BY <2>1, <2>2, ReleasedIdle DEF NoTasks
  <2>5. OwnersWork'
    BY <2>2, <2>4 DEF OwnersWork, HeldBy, TypeOK, company_
  <2> QED
    BY <2>2, <2>3, <2>5 DEF FreshAbsent, SettledStep, LeasedStep
<1>10. ASSUME NEW c \in Coordinators, DrainEnds(c) PROVE Kept
  <2>1. lock' = Released(c) /\ UNCHANGED <<company_, state, version, process, leaseHeld, active, tasks, stalls>>
        /\ mode' = [mode EXCEPT ![c] = "stopped"]
    BY <1>10 DEF DrainEnds
  <2>2. TypeOK'
    BY <2>1, ReleasedIdle DEF TypeOK, company_, process
  <2> QED
    BY <1>1, <2>1, <2>2, ReleasedIdle
<1>11. ASSUME NEW c \in Coordinators, NEW j \in Jobs, Finish(c, j) PROVE Kept
  BY <1>11, StepFinish
<1>12. CASE UNCHANGED vars
  BY <1>1, <1>12 DEF vars, TypeOK, company_, process, coordinator
<1> QED
  BY <1>2, <1>3, <1>4, <1>5, <1>6, <1>7, <1>8, <1>9, <1>10, <1>11, <1>12 DEF Next, Tick

LEMMA InitLease == Init => LeaseInv
<1> SUFFICES ASSUME Init PROVE LeaseInv
  OBVIOUS
<1>1. TypeOK
  BY SchedulerAssumption DEF Init, TypeOK, Free
<1> QED
  BY <1>1 DEF Init, LeaseInv, OwnersWork, FreshAbsent

-----------------------------------------------------------------------------
(* While renewals are punctual, work in progress belongs to the owner of   *)
(* the lease.                                                              *)
THEOREM LeaseHolds == ASSUME Punctual PROVE Spec => []LeaseInv
<1>1. LeaseInv /\ [Next]_vars => LeaseInv'
  BY StepLease
<1> QED
  BY <1>1, InitLease, PTL DEF Spec

(* CompanyCoordinator.tick: no job is executed by two coordinators, or     *)
(* twice by one.                                                           *)
THEOREM WorkRunsOnce == ASSUME Punctual PROVE Spec => []RunsOnce
<1>1. LeaseInv => RunsOnce
  <2> SUFFICES ASSUME LeaseInv, NEW c \in Coordinators, NEW d \in Coordinators, NEW j \in Jobs
               PROVE  /\ tasks[c][j] <= 1
                      /\ tasks[c][j] > 0 /\ tasks[d][j] > 0 => c = d
    BY DEF RunsOnce
  <2>1. tasks[c][j] \in Nat
    BY DEF LeaseInv, TypeOK
  <2>2. tasks[c][j] > 0 => tasks[c][j] = 1 /\ lock = HeldBy(c)
    BY DEF LeaseInv, OwnersWork
  <2>3. tasks[d][j] > 0 => lock = HeldBy(d)
    BY DEF LeaseInv, OwnersWork
  <2> QED
    BY <2>1, <2>2, <2>3 DEF HeldBy
<1> QED
  BY <1>1, LeaseHolds, PTL

(* The completion handlers change the store only for the lease's owner.    *)
THEOREM CompletionsUnderLease == ASSUME Punctual PROVE Spec => WritesUnderLease
<1>1. LeaseInv /\ [Next]_vars => LeasedStep
  BY StepLease
<1>2. Spec => [][LeasedStep]_vars
  BY <1>1, LeaseHolds, PTL DEF Spec
<1> QED
  BY <1>2 DEF WritesUnderLease, LeasedStep

(* A done, failed or superseded job is never taken up again.               *)
THEOREM SettledIsFinal == ASSUME Punctual PROVE Spec => SettledStays
<1>1. LeaseInv /\ [Next]_vars => SettledStep
  BY StepLease
<1>2. Spec => [][SettledStep]_vars
  BY <1>1, LeaseHolds, PTL DEF Spec
<1> QED
  BY <1>2 DEF SettledStays, SettledStep

-----------------------------------------------------------------------------
(* The records follow the work.  Whoever ticks and believes to lead is the *)
(* owner of a lease in force, and has recovered what was recorded as       *)
(* running before: what is recorded now is its own.                        *)
Leads(c) == mode[c] = "ticking" /\ leaseHeld[c]

LeaderInv ==
    \A c \in Coordinators :
        /\ mode[c] = "new" => ~leaseHeld[c]
        /\ Leads(c) => /\ lock = HeldBy(c)
                       /\ \A j \in Jobs : state[j] = "running" => tasks[c][j] > 0

OneReview == \A j, k \in Reviews : state[j] \in Pending /\ state[k] \in Pending => j = k

RecordInv == LeaseInv /\ LeaderInv /\ OneReview

(* What a tick of the leader leaves as running it executes, and what it    *)
(* leaves as pending was so before, but for the review that was due.       *)
LEMMA LeadRecords ==
    ASSUME LeaseInv, NEW c \in Coordinators, Lead(c)
    PROVE  /\ \A j \in Jobs : state'[j] = "running" =>
                  tasks'[c][j] > 0 \/ (state[j] = "running" /\ leaseHeld[c] /\ tasks'[c][j] = tasks[c][j])
           /\ \E due \in DueReviews(Recovered(c)) :
                  \A j \in Jobs : state'[j] \in Pending => j \in due \/ Recovered(c)[j] \in Pending
<1>1. \A j \in Jobs : Recovered(c)[j] = "running" => state[j] = "running" /\ leaseHeld[c]
  BY DEF Recovered
<1>2. CASE company # "running"
  <2>1. state' = Recovered(c) /\ UNCHANGED tasks
    BY <1>2 DEF Lead
  <2>2. {} \in DueReviews(Recovered(c))
    BY DEF DueReviews
  <2> QED
    BY <1>1, <2>1, <2>2
<1>3. CASE company = "running"
  <2>1. PICK due \in DueReviews(Recovered(c)) :
            Admit(c, [j \in Jobs |-> IF j \in due THEN "queued" ELSE Recovered(c)[j]], version')
    BY <1>3 DEF Lead
  <2> DEFINE queue == [j \in Jobs |-> IF j \in due THEN "queued" ELSE Recovered(c)[j]]
  <2>2. PICK reached \in Reached(c, queue, version') :
            LET outdated == {j \in reached : Outdated(j, version')}
            IN  \E started \in Starting(c, reached \ outdated) :
                    /\ state' = [j \in Jobs |-> IF j \in outdated THEN "superseded"
                                                ELSE IF j \in started THEN "running" ELSE queue[j]]
                    /\ tasks' = [tasks EXCEPT ![c] =
                                    [j \in Jobs |-> IF j \in started THEN @[j] + 1 ELSE @[j]]]
    BY <2>1 DEF Admit
  <2> DEFINE outdated == {j \in reached : Outdated(j, version')}
  <2>3. PICK started \in Starting(c, reached \ outdated) :
            /\ state' = [j \in Jobs |-> IF j \in outdated THEN "superseded"
                                        ELSE IF j \in started THEN "running" ELSE queue[j]]
            /\ tasks' = [tasks EXCEPT ![c] =
                            [j \in Jobs |-> IF j \in started THEN @[j] + 1 ELSE @[j]]]
    BY <2>2
  <2>4. started \subseteq reached /\ reached \subseteq Jobs /\ \A j \in reached : queue[j] = "queued"
    BY ReachedQueued, StartingClaimed
  <2>5. \A j \in Jobs : tasks[c][j] \in Nat
    BY DEF LeaseInv, TypeOK
  <2>6. \A j \in Jobs : tasks'[c][j] = IF j \in started THEN tasks[c][j] + 1 ELSE tasks[c][j]
    BY <2>3 DEF LeaseInv, TypeOK
  <2>7. ASSUME NEW j \in Jobs, state'[j] = "running"
        PROVE  tasks'[c][j] > 0 \/ (state[j] = "running" /\ leaseHeld[c] /\ tasks'[c][j] = tasks[c][j])
    <3>1. CASE j \in started
      BY <2>5, <2>6, <3>1
    <3>2. CASE j \notin started
      <4>1. Recovered(c)[j] = "running"
        BY <2>3, <2>7, <3>2
      <4> QED
        BY <1>1, <2>6, <3>2, <4>1
    <3> QED
      BY <3>1, <3>2
  <2>8. ASSUME NEW j \in Jobs, state'[j] \in Pending, j \notin due
        PROVE  Recovered(c)[j] \in Pending
    BY <2>3, <2>4, <2>8 DEF Pending
  <2> QED
    BY <2>7, <2>8
<1> QED
  BY <1>2, <1>3

(* Nobody else leads when a coordinator may take the lease. *)
LEMMA LeaderAlone ==
    ASSUME RecordInv, NEW c \in Coordinators, Available(c), NEW d \in Coordinators, Leads(d)
    PROVE  d = c
BY SchedulerAssumption DEF RecordInv, LeaderInv, Available, HeldBy

LEMMA LeadKeepsRecords ==
    ASSUME RecordInv, NEW c \in Coordinators, Lead(c)
    PROVE  RecordInv'
<1>1. /\ mode[c] = "ticking" /\ Available(c) /\ lock' = HeldBy(c)
      /\ leaseHeld' = [leaseHeld EXCEPT ![c] = TRUE] /\ UNCHANGED <<process, mode>>
  BY DEF Lead
<1>2. LeaseInv'
  BY StepLead DEF RecordInv
<1>3. LeaderInv'
  <2> SUFFICES ASSUME NEW d \in Coordinators
               PROVE  /\ mode'[d] = "new" => ~leaseHeld'[d]
                      /\ mode'[d] = "ticking" /\ leaseHeld'[d] =>
                            /\ lock' = HeldBy(d)
                            /\ \A j \in Jobs : state'[j] = "running" => tasks'[d][j] > 0
    BY DEF LeaderInv, Leads, HeldBy
  <2>1. CASE d = c
    <3>1. \A j \in Jobs : state'[j] = "running" => tasks'[c][j] > 0
      BY <1>1, LeadRecords DEF RecordInv, LeaderInv, Leads
    <3> QED
      BY <1>1, <2>1, <3>1
  <2>2. CASE d # c
    <3>1. mode'[d] = mode[d] /\ leaseHeld'[d] = leaseHeld[d]
      BY <1>1, <2>2 DEF RecordInv, LeaseInv, TypeOK
    <3>2. ~Leads(d)
      BY <1>1, <2>2, LeaderAlone
    <3> QED
      BY <3>1, <3>2 DEF RecordInv, LeaderInv, Leads
  <2> QED
    BY <2>1, <2>2
<1>4. OneReview'
  <2>1. PICK due \in DueReviews(Recovered(c)) :
            \A j \in Jobs : state'[j] \in Pending => j \in due \/ Recovered(c)[j] \in Pending
    BY LeadRecords DEF RecordInv
  <2>2. \A j \in Jobs : Recovered(c)[j] \in Pending => state[j] \in Pending
    BY DEF Recovered, Pending
  <2>3. \/ due = {}
        \/ /\ \A j \in Reviews : Recovered(c)[j] \notin Pending
           /\ \A j, k \in due : j = k
    BY DEF DueReviews
  <2> QED
    BY <2>1, <2>2, <2>3, SchedulerAssumption DEF OneReview, RecordInv
<1> QED
  BY <1>2, <1>3, <1>4 DEF RecordInv

(* An execution that ends is no longer recorded as running. *)
LEMMA FinishKeepsRecords ==
    ASSUME RecordInv, NEW c \in Coordinators, NEW j \in Jobs, Finish(c, j)
    PROVE  RecordInv'
<1>1. /\ tasks[c][j] > 0 /\ lock = HeldBy(c) /\ leaseHeld[c]
      /\ company = "deleted" \/ state[j] = "running"
  BY DEF Finish, RecordInv, LeaseInv, OwnersWork
<1>2. PICK success \in BOOLEAN : state' = [state EXCEPT ![j] = Outcome(success)]
  BY <1>1 DEF Finish
<1>3. /\ tasks' = [tasks EXCEPT ![c][j] = @ - 1]
      /\ UNCHANGED <<company_, version, lock, process, mode, leaseHeld, stalls>>
  BY DEF Finish
<1>4. Outcome(success) # "running" /\ (Outcome(success) \in Pending => company = "paused")
  BY DEF Outcome, Pending
<1>5. \A k \in Jobs : k # j => state'[k] = state[k]
  BY <1>2 DEF RecordInv, LeaseInv, TypeOK
<1>6. state'[j] = Outcome(success)
  BY <1>2 DEF RecordInv, LeaseInv, TypeOK
<1>7. \A d \in Coordinators, k \in Jobs : k # j => tasks'[d][k] = tasks[d][k]
  BY <1>3 DEF RecordInv, LeaseInv, TypeOK
<1>8. LeaseInv'
  BY StepFinish DEF RecordInv
<1>9. LeaderInv'
  BY <1>3, <1>4, <1>5, <1>6, <1>7 DEF RecordInv, LeaderInv, Leads, HeldBy
<1>10. \A k \in Jobs : state'[k] \in Pending => state[k] \in Pending
  BY <1>1, <1>4, <1>5, <1>6 DEF Pending
<1>11. OneReview'
  BY <1>10, SchedulerAssumption DEF RecordInv, OneReview
<1> QED
  BY <1>8, <1>9, <1>11 DEF RecordInv

LEMMA StepRecords ==
    ASSUME Punctual, RecordInv, [Next]_vars
    PROVE  RecordInv'
<1> DEFINE Fewer == \A j \in Jobs : state'[j] \in Pending => state'[j] = state[j]
<1>1. LeaseInv' /\ TypeOK
  BY StepLease DEF RecordInv, LeaseInv
(* What stops coordinators, or none, and runs nothing. *)
<1>2. ASSUME Fewer,
             \A c \in Coordinators : mode'[c] = "ticking" /\ leaseHeld'[c] => Leads(c) /\ tasks'[c] = tasks[c],
             \A c \in Coordinators : mode'[c] = "new" => mode[c] = "new" /\ leaseHeld'[c] = leaseHeld[c],
             \A c \in Coordinators : Leads(c) /\ mode'[c] = "ticking" /\ leaseHeld'[c] => lock' = lock
      PROVE  RecordInv'
  <2>1. \A j \in Jobs : state'[j] = "running" => state[j] = "running"
    BY <1>2 DEF Pending
  <2>2. LeaderInv'
    BY <1>2, <2>1 DEF RecordInv, LeaderInv, Leads, HeldBy
  <2>3. OneReview'
    BY <1>2, SchedulerAssumption DEF RecordInv, OneReview
  <2> QED
    BY <1>1, <1>2, <2>2, <2>3 DEF RecordInv
<1>3. CASE Pause \/ Resume \/ Delete \/ Steer
  <2>1. UNCHANGED <<lock, process, coordinator>>
    BY <1>3 DEF Pause, Resume, Delete, Steer
  <2>2. Fewer
    BY <1>3 DEF Pause, Resume, Delete, Steer, Pending
  <2> QED
    BY <1>2, <2>1, <2>2 DEF Leads, coordinator
<1>4. CASE Expire
  <2>a. ~(stalls < MaxStalls)
    BY <1>1 DEF Punctual, TypeOK
  <2>1. mode[lock.owner] # "ticking"
    BY <1>4, <2>a DEF Expire
  <2>2. UNCHANGED <<state, process, coordinator>>
    BY <1>4 DEF Expire
  <2>3. \A c \in Coordinators : ~Leads(c)
    BY <2>1 DEF RecordInv, LeaderInv, Leads, HeldBy
  <2> QED
    BY <1>2, <2>2, <2>3 DEF Leads, coordinator
<1>5. ASSUME NEW j \in Jobs, Enqueue(j) PROVE RecordInv'
  <2>1. /\ UNCHANGED <<lock, process, coordinator>> /\ j \notin Reviews
        /\ state' = [state EXCEPT ![j] = "queued"]
    BY <1>5 DEF Enqueue
  <2>2. \A k \in Jobs : state'[k] = "running" => state[k] = "running"
    BY <1>1, <2>1 DEF TypeOK
  <2>3. \A k \in Reviews : state'[k] = state[k]
    BY <1>1, <2>1, SchedulerAssumption DEF TypeOK
  <2>4. LeaderInv'
    BY <2>1, <2>2 DEF RecordInv, LeaderInv, Leads, HeldBy, coordinator
  <2>5. OneReview'
    BY <2>1, <2>3 DEF RecordInv, OneReview
  <2> QED
    BY <1>1, <2>4, <2>5 DEF RecordInv
<1>6. ASSUME NEW s \in Servers, Disable(s) \/ StopServer(s) PROVE RecordInv'
  <2>1. /\ assigned[s] \in Coordinators /\ assigned' = [assigned EXCEPT ![s] = NONE]
        /\ UNCHANGED <<state, server, leaseHeld, active, tasks>> /\ lock' = Released(assigned[s])
    BY <1>1, <1>6 DEF Disable, StopServer, TypeOK
  <2>2. PICK to \in {"stopped", "draining"} : mode' = [mode EXCEPT ![assigned[s]] = to]
    BY <1>6 DEF Disable, StopServer
  <2>3. \A c \in Coordinators : c # assigned[s] => mode'[c] = mode[c]
    BY <1>1, <2>1, <2>2 DEF TypeOK
  <2>4. mode'[assigned[s]] \in {"stopped", "draining"}
    BY <1>1, <2>1, <2>2 DEF TypeOK
  <2>5. \A c \in Coordinators : Leads(c) /\ c # assigned[s] => lock' = lock
    BY <2>1 DEF RecordInv, LeaderInv, HeldBy, Released
  <2> QED
    BY <1>2, <2>1, <2>3, <2>4, <2>5 DEF Leads
<1>7. ASSUME NEW s \in Servers, Crash(s) PROVE RecordInv'
  <2>1. /\ assigned' = [assigned EXCEPT ![s] = NONE] /\ UNCHANGED <<state, lock, server, leaseHeld>>
        /\ mode' = [c \in Coordinators |-> IF server[c] = s THEN "dead" ELSE mode[c]]
        /\ tasks' = [c \in Coordinators |-> IF server[c] = s THEN [j \in Jobs |-> 0] ELSE tasks[c]]
    BY <1>7 DEF Crash
  <2> QED
    BY <1>2, <2>1 DEF Leads
<1>8. ASSUME NEW s \in Servers, NEW c \in Coordinators, Ensure(s, c) PROVE RecordInv'
  <2>1. /\ mode[c] = "new" /\ assigned[s] = NONE
        /\ assigned' = [assigned EXCEPT ![s] = c] /\ server' = [server EXCEPT ![c] = s]
        /\ mode' = [mode EXCEPT ![c] = "ticking"] /\ UNCHANGED <<state, lock, leaseHeld, tasks>>
    BY <1>8 DEF Ensure
  <2>2. ~leaseHeld[c]
    BY <2>1 DEF RecordInv, LeaderInv
  <2>4. \A d \in Coordinators : d # c => mode'[d] = mode[d]
    BY <1>1, <2>1 DEF TypeOK
  <2>5. mode'[c] = "ticking"
    BY <1>1, <2>1 DEF TypeOK
  <2> QED
    BY <1>2, <2>1, <2>2, <2>4, <2>5 DEF Leads
<1>9. ASSUME NEW c \in Coordinators, Lead(c) PROVE RecordInv'
  BY <1>9, LeadKeepsRecords
(* A leader that ticks has its lease and does not lose it. *)
<1>10. ASSUME NEW c \in Coordinators, Lose(c) PROVE RecordInv'
  BY <1>10 DEF Lose, RecordInv, LeaderInv, Leads, HeldBy, Available
<1>11. ASSUME NEW c \in Coordinators, DrainEnds(c) PROVE RecordInv'
  <2>1. /\ mode[c] = "draining" /\ mode' = [mode EXCEPT ![c] = "stopped"] /\ lock' = Released(c)
        /\ UNCHANGED <<state, process, leaseHeld, tasks>>
    BY <1>11 DEF DrainEnds
  <2>2. \A d \in Coordinators : d # c => mode'[d] = mode[d]
    BY <1>1, <2>1 DEF TypeOK
  <2>3. mode'[c] = "stopped"
    BY <1>1, <2>1 DEF TypeOK
  <2>4. \A d \in Coordinators : Leads(d) => lock' = lock
    BY <2>1 DEF RecordInv, LeaderInv, Leads, HeldBy, Released
  <2> QED
    BY <1>2, <2>1, <2>2, <2>3, <2>4 DEF Leads
<1>12. ASSUME NEW c \in Coordinators, NEW j \in Jobs, Finish(c, j) PROVE RecordInv'
  BY <1>12, FinishKeepsRecords
<1>13. CASE UNCHANGED vars
  BY <1>2, <1>13 DEF vars, Leads, coordinator
<1> QED
  BY <1>3, <1>4, <1>5, <1>6, <1>7, <1>8, <1>9, <1>10, <1>11, <1>12, <1>13 DEF Next, Tick

LEMMA InitRecords == Init => RecordInv
<1> SUFFICES ASSUME Init PROVE RecordInv
  OBVIOUS
<1>1. LeaseInv
  BY InitLease
<1>2. LeaderInv /\ OneReview
  BY SchedulerAssumption DEF Init, LeaderInv, Leads, OneReview, Pending
<1> QED
  BY <1>1, <1>2 DEF RecordInv

(* While renewals are punctual, the records of jobs follow their           *)
(* executions.                                                             *)
THEOREM RecordsHold == ASSUME Punctual PROVE Spec => []RecordInv
<1>1. RecordInv /\ [Next]_vars => RecordInv'
  BY StepRecords
<1> QED
  BY <1>1, InitRecords, PTL DEF Spec

(* recover(): nothing stays recorded as running that nobody executes.      *)
THEOREM NothingOrphaned == ASSUME Punctual PROVE Spec => []RunningIsExecuted
<1>1. RecordInv => RunningIsExecuted
  BY DEF RecordInv, LeaderInv, Leads, RunningIsExecuted
<1> QED
  BY <1>1, RecordsHold, PTL

(* The dedupe key of reviews, through recovery and completion: one waits   *)
(* or is in progress.                                                      *)
THEOREM ReviewsOneByOne == ASSUME Punctual PROVE Spec => []ReviewIsOne
<1>1. ASSUME OneReview PROVE ReviewIsOne
  <2> DEFINE R == {j \in Reviews : state[j] \in Pending}
  <2>1. CASE R = {}
    BY <2>1, FS_EmptySet DEF ReviewIsOne
  <2>2. CASE R # {}
    <3>1. PICK r \in R : R = {r}
      BY <1>1, <2>2 DEF OneReview
    <3>2. Cardinality({r}) = 1
      BY FS_Singleton
    <3>3. Cardinality(R) = 1
      BY <3>1, <3>2
    <3> QED
      BY <3>3 DEF ReviewIsOne
  <2> QED
    BY <2>1, <2>2
<1>2. RecordInv => ReviewIsOne
  BY <1>1 DEF RecordInv
<1> QED
  BY <1>2, RecordsHold, PTL

-----------------------------------------------------------------------------
(* The queue and its pool of workers.                                      *)

(* What a coordinator counts as active is what it executes, it never takes *)
(* more than its limit, and a deleted company has nothing in its queue.    *)
PoolInv ==
    /\ \A c \in Coordinators : active[c] = {j \in Jobs : tasks[c][j] > 0} /\ Cardinality(active[c]) <= Workers
    /\ IsFiniteSet(Known)
    /\ company = "deleted" => \A j \in Jobs : state[j] \notin Pending

LEMMA PoolCounts == \A S : Pool!Cardinality(S) = Cardinality(S)
BY DEF Pool!Cardinality, Cardinality

(* There are finitely many jobs so far, and so few in execution.           *)
LEMMA ExecutionsBounded ==
    ASSUME LeaseInv, PoolInv
    PROVE  /\ Executing \subseteq Known /\ IsFiniteSet(Executing) /\ Cardinality(Executing) <= Workers
           /\ \A c \in Coordinators : IsFiniteSet(active[c])
<1>1. Executing \subseteq Known
  BY DEF LeaseInv, OwnersWork, Executing, Known
<1>2. IsFiniteSet(Known)
  BY DEF PoolInv
<1>3. \A c \in Coordinators : active[c] \subseteq Executing
  BY DEF PoolInv, Executing
<1>4. IsFiniteSet(Executing) /\ \A c \in Coordinators : IsFiniteSet(active[c])
  BY <1>1, <1>2, <1>3, FS_Subset
<1>5. CASE Executing = {}
  BY <1>1, <1>4, <1>5, FS_EmptySet, SchedulerAssumption
<1>6. CASE Executing # {}
  <2>1. PICK d \in Coordinators : lock = HeldBy(d)
    BY <1>6 DEF Executing, LeaseInv, OwnersWork
  <2>2. Executing = active[d]
    BY <2>1 DEF Executing, LeaseInv, OwnersWork, PoolInv, HeldBy
  <2> QED
    BY <1>1, <1>4, <2>2 DEF PoolInv
<1> QED
  BY <1>5, <1>6

(* Steps that start nothing keep the limits. *)
LEMMA PoolStays ==
    ASSUME LeaseInv, PoolInv,
           \A c \in Coordinators : active'[c] \subseteq active[c] /\ active'[c] = {j \in Jobs : tasks'[c][j] > 0},
           IsFiniteSet(Known'), company' = "deleted" => \A j \in Jobs : state'[j] \notin Pending
    PROVE  PoolInv'
<1>1. ASSUME NEW c \in Coordinators PROVE Cardinality(active'[c]) <= Workers
  <2>1. IsFiniteSet(active[c]) /\ active'[c] \subseteq active[c]
    BY ExecutionsBounded
  <2>2. /\ IsFiniteSet(active'[c]) /\ Cardinality(active[c]) \in Nat /\ Cardinality(active'[c]) \in Nat
        /\ Cardinality(active'[c]) <= Cardinality(active[c])
    BY <2>1, FS_Subset, FS_CardinalityType
  <2>3. Cardinality(active[c]) <= Workers /\ Workers \in Nat
    BY SchedulerAssumption DEF PoolInv
  <2> QED
    BY <2>2, <2>3
<1> QED
  BY <1>1 DEF PoolInv

(* The queue of a tick is what waited, was recovered or is due; what the   *)
(* tick starts fits into the limit beside what its coordinator executes.   *)
LEMMA LeadDispatches ==
    ASSUME LeaseInv, PoolInv, NEW c \in Coordinators, Lead(c)
    PROVE  PoolInv' /\ [Pool!Next]_Pool!vars
<1> USE DEF LeaseInv
<1>1. TypeOK /\ Available(c) /\ UNCHANGED company
  BY DEF Lead, company_
<1>2. \A d \in Coordinators, j \in Jobs : tasks[d][j] > 0 => d = c /\ leaseHeld[c]
  BY <1>1, LeaderOwns
<1>3. \A j \in Jobs : /\ Recovered(c)[j] \in {state[j], "queued"}
                      /\ Recovered(c)[j] # state[j] => state[j] = "running" /\ ~leaseHeld[c]
  BY DEF Recovered
<1>4. CASE company # "running"
  <2>1. state' = Recovered(c) /\ UNCHANGED <<version, active, tasks>>
    BY <1>4 DEF Lead
  <2>2. \A j \in Jobs : (state'[j] \in Pending <=> state[j] \in Pending) /\ (state'[j] \in Final <=> state[j] \in Final)
    BY <1>3, <2>1 DEF Pending, Final
  <2>3. Known' = Known /\ Executing' = Executing
    BY <2>1 DEF Known, Executing
  <2>4. Queueing' = Queueing /\ Settled' = Settled
    BY <2>2, <2>3 DEF Queueing, Settled
  <2>5. PoolInv'
    BY <1>1, <2>1, <2>2, <2>3 DEF PoolInv
  <2> QED
    BY <1>1, <2>3, <2>4, <2>5 DEF Pool!vars
<1>5. CASE company = "running"
  <2>1. PICK due \in DueReviews(Recovered(c)) :
            /\ version' = [j \in Jobs |-> IF j \in due THEN direction ELSE version[j]]
            /\ Admit(c, [j \in Jobs |-> IF j \in due THEN "queued" ELSE Recovered(c)[j]], version')
    BY <1>5 DEF Lead
  <2> DEFINE queue == [j \in Jobs |-> IF j \in due THEN "queued" ELSE Recovered(c)[j]]
  <2>2. PICK reached \in Reached(c, queue, version') :
            LET outdated == {j \in reached : Outdated(j, version')}
            IN  \E started \in Starting(c, reached \ outdated) :
                    /\ state' = [j \in Jobs |-> IF j \in outdated THEN "superseded"
                                                ELSE IF j \in started THEN "running" ELSE queue[j]]
                    /\ active' = [active EXCEPT ![c] = @ \cup started]
                    /\ tasks' = [tasks EXCEPT ![c] =
                                    [j \in Jobs |-> IF j \in started THEN @[j] + 1 ELSE @[j]]]
    BY <2>1 DEF Admit
  <2> DEFINE outdated == {j \in reached : Outdated(j, version')}
  <2>3. PICK started \in Starting(c, reached \ outdated) :
            /\ state' = [j \in Jobs |-> IF j \in outdated THEN "superseded"
                                        ELSE IF j \in started THEN "running" ELSE queue[j]]
            /\ active' = [active EXCEPT ![c] = @ \cup started]
            /\ tasks' = [tasks EXCEPT ![c] =
                            [j \in Jobs |-> IF j \in started THEN @[j] + 1 ELSE @[j]]]
    BY <2>2
  <2>4. reached \subseteq Jobs /\ \A j \in reached : queue[j] = "queued"
    BY ReachedQueued
  <2>5. started \subseteq reached \ outdated
    BY StartingClaimed
  <2>6. /\ due \subseteq Jobs /\ IsFiniteSet(due) /\ \A j \in due : version[j] = 0
    <3>1. due = {} \/ \E j \in Reviews : due = {j} /\ version[j] = 0
      BY DEF DueReviews
    <3>2. CASE due = {}
      BY <3>2, FS_EmptySet
    <3>3. CASE \E j \in Reviews : due = {j} /\ version[j] = 0
      <4>1. PICK j \in Reviews : due = {j} /\ version[j] = 0
        BY <3>3
      <4>2. IsFiniteSet({j})
        BY FS_Singleton
      <4> QED
        BY <4>1, <4>2, SchedulerAssumption
    <3> QED
      BY <3>1, <3>2, <3>3
  <2>7. direction # 0
    BY <1>1, SchedulerAssumption DEF TypeOK
  <2>8. \A j \in Executing : j \notin due /\ j \notin reached /\ Recovered(c)[j] = "running"
    BY <1>2, <1>3, <1>5, <2>4, <2>6 DEF OwnersWork, Executing
  <2>9. /\ \A j \in Jobs : tasks[c][j] \in Nat
        /\ tasks' = [d \in Coordinators |-> [j \in Jobs |->
                        IF d = c /\ j \in started THEN tasks[d][j] + 1 ELSE tasks[d][j]]]
        /\ active' = [d \in Coordinators |-> IF d = c THEN active[c] \cup started ELSE active[d]]
    <3>1. tasks \in [Coordinators -> [Jobs -> Nat]] /\ active \in [Coordinators -> SUBSET Jobs]
      BY <1>1 DEF TypeOK
    <3> HIDE DEF outdated, queue
    <3> QED
      BY <2>3, <3>1
  <2>10. Known' = Known \cup due
    BY <2>1, <2>6, <2>7 DEF Known
  <2>11. Executing = active[c] /\ IsFiniteSet(Executing) /\ Executing \subseteq Known
    BY <1>2, ExecutionsBounded DEF PoolInv, Executing
  <2>12. Executing' = Executing \cup started
    <3>1. ASSUME NEW j \in Jobs, NEW d \in Coordinators
          PROVE  tasks'[d][j] > 0 <=> tasks[d][j] > 0 \/ (d = c /\ j \in started)
      BY <2>9
    <3> HIDE DEF outdated
    <3> QED
      BY <2>4, <2>5, <3>1 DEF Executing
  <2>13. \A j \in reached : j \in due \/ state[j] \in Pending
    BY <1>3, <2>4 DEF Pending
  <2>14. started \cup outdated \subseteq Queueing \cup due
    BY <2>4, <2>5, <2>8, <2>13 DEF Queueing
  <2>15. IsFiniteSet(Executing \cup started) /\ Cardinality(Executing \cup started) <= Workers
    <3> DEFINE claimed == {j \in reached : ~Outdated(j, version')}
               free == IF Cardinality(active[c]) >= Workers THEN 0 ELSE Workers - Cardinality(active[c])
    <3>1. Cardinality(claimed) <= free
      BY DEF Reached
    <3>2. started \subseteq claimed
      BY <2>5
    <3>3. IsFiniteSet(claimed)
      <4>1. reached \subseteq Known \cup due
        BY <1>1, <2>4, <2>13 DEF FreshAbsent, Known, Pending
      <4>2. IsFiniteSet(Known \cup due)
        BY <2>6, FS_Union DEF PoolInv
      <4>3. claimed \subseteq Known \cup due
        BY <4>1
      <4> QED
        BY <4>2, <4>3, FS_Subset
    <3> HIDE DEF claimed
    <3>4. IsFiniteSet(started) /\ Cardinality(started) <= Cardinality(claimed)
      BY <3>2, <3>3, FS_Subset
    <3>5. Executing \cap started = {}
      BY <2>5, <2>8
    <3>6. /\ IsFiniteSet(Executing \cup started)
          /\ Cardinality(Executing \cup started) = Cardinality(Executing) + Cardinality(started) - Cardinality({})
      BY <2>11, <3>4, <3>5, FS_Union
    <3>7. /\ Cardinality({}) = 0 /\ Cardinality(Executing) \in Nat /\ Cardinality(started) \in Nat
          /\ Cardinality(claimed) \in Nat /\ Cardinality(Executing) <= Workers /\ Workers \in Nat
      BY <2>11, <3>3, <3>4, FS_EmptySet, FS_CardinalityType, ExecutionsBounded, SchedulerAssumption
    <3>8. Cardinality(claimed) <= Workers - Cardinality(Executing)
      BY <2>11, <3>1, <3>7
    <3> QED
      BY <3>4, <3>6, <3>7, <3>8
  <2>16. Queueing' = (Queueing \cup due) \ (started \cup outdated)
    <3>1. ASSUME NEW j \in Jobs
          PROVE  j \in Queueing' <=> j \in Queueing \cup due /\ j \notin started \cup outdated
      <4>1. CASE j \in outdated
        BY <2>3, <4>1 DEF Queueing, Pending
      <4>2. CASE j \in started
        BY <2>12, <4>2 DEF Queueing
      <4>3. CASE j \notin started \cup outdated
        <5>1. state'[j] = queue[j] /\ (j \in Executing' <=> j \in Executing)
          BY <2>3, <2>12, <4>3
        <5>2. state'[j] \in Pending <=> state[j] \in Pending \/ j \in due
          BY <1>3, <5>1 DEF Pending
        <5> QED
          BY <2>8, <4>3, <5>1, <5>2 DEF Queueing
      <4> QED
        BY <4>1, <4>2, <4>3
    <3> QED
      BY <2>6, <3>1 DEF Queueing
  <2>17. Settled' = Settled \cup outdated
    <3>1. ASSUME NEW j \in Jobs PROVE j \in Settled' <=> j \in Settled \cup outdated
      <4>1. CASE j \in outdated
        BY <2>3, <4>1 DEF Settled, Final
      <4>2. CASE j \in started
        <5>1. state'[j] = "running" /\ (j \in due \/ state[j] \in Pending)
          BY <2>3, <2>5, <2>13, <4>2
        <5>2. j \in due => state[j] = "absent"
          BY <1>1, <2>6 DEF FreshAbsent
        <5> QED
          BY <2>5, <4>2, <5>1, <5>2 DEF Settled, Final, Pending
      <4>3. CASE j \notin started \cup outdated
        <5>1. state'[j] = queue[j]
          BY <2>3, <4>3
        <5>2. j \in due => state[j] = "absent"
          BY <1>1, <2>6 DEF FreshAbsent
        <5> QED
          BY <1>3, <4>3, <5>1, <5>2 DEF Settled, Final
      <4> QED
        BY <4>1, <4>2, <4>3
    <3> QED
      BY <2>4, <3>1 DEF Settled
  <2>18. Pool!Dispatch(due, started, outdated)
    <3>1. due \cap Known = {}
      BY <2>6 DEF Known
    <3>2. started \cap outdated = {}
      BY <2>5
    <3> HIDE DEF outdated
    <3> QED
      BY <1>1, <1>5, <2>10, <2>12, <2>14, <2>15, <2>16, <2>17, <3>1, <3>2, PoolCounts DEF Pool!Dispatch
  <2>19. Pool!Next
    <3>1. due \in SUBSET (Jobs \ Known)
      BY <2>6 DEF Known
    <3>2. started \in SUBSET (Queueing \cup due) /\ outdated \in SUBSET ((Queueing \cup due) \ started)
      BY <2>5, <2>14
    <3> HIDE DEF outdated
    <3> QED
      BY <2>18, <3>1, <3>2 DEF Pool!Next
  <2>20. PoolInv'
    <3>1. ASSUME NEW d \in Coordinators
          PROVE  active'[d] = {j \in Jobs : tasks'[d][j] > 0} /\ Cardinality(active'[d]) <= Workers
      <4>1. CASE d = c
        BY <2>4, <2>5, <2>9, <2>11, <2>15, <4>1 DEF PoolInv
      <4>2. CASE d # c
        BY <2>9, <4>2 DEF PoolInv
      <4> QED
        BY <4>1, <4>2
    <3>2. IsFiniteSet(Known')
      BY <2>6, <2>10, FS_Union DEF PoolInv
    <3> QED
      BY <1>1, <1>5, <3>1, <3>2 DEF PoolInv
  <2> QED
    BY <2>19, <2>20
<1> QED
  BY <1>4, <1>5

(* What ends an execution settles its job, or lets it wait again when the  *)
(* company is paused.                                                      *)
LEMMA FinishSettles ==
    ASSUME LeaseInv, PoolInv, NEW c \in Coordinators, NEW j \in Jobs, Finish(c, j)
    PROVE  PoolInv' /\ Pool!Next
<1> USE DEF LeaseInv
<1>1. /\ tasks[c][j] = 1 /\ lock = HeldBy(c) /\ leaseHeld[c]
      /\ company = "deleted" \/ state[j] = "running"
  BY DEF Finish, OwnersWork
<1>2. PICK success \in BOOLEAN : state' = [state EXCEPT ![j] = Outcome(success)]
  BY <1>1 DEF Finish
<1>3. /\ \A k \in Jobs : k # j => state'[k] = state[k]
      /\ state'[j] = Outcome(success)
  BY <1>2 DEF TypeOK
<1>4. UNCHANGED <<company, version>> /\ active' = [active EXCEPT ![c] = @ \ {j}]
  BY DEF Finish, company_
<1>5. \A d \in Coordinators, k \in Jobs : tasks'[d][k] = IF d = c /\ k = j THEN 0 ELSE tasks[d][k]
  <2>1. tasks' = [tasks EXCEPT ![c][j] = tasks[c][j] - 1]
    BY DEF Finish
  <2>2. tasks' = [tasks EXCEPT ![c][j] = 0]
    BY <1>1, <2>1
  <2> QED
    BY <2>2 DEF TypeOK
<1>6. \A d \in Coordinators, k \in Jobs : d # c => ~(tasks[d][k] > 0)
  BY <1>1 DEF OwnersWork, HeldBy
<1>7. j \in Executing /\ Executing' = Executing \ {j} /\ Known' = Known
  BY <1>1, <1>4, <1>5, <1>6 DEF Executing, Known
<1>8. CASE Outcome(success) \in Final
  <2>1. Settled' = Settled \cup {j} /\ Queueing' = Queueing
    BY <1>3, <1>7, <1>8 DEF Settled, Queueing, Final, Pending
  <2> QED
    <3>1. Pool!Settle(j)
      BY <1>4, <1>7, <2>1 DEF Pool!Settle
    <3>2. Pool!Next
      BY <1>7, <3>1 DEF Pool!Next
    <3>3. \A k \in Jobs : state'[k] \in Pending => state[k] \in Pending
      BY <1>3, <1>8 DEF Final, Pending
    <3>4. \A d \in Coordinators : active'[d] \subseteq active[d] /\ active'[d] = {k \in Jobs : tasks'[d][k] > 0}
      BY <1>4, <1>5 DEF PoolInv, TypeOK
    <3> QED
      BY <1>4, <1>7, <3>2, <3>3, <3>4, PoolStays DEF PoolInv
<1>9. CASE Outcome(success) \notin Final
  <2>1. Outcome(success) = "queued" /\ company = "paused" /\ state[j] = "running"
    BY <1>1, <1>9 DEF Outcome, Final
  <2>2. Settled' = Settled /\ Queueing' = Queueing \cup {j}
    BY <1>3, <1>7, <2>1 DEF Settled, Queueing, Final, Pending
  <2>3. Pool!Interrupt({j})
    BY <1>4, <1>7, <2>1, <2>2 DEF Pool!Interrupt
  <2>4. Pool!Next
    <3>1. {j} \in SUBSET Executing
      BY <1>7
    <3> QED
      BY <2>3, <3>1 DEF Pool!Next
  <2>5. \A d \in Coordinators : active'[d] \subseteq active[d] /\ active'[d] = {k \in Jobs : tasks'[d][k] > 0}
    BY <1>4, <1>5 DEF PoolInv, TypeOK
  <2> QED
    BY <1>4, <1>7, <2>1, <2>4, <2>5, PoolStays DEF PoolInv
<1> QED
  BY <1>8, <1>9

(* A process that dies interrupts what its coordinators execute. *)
LEMMA CrashInterrupts ==
    ASSUME LeaseInv, PoolInv, NEW s \in Servers, Crash(s)
    PROVE  PoolInv' /\ Pool!Next
<1> USE DEF LeaseInv
<1> DEFINE S == {j \in Jobs : \E c \in Coordinators : server[c] = s /\ tasks[c][j] > 0}
<1>1. UNCHANGED <<company, state, version>>
  BY DEF Crash, company_
<1>2. \A c \in Coordinators, j \in Jobs : tasks'[c][j] = IF server[c] = s THEN 0 ELSE tasks[c][j]
  BY DEF Crash, TypeOK
<1>3. \A c, d \in Coordinators, j, k \in Jobs : tasks[c][j] > 0 /\ tasks[d][k] > 0 => c = d
  BY DEF OwnersWork, HeldBy
<1>4. S \in SUBSET Executing /\ Executing' = Executing \ S /\ Known' = Known
  BY <1>1, <1>2, <1>3 DEF Executing, Known
<1>5. company # "deleted" => \A j \in S : state[j] \in Pending
  BY DEF OwnersWork, Pending
<1>6. Settled' = Settled
  BY <1>1 DEF Settled
<1>7. Queueing' = IF company = "deleted" THEN Queueing ELSE Queueing \cup S
  <2>1. CASE company = "deleted"
    BY <1>1, <2>1 DEF Queueing, PoolInv
  <2>2. CASE company # "deleted"
    BY <1>1, <1>4, <1>5, <2>2 DEF Queueing
  <2> QED
    BY <2>1, <2>2
<1> HIDE DEF S
<1>8. Pool!Interrupt(S)
  BY <1>1, <1>4, <1>6, <1>7 DEF Pool!Interrupt
<1>9. Pool!Next
  BY <1>4, <1>8 DEF Pool!Next
<1>10. \A c \in Coordinators : active'[c] \subseteq active[c] /\ active'[c] = {j \in Jobs : tasks'[c][j] > 0}
  BY <1>2 DEF Crash, PoolInv, TypeOK
<1> QED
  BY <1>1, <1>4, <1>9, <1>10, PoolStays DEF PoolInv

(* Every step is one of the queue, or leaves it alone. *)
LEMMA StepPool ==
    ASSUME Punctual, LeaseInv, PoolInv, [Next]_vars
    PROVE  PoolInv' /\ [Pool!Next]_Pool!vars
<1> USE DEF LeaseInv
<1> DEFINE Kept == PoolInv' /\ [Pool!Next]_Pool!vars
<1>1. ASSUME UNCHANGED <<state, version, active, tasks>>, company' = "deleted" <=> company = "deleted"
      PROVE  Kept
  <2>1. Known' = Known /\ Executing' = Executing /\ Queueing' = Queueing /\ Settled' = Settled
    BY <1>1 DEF Known, Executing, Queueing, Settled
  <2>2. (company = "deleted")' = (company = "deleted")
    BY <1>1
  <2> QED
    BY <1>1, <2>1, <2>2 DEF PoolInv, Pool!vars
<1>2. CASE Pause \/ Resume \/ Expire
  BY <1>1, <1>2 DEF Pause, Resume, Expire, company_, coordinator
<1>3. CASE Delete
  <2>1. company = "paused" /\ company' = "deleted" /\ state' = [j \in Jobs |-> "absent"]
        /\ UNCHANGED <<version, active, tasks>>
    BY <1>3 DEF Delete, coordinator
  <2>2. Known' = Known /\ Executing' = Executing /\ Queueing' = {} /\ Settled' = {}
    BY <2>1 DEF Known, Executing, Queueing, Settled, Pending, Final
  <2>3. PoolInv'
    BY <2>1, <2>2 DEF PoolInv, Pending
  <2> QED
    BY <2>1, <2>2, <2>3 DEF Pool!Close, Pool!Next
<1>4. CASE Steer
  <2> DEFINE dropped == {j \in Jobs : state[j] = "queued" /\ j \notin Questions}
  <2>1. company = "running" /\ state' = [j \in Jobs |-> IF j \in dropped THEN "superseded" ELSE state[j]]
        /\ UNCHANGED <<company, version, active, tasks>>
    BY <1>4 DEF Steer, coordinator
  <2>2. \A j \in Executing : state[j] = "running"
    BY <2>1 DEF OwnersWork, Executing
  <2>3. dropped \subseteq Queueing
    BY <2>2 DEF Queueing, Pending
  <2>4. Known' = Known /\ Executing' = Executing
    BY <2>1 DEF Known, Executing
  <2>5. Queueing' = Queueing \ dropped /\ Settled' = Settled \cup dropped
    BY <2>1, <2>4 DEF Queueing, Settled, Pending, Final
  <2>6. PoolInv'
    BY <2>1, <2>4 DEF PoolInv
  <2> HIDE DEF dropped
  <2>7. Pool!Dispatch({}, {}, dropped)
    BY <2>1, <2>3, <2>4, <2>5, PoolCounts, ExecutionsBounded DEF Pool!Dispatch
  <2>8. {} \in SUBSET (Jobs \ Known) /\ {} \in SUBSET (Queueing \cup {}) /\ dropped \in SUBSET ((Queueing \cup {}) \ {})
    BY <2>3
  <2> QED
    BY <2>6, <2>7, <2>8 DEF Pool!Next
<1>5. ASSUME NEW j \in Jobs, Enqueue(j) PROVE Kept
  <2>1. /\ company # "deleted" /\ version[j] = 0 /\ state' = [state EXCEPT ![j] = "queued"]
        /\ version' = [version EXCEPT ![j] = direction] /\ UNCHANGED <<company, active, tasks>>
    BY <1>5 DEF Enqueue, company_, coordinator
  <2>2. direction # 0 /\ j \notin Known /\ j \notin Executing /\ state[j] = "absent"
    BY <2>1, ExecutionsBounded, SchedulerAssumption DEF TypeOK, FreshAbsent, Known
  <2>3. Known' = Known \cup {j} /\ Executing' = Executing
    BY <2>1, <2>2 DEF TypeOK, Known, Executing
  <2>4. Queueing' = Queueing \cup {j} /\ Settled' = Settled
    BY <2>1, <2>2, <2>3 DEF TypeOK, Queueing, Settled, Pending, Final
  <2>5. IsFiniteSet(Known \cup {j})
    BY FS_AddElement DEF PoolInv
  <2>6. PoolInv'
    BY <2>1, <2>3, <2>5 DEF PoolInv
  <2>7. Pool!Dispatch({j}, {}, {})
    BY <2>1, <2>2, <2>3, <2>4, PoolCounts, ExecutionsBounded DEF Pool!Dispatch
  <2>8. {j} \in SUBSET (Jobs \ Known) /\ {} \in SUBSET (Queueing \cup {j}) /\ {} \in SUBSET ((Queueing \cup {j}) \ {})
    BY <2>2
  <2> QED
    BY <2>6, <2>7, <2>8 DEF Pool!Next
<1>6. ASSUME NEW s \in Servers, Disable(s) \/ StopServer(s) PROVE Kept
  BY <1>1, <1>6 DEF Disable, StopServer, company_
<1>7. ASSUME NEW s \in Servers, Crash(s) PROVE Kept
  BY <1>7, CrashInterrupts
<1>8. ASSUME NEW s \in Servers, NEW c \in Coordinators, Ensure(s, c) PROVE Kept
  BY <1>1, <1>8 DEF Ensure, company_
<1>9. ASSUME NEW c \in Coordinators, Lead(c) PROVE Kept
  BY <1>9, LeadDispatches
<1>10. ASSUME NEW c \in Coordinators, Lose(c) \/ DrainEnds(c) PROVE Kept
  BY <1>1, <1>10 DEF Lose, DrainEnds, company_
<1>11. ASSUME NEW c \in Coordinators, NEW j \in Jobs, Finish(c, j) PROVE Kept
  BY <1>11, FinishSettles
<1>12. CASE UNCHANGED vars
  BY <1>1, <1>12 DEF vars, company_, coordinator
<1> QED
  BY <1>2, <1>3, <1>4, <1>5, <1>6, <1>7, <1>8, <1>9, <1>10, <1>11, <1>12 DEF Next, Tick

LEMMA InitPool == Init => PoolInv /\ Pool!Init
<1> SUFFICES ASSUME Init PROVE PoolInv /\ Pool!Init
  OBVIOUS
<1>1. Known = {} /\ Executing = {} /\ Queueing = {} /\ Settled = {}
  BY DEF Init, Known, Executing, Queueing, Settled, Pending, Final
<1>2. \A c \in Coordinators : active[c] = {} /\ {j \in Jobs : tasks[c][j] > 0} = {}
  BY DEF Init
<1> QED
  BY <1>1, <1>2, FS_EmptySet, SchedulerAssumption DEF Init, PoolInv, Pool!Init

(* The coordinators, their leases and the store are one queue of work with *)
(* a pool of workers, while renewals are punctual: every behaviour of the  *)
(* scheduler, hand-overs, crashes and pauses included, is one of WorkPool. *)
THEOREM SchedulerIsPool == ASSUME Punctual PROVE Spec => IsWorkPool
<1>1. LeaseInv /\ PoolInv /\ [Next]_vars => PoolInv' /\ [Pool!Next]_Pool!vars
  BY StepPool
<1>2. Spec => []PoolInv
  BY <1>1, InitPool, LeaseHolds, PTL DEF Spec
<1> QED
  BY <1>1, <1>2, InitPool, LeaseHolds, PTL DEF Spec, IsWorkPool, Pool!Spec

-----------------------------------------------------------------------------
(* The mark of a run counts for 120 seconds. *)
WithinMark == Maintenance \cap (LongJob \cup Frequent) = {}

(* A scheduler runs its own jobs.  A maintenance job in flight that is     *)
(* listed is kept from starting again: it was started a moment ago, so its *)
(* interval has not passed, and a retry of it is marked as running.        *)
MarkInv ==
    /\ CronTypeOK
    /\ \A s \in Scheduler : running[s] \subseteq Owned(s)
    /\ \A j \in Maintenance :
         /\ recent[j] => ~elapsed[j]
         /\ j \in listed /\ InFlight(j) => recent[j] /\ (status[j] = "running" \/ retry[j] = "none")

(* At most one scheduler has a job in flight. *)
RunOnce == \A j \in Job : \A s, t \in Scheduler : j \in running[s] /\ j \in running[t] => s = t

LEMMA CronInitInv == CronInit => MarkInv /\ RunOnce
BY CronAssumption DEF CronInit, MarkInv, RunOnce, CronTypeOK, InFlight, Scheduler

(* What is due at a maintenance scheduler is in flight nowhere. *)
LEMMA DueIsIdle ==
    ASSUME MarkInv, NEW s \in Scheduler, NEW j \in Due(s), NEW t \in Scheduler
    PROVE  j \in Job /\ j \in listed /\ j \in Owned(s) /\ j \notin running[t]
<1>1. j \in Job /\ j \in listed /\ j \in Owned(s) /\ j \notin running[s]
  BY DEF Due, MarkInv, CronTypeOK
<1>2. CASE j \in Maintenance
  BY <1>1, <1>2 DEF Due, MarkInv, InFlight
<1>3. CASE j \notin Maintenance
  <2>1. s = 0 /\ (j \in running[t] => t = 0)
    BY <1>1, <1>3 DEF MarkInv, Owned
  <2> QED
    BY <1>1, <2>1
<1> QED
  BY <1>1, <1>2, <1>3

(* Starting due jobs keeps every job with one scheduler. *)
LEMMA StartsKeepOne ==
    ASSUME MarkInv, RunOnce, NEW s \in Scheduler, NEW J \in SUBSET Due(s),
           running' = [running EXCEPT ![s] = @ \cup J]
    PROVE  /\ running' \in [Scheduler -> SUBSET Job]
           /\ \A t \in Scheduler : running'[t] \subseteq Owned(t)
           /\ RunOnce'
           /\ \A j \in Job \ J, t \in Scheduler : j \in running'[t] <=> j \in running[t]
<1>1. running \in [Scheduler -> SUBSET Job] /\ \A t \in Scheduler : running[t] \subseteq Owned(t)
  BY DEF MarkInv, CronTypeOK
<1>2. \A j \in J, t \in Scheduler : j \in Job /\ j \in Owned(s) /\ j \notin running[t]
  BY DueIsIdle
<1>3. \A t \in Scheduler : running'[t] = IF t = s THEN running[s] \cup J ELSE running[t]
  BY <1>1
<1> QED
  BY <1>1, <1>2, <1>3 DEF RunOnce

(* Fewer runs, and nothing else of the jobs is changed. *)
LEMMA Fewer ==
    ASSUME RunOnce, \A s \in Scheduler : running'[s] \subseteq running[s]
    PROVE  RunOnce' /\ \A j : InFlight(j)' => InFlight(j)
BY DEF RunOnce, InFlight

(* New records are marked as just run, and have nothing to retry. *)
LEMMA AddsFresh ==
    ASSUME MarkInv, NEW J \in SUBSET Job, NEW M \in SUBSET Job, NEW on \in [M -> BOOLEAN], AddAll(J, on),
           current' \in Scheduler, edits' \in Nat, UNCHANGED <<running, detached, faults, crashes>>
    PROVE  /\ CronTypeOK'
           /\ \A j \in Maintenance :
                /\ recent'[j] => ~elapsed'[j]
                /\ j \in listed' /\ InFlight(j) => recent'[j] /\ (status'[j] = "running" \/ retry'[j] = "none")
<1>1. CronTypeOK
  BY DEF MarkInv
<1>2. /\ recent' \in [Job -> BOOLEAN] /\ elapsed' \in [Job -> BOOLEAN]
      /\ \A j \in Job : recent'[j] = (j \in J \/ recent[j]) /\ elapsed'[j] = (j \notin J /\ elapsed[j])
  BY <1>1 DEF AddAll, Touch, CronTypeOK
<1>3. enabled' \in [Job -> BOOLEAN]
  BY <1>1 DEF AddAll, CronTypeOK
<1>4. /\ status' \in [Job -> {"none", "running", "succeeded", "failed"}]
      /\ retry' \in [Job -> {"none", "later", "now"}] /\ listed' = listed \cup J
      /\ \A j \in Job : IF j \in J THEN status'[j] = "none" /\ retry'[j] = "none"
                       ELSE status'[j] = status[j] /\ retry'[j] = retry[j]
  BY <1>1 DEF AddAll, CronTypeOK
<1>5. CronTypeOK'
  BY <1>1, <1>2, <1>3, <1>4 DEF CronTypeOK
<1> QED
  BY <1>2, <1>4, <1>5, CronAssumption DEF MarkInv

LEMMA CronStep == WithinMark /\ MarkInv /\ RunOnce /\ [CronNext]_cronVars => MarkInv' /\ RunOnce'
<1> SUFFICES ASSUME WithinMark, MarkInv, RunOnce, [CronNext]_cronVars PROVE MarkInv' /\ RunOnce'
  OBVIOUS
<1> USE CronAssumption
<1>1. /\ CronTypeOK
      /\ \A s \in Scheduler : running[s] \subseteq Owned(s)
      /\ \A j \in Maintenance :
           /\ j \in Job /\ j \notin LongJob /\ j \notin Frequent
           /\ recent[j] => ~elapsed[j]
           /\ j \in listed /\ InFlight(j) => recent[j] /\ (status[j] = "running" \/ retry[j] = "none")
  BY DEF MarkInv, WithinMark
<1>2. ASSUME UNCHANGED running PROVE RunOnce' /\ \A j : InFlight(j)' <=> InFlight(j)
  BY <1>2 DEF RunOnce, InFlight
<1>3. ASSUME NEW j \in Job, Add(j) PROVE MarkInv' /\ RunOnce'
  <2>1. j \notin Maintenance /\ AddAll({j}, [i \in {j} |-> TRUE])
        /\ edits' \in Nat /\ UNCHANGED <<running, detached, current, faults, crashes>>
    BY <1>1, <1>3 DEF Add, Edit, memory, CronTypeOK
  <2>2. PICK on \in [{j} -> BOOLEAN] : AddAll({j}, on)
    BY <2>1
  <2>3. {j} \in SUBSET Job /\ current' \in Scheduler
    BY <1>1, <2>1 DEF CronTypeOK
  <2> QED
    BY <1>1, <1>2, <2>1, <2>2, <2>3, AddsFresh DEF MarkInv
<1>4. ASSUME NEW j \in Job, Remove(j) PROVE MarkInv' /\ RunOnce'
  BY <1>1, <1>2, <1>4 DEF Remove, Edit, memory, fields, MarkInv, CronTypeOK
<1>5. ASSUME NEW j \in Job, Toggle(j) PROVE MarkInv' /\ RunOnce'
  <2>1. Touch({j}) /\ UNCHANGED <<listed, status, retry, memory, faults, crashes>>
        /\ enabled' \in [Job -> BOOLEAN] /\ edits' \in Nat
    BY <1>1, <1>5 DEF Toggle, Edit, memory, CronTypeOK
  <2>2. /\ recent' \in [Job -> BOOLEAN] /\ elapsed' \in [Job -> BOOLEAN]
        /\ \A i \in Job : recent'[i] = (i = j \/ recent[i]) /\ elapsed'[i] = (i # j /\ elapsed[i])
    BY <1>1, <2>1 DEF Touch, CronTypeOK
  <2>3. CronTypeOK'
    BY <1>1, <2>1, <2>2 DEF CronTypeOK, memory
  <2> QED
    BY <1>1, <1>2, <2>1, <2>2, <2>3 DEF MarkInv, memory
<1>6. ASSUME NEW j \in Job, Reschedule(j) PROVE MarkInv' /\ RunOnce'
  BY <1>1, <1>2, <1>6 DEF Reschedule, Edit, memory, MarkInv, CronTypeOK
<1>7. CASE StartLearning
  <2>1. PICK on \in [Maintenance -> BOOLEAN] : AddAll(Maintenance \ listed, on)
    BY <1>7 DEF StartLearning
  <2>2. current' \in Scheduler /\ edits' \in Nat /\ UNCHANGED <<running, detached, faults, crashes>>
    BY <1>1, <1>7 DEF StartLearning, Edit, Up, Scheduler, CronTypeOK
  <2> QED
    BY <1>1, <1>2, <2>1, <2>2, AddsFresh DEF MarkInv
<1>8. ASSUME NEW s \in Scheduler, CronTick(s) PROVE MarkInv' /\ RunOnce'
  <2>1. PICK skipped \in SUBSET Due(s) :
          LET J == Due(s) \ skipped
          IN  /\ IF skipped = {} THEN UNCHANGED <<listed, faults>> ELSE listed' \in {listed, {}} /\ Fault
              /\ running' = [running EXCEPT ![s] = @ \cup J]
              /\ status' = [j \in Job |-> IF j \in J THEN "running" ELSE status[j]]
              /\ Touch(J)
    BY <1>8 DEF CronTick
  <2> DEFINE J == Due(s) \ skipped
  <2>2. J \in SUBSET Due(s) /\ UNCHANGED <<enabled, retry, detached, current, edits, crashes>>
    BY <1>8 DEF CronTick
  <2>3. /\ running' \in [Scheduler -> SUBSET Job]
        /\ \A t \in Scheduler : running'[t] \subseteq Owned(t)
        /\ RunOnce'
        /\ \A j \in Job \ J, t \in Scheduler : j \in running'[t] <=> j \in running[t]
    BY <2>1, <2>2, StartsKeepOne
  <2>4. \A j \in Job \ J : InFlight(j)' => InFlight(j)
    BY <2>3 DEF InFlight
  <2>5. faults' \in Nat /\ listed' \subseteq listed
    BY <1>1, <2>1 DEF Fault, CronTypeOK
  <2> QED
    BY <1>1, <2>1, <2>2, <2>3, <2>4, <2>5 DEF Touch, MarkInv, CronTypeOK
<1>9. ASSUME NEW s \in Scheduler, TickBlind(s) PROVE MarkInv' /\ RunOnce'
  <2>1. /\ running' \in [Scheduler -> SUBSET Job]
        /\ \A t \in Scheduler : running'[t] \subseteq Owned(t)
        /\ RunOnce'
    BY <1>9, StartsKeepOne DEF TickBlind
  <2> QED
    BY <1>1, <1>9, <2>1 DEF TickBlind, Fault, fields, MarkInv, CronTypeOK
<1>10. ASSUME NEW s \in Scheduler, NEW j \in Job, RunEnds(s, j) PROVE MarkInv' /\ RunOnce'
  <2>1. j \in running[s] /\ running' = [running EXCEPT ![s] = @ \ {j}]
    BY <1>10 DEF RunEnds
  <2>2. running' \in [Scheduler -> SUBSET Job] /\ \A t \in Scheduler : running'[t] \subseteq running[t]
    BY <1>1, <2>1 DEF CronTypeOK
  <2>3. RunOnce' /\ \A i : InFlight(i)' => InFlight(i)
    BY <2>2, Fewer
  <2>4. ~InFlight(j)'
    BY <1>1, <2>1 DEF RunOnce, InFlight, CronTypeOK
  <2>5. /\ \A i \in Job \ {j} : status'[i] = status[i] /\ retry'[i] = retry[i]
        /\ listed' \subseteq listed /\ UNCHANGED <<enabled, recent, elapsed, current, edits, crashes>>
    BY <1>1, <1>10 DEF RunEnds, Record, CronTypeOK
  <2>6. CronTypeOK'
    BY <1>1, <1>10, <2>2 DEF RunEnds, Record, Fault, CronTypeOK
  <2> QED
    BY <1>1, <2>2, <2>3, <2>4, <2>5, <2>6 DEF MarkInv
<1>11. ASSUME NEW j \in Job, Age(j) PROVE MarkInv' /\ RunOnce'
  BY <1>1, <1>2, <1>11 DEF Age, memory, MarkInv, CronTypeOK
<1>12. ASSUME NEW j \in Job, Elapse(j) PROVE MarkInv' /\ RunOnce'
  BY <1>1, <1>2, <1>12 DEF Elapse, memory, MarkInv, CronTypeOK
<1>13. ASSUME NEW j \in Job, BackedOff(j) PROVE MarkInv' /\ RunOnce'
  BY <1>1, <1>2, <1>13 DEF BackedOff, memory, MarkInv, CronTypeOK
<1>14. CASE ProcessEnds
  <2>1. \A s \in Scheduler : running'[s] \subseteq running[s] /\ running'[s] = {}
    BY <1>14 DEF ProcessEnds
  <2>2. RunOnce' /\ \A j : ~InFlight(j)'
    BY <2>1 DEF RunOnce, InFlight
  <2> QED
    BY <1>1, <1>14, <2>1, <2>2 DEF ProcessEnds, file, fields, MarkInv, CronTypeOK, Scheduler
<1>15. ASSUME NEW j \in Job, DetachedEnds(j) PROVE MarkInv' /\ RunOnce'
  BY <1>1, <1>2, <1>15 DEF DetachedEnds, file, fields, MarkInv, CronTypeOK
<1>16. CASE UNCHANGED cronVars
  BY <1>1, <1>2, <1>16 DEF cronVars, file, fields, memory, MarkInv, CronTypeOK
<1> QED
  BY <1>3, <1>4, <1>5, <1>6, <1>7, <1>8, <1>9, <1>10, <1>11, <1>12, <1>13, <1>14, <1>15, <1>16 DEF CronNext

(* The mark in the file does what the memory of a replaced scheduler would *)
(* have done.                                                              *)
THEOREM MarksHold == ASSUME WithinMark PROVE CronSpec => [](MarkInv /\ RunOnce)
BY CronInitInv, CronStep, PTL DEF CronSpec

(* OneExecution, for any jobs, changes of settings, faults and restarts:   *)
(* no job of either scheduler has two onDue calls at a time                *)
(* (CronScheduler.tick); what a call has passed on is beyond it.           *)
THEOREM JobsRunOnce == ASSUME WithinMark PROVE CronSpec => []OneExecution
<1>1. RunOnce => OneExecution
  <2> SUFFICES ASSUME RunOnce, NEW j \in Job PROVE Cardinality({s \in Scheduler : j \in running[s]}) <= 1
    BY DEF OneExecution
  <2> DEFINE R == {s \in Scheduler : j \in running[s]}
  <2>1. CASE R = {}
    BY <2>1, FS_EmptySet
  <2>2. CASE R # {}
    <3>1. PICK s \in R : R = {s}
      BY <2>2 DEF RunOnce
    <3>2. Cardinality(R) = 1
      BY <3>1, FS_Singleton
    <3> QED
      BY <3>2
  <2> QED
    BY <2>1, <2>2
<1> QED
  BY <1>1, MarksHold, PTL

=============================================================================
