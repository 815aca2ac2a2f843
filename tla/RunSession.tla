----------------------------- MODULE RunSession -----------------------------
(***************************************************************************)
(* The coding sessions of the server and the runs (calls of executeRun)    *)
(* that work for them.  All sessions of the model point at one task.       *)
(*                                                                         *)
(* A message to a session is handled over several awaits: the handler      *)
(* reserves the session by its status, prepares, takes the resume lock and *)
(* starts a run.  A run prepares too, attaches its engine to the session   *)
(* and works between the two halves of a checkpoint.  Only the current run *)
(* of a session, by generation and attached engine, settles its outcome.   *)
(*                                                                         *)
(* "blocked" stands for blocked, stalled and failed: ended, and waiting    *)
(* for a message.  The sessions are restored ones: their first run is over.*)
(***************************************************************************)
EXTENDS Naturals, FiniteSets

CONSTANTS
    Session,        \* runId of each session
    Call,           \* POST /api/runs/<runId>/message, each made once
    Target,         \* the session each call is for
    Run,            \* bound: the calls of executeRun
    None,           \* no run, no session
    Admitted        \* the situations that may come about:
                    \*   "reserved stop"  a stop while a message is set up
                    \*   "credential"     a message that holds an API key
                    \*   "bad prelude"    a project or an index is unavailable
                    \*   "long run"       a run outlasts the window of its lock
                    \*   "crash"          the application stops and starts again

ASSUME SessionAssumption == None \notin Session \cup Run
ASSUME TargetAssumption == Target \in [Call -> Session]

VARIABLES
    status,         \* session.status
    generation,     \* session.executionGeneration
    engine,         \* session.gitu: the run whose engine is attached
    recovery,       \* the sessions with a modelRecovery record
    timer,          \* the sessions with a timer in modelRecoveryTimers
    queued,         \* session.queuedUserMessages
    buffered,       \* session.pendingSteer
    call,           \* where the handler of each call is
    run,            \* the runs
    busy,           \* checkpointOperations
    lock,           \* runId in the lock file of the task
    stale,          \* is that lock older than its window?
    claimed         \* runId in taskResumeLocks

taskLock == <<lock, stale, claimed>>
mail == <<queued, buffered>>
vars == <<status, generation, engine, recovery, timer, mail, call, run, busy, taskLock>>

Status == {"running", "waiting", "completed", "blocked", "aborted"}
Attached == {"checkpoint", "working", "sealing"}
Origin == {"message", "credential", "retry", "queue", "fallback"}

UnusedRun == [of |-> None, gen |-> 0, at |-> "unused", by |-> "message", locked |-> FALSE]

(* The types of the variables; a timer has a record it retries from.  The  *)
(* code is the session's fields and the map of timers beside them.         *)
TypeOK ==
    /\ status \in [Session -> Status]
    /\ generation \in [Session -> Nat]
    /\ engine \in [Session -> Run \cup {None}]
    /\ recovery \in SUBSET Session /\ timer \in SUBSET recovery /\ busy \in SUBSET Session
    /\ queued \in [Session -> SUBSET Call] /\ buffered \in [Session -> SUBSET Call]
    /\ call \in [Call -> [at : {"unsent", "reading", "preparing", "form", "resuming", "gone"}, prev : Status]]
    /\ run \in [Run -> [of : Session \cup {None}, gen : Nat, by : Origin, locked : BOOLEAN,
                        at : {"unused", "prelude", "over"} \cup Attached]]
    /\ lock \in Session \cup {None} /\ stale \in BOOLEAN /\ claimed \in Session \cup {None}

Init ==
    /\ status = [s \in Session |-> "blocked"]
    /\ generation = [s \in Session |-> 0]
    /\ engine = [s \in Session |-> None]
    /\ recovery = {} /\ timer = {} /\ busy = {}
    /\ queued = [s \in Session |-> {}] /\ buffered = [s \in Session |-> {}]
    /\ call = [c \in Call |-> [at |-> "unsent", prev |-> "blocked"]]
    /\ run = [r \in Run |-> UnusedRun]
    /\ lock = None /\ stale = FALSE /\ claimed = None

-----------------------------------------------------------------------------
(* isCurrentExecution() in run r *)
Current(r) ==
    /\ run[r].at \in Attached \cup {"prelude"}
    /\ run[r].gen = generation[run[r].of]
    /\ engine[run[r].of] = IF run[r].at = "prelude" THEN None ELSE r

(* The handlers that prepare a run of session s and have reserved it. *)
Reserving(s) ==
    {c \in Call : /\ Target[c] = s
                  /\ \/ call[c].at \in {"reading", "preparing"} /\ call[c].prev # "running"
                     \/ call[c].at = "resuming"}

(* A failure of the provider costs a run: there are runs for all that is   *)
(* owed one, and for as many failures as are left over.                    *)
Owed == {c \in Call : call[c].at # "gone"} \cup UNION {queued[s] : s \in Session} \cup timer
RunsLeft == Cardinality({r \in Run : run[r].at = "unused"}) > Cardinality(Owed)

Over(r) == [run EXCEPT ![r] = [UnusedRun EXCEPT !.at = "over"]]

(* Slip: the new run shares the generation of the one before it. *)
BeginSameGeneration(R, s, r, by, locked) ==
    /\ run[r].at = "unused"
    /\ run' = [R EXCEPT ![r] = [of |-> s, gen |-> generation[s], at |-> "prelude",
                                by |-> by, locked |-> locked]]
    /\ recovery' = recovery \ {s}
    /\ timer' = timer \ {s}
    /\ UNCHANGED generation

(* executeRun() up to its first await, called with the runs R. *)
Begin(R, s, r, by, locked) ==
    /\ run[r].at = "unused"
    /\ generation' = [generation EXCEPT ![s] = @ + 1]
    /\ run' = [R EXCEPT ![r] = [of |-> s, gen |-> generation[s] + 1, at |-> "prelude",
                                by |-> by, locked |-> locked]]
    /\ recovery' = recovery \ {s}
    /\ timer' = timer \ {s}

(* Slip: nobody sets the timer that the reservation took away. *)
RescheduledNever(s, st) == timer

(* The finally block of a handler sets the timer of a session that still   *)
(* waits for its model again.                                              *)
Rescheduled(s, st) == IF st = "waiting" /\ s \in recovery THEN timer \cup {s} ELSE timer

(* The handler of c returns with status st of its session. *)
Return(c, st) ==
    /\ call' = [call EXCEPT ![c].at = "gone"]
    /\ status' = [status EXCEPT ![Target[c]] = st]
    /\ timer' = Rescheduled(Target[c], st)

(* session.connection is resolved with false: its call is not continued. *)
FormsDropped(s) ==
    [c \in Call |-> IF Target[c] = s /\ call[c].at = "form" THEN [call[c] EXCEPT !.at = "gone"] ELSE call[c]]

-----------------------------------------------------------------------------
(* Reserve the session before any await. *)
Receive(c) ==
    LET s == Target[c]
    IN  /\ call[c].at = "unsent"
        /\ call' = [call EXCEPT ![c] = [at |-> "reading", prev |-> status[s]]]
        /\ status' = [status EXCEPT ![s] = "running"]
        /\ timer' = timer \ {s}
        /\ UNCHANGED <<generation, engine, recovery, mail, run, busy, taskLock>>

(* Slip: an early return forgets the reservation. *)
SetupFailsReserved(c) ==
    /\ call[c].at \in {"reading", "preparing"}
    /\ Return(c, status[Target[c]])
    /\ UNCHANGED <<generation, engine, recovery, mail, run, busy, taskLock>>

(* No text, no workspace, no ledger, no provider: the status is restored. *)
SetupFails(c) ==
    /\ call[c].at \in {"reading", "preparing"}
    /\ Return(c, IF call[c].prev = "running" THEN status[Target[c]] ELSE call[c].prev)
    /\ UNCHANGED <<generation, engine, recovery, mail, run, busy, taskLock>>

(* delivery: 'steer' to a session that was running. *)
Steer(c, corrective) ==
    LET s == Target[c]
    IN  /\ call[c].at = "reading"
        /\ call[c].prev = "running"
        /\ buffered' = IF engine[s] = None THEN [buffered EXCEPT ![s] = @ \cup {c}] ELSE buffered
        /\ queued' = IF corrective THEN [queued EXCEPT ![s] = {}] ELSE queued
        /\ call' = [IF corrective THEN FormsDropped(s) ELSE call EXCEPT ![c].at = "gone"]
        /\ timer' = Rescheduled(s, status[s])
        /\ UNCHANGED <<status, generation, engine, recovery, run, busy, taskLock>>

(* delivery: 'queue' *)
Queue(c) ==
    /\ call[c].at = "reading"
    /\ call[c].prev = "running"
    /\ queued' = [queued EXCEPT ![Target[c]] = @ \cup {c}]
    /\ Return(c, status[Target[c]])
    /\ UNCHANGED <<generation, engine, recovery, buffered, run, busy, taskLock>>

(* The message held an API key: requestChatCredential() pauses the task. *)
Pause(c) ==
    LET s == Target[c]
    IN  /\ "credential" \in Admitted
        /\ call[c].at = "reading"
        /\ call' = [FormsDropped(s) EXCEPT ![c].at = "form"]
        /\ engine' = [engine EXCEPT ![s] = None]
        /\ status' = [status EXCEPT ![s] = "blocked"]
        /\ queued' = [queued EXCEPT ![s] = {}]
        /\ UNCHANGED <<generation, recovery, timer, buffered, run, busy, taskLock>>

(* The workspace, the ledger and the model are prepared over several awaits. *)
Prepare(c) ==
    /\ call[c].at = "reading"
    /\ call[c].prev # "running"
    /\ call' = [FormsDropped(Target[c]) EXCEPT ![c].at = "preparing"]
    /\ UNCHANGED <<status, generation, engine, recovery, timer, mail, run, busy, taskLock>>

(* Slip: the age is compared the wrong way round. *)
LockRefusesAged(s) == lock \notin {None, s} /\ stale

LockRefuses(s) == lock \notin {None, s} /\ ~stale

(* acquireTaskLock() granted, the run is started. *)
Resume(c, r) ==
    LET s == Target[c]
    IN  /\ call[c].at = "preparing"
        /\ ~LockRefuses(s)
        /\ lock' = s /\ stale' = FALSE /\ claimed' = s
        /\ Begin(run, s, r, "message", TRUE)
        /\ status' = [status EXCEPT ![s] = "running"]
        /\ call' = [call EXCEPT ![c].at = "gone"]
        /\ UNCHANGED <<engine, mail, busy>>

(* 409: the task is already being resumed by another run. *)
Refuse(c) ==
    /\ call[c].at = "preparing"
    /\ LockRefuses(Target[c])
    /\ Return(c, call[c].prev)
    /\ UNCHANGED <<generation, engine, recovery, mail, run, busy, taskLock>>

(* The form is saved, or times out. *)
FormCloses(c, saved) ==
    /\ call[c].at = "form"
    /\ call' = [call EXCEPT ![c].at = IF saved THEN "resuming" ELSE "gone"]
    /\ UNCHANGED <<status, generation, engine, recovery, timer, mail, run, busy, taskLock>>

(* resumeAfterCredential() after its await; it takes no lock. *)
ResumeAfterCredential(c, r) ==
    /\ call[c].at = "resuming"
    /\ Begin(run, Target[c], r, "credential", FALSE)
    /\ status' = [status EXCEPT ![Target[c]] = "running"]
    /\ call' = [call EXCEPT ![c].at = "gone"]
    /\ UNCHANGED <<engine, mail, busy, taskLock>>

CredentialFails(c) ==
    /\ call[c].at = "resuming"
    /\ status' = [status EXCEPT ![Target[c]] = "blocked"]
    /\ call' = [call EXCEPT ![c].at = "gone"]
    /\ UNCHANGED <<generation, engine, recovery, timer, mail, run, busy, taskLock>>

-----------------------------------------------------------------------------
(* releaseTaskResumeLock(), the release() of the claim included *)
Release(s) ==
    IF claimed = s
    THEN /\ claimed' = None
         /\ IF lock = s THEN lock' = None /\ stale' = FALSE ELSE UNCHANGED <<lock, stale>>
    ELSE UNCHANGED taskLock

(* The end of the current run r: the finally block of executeRun. *)
Finish(r, st) ==
    LET s == run[r].of
    IN  /\ run' = Over(r)
        /\ status' = [status EXCEPT ![s] = st]
        /\ engine' = [engine EXCEPT ![s] = None]
        /\ Release(s)

(* A prelude finds that it is superseded. *)
PreludeQuits(r) ==
    /\ run[r].at = "prelude"
    /\ ~Current(r)
    /\ run' = Over(r)
    /\ UNCHANGED <<status, generation, engine, recovery, timer, mail, call, busy, taskLock>>

(* The selected workspace is unavailable. *)
PreludeUnavailable(r) ==
    /\ "bad prelude" \in Admitted
    /\ run[r].at = "prelude"
    /\ run' = Over(r)
    /\ status' = [status EXCEPT ![run[r].of] = "blocked"]
    /\ UNCHANGED <<generation, engine, recovery, timer, mail, call, busy, taskLock>>

(* The index cannot be refreshed: executeRun rejects outside its try.  The *)
(* caller decides, and the callers of a continuation look away.            *)
PreludeRejects(r) ==
    LET s == run[r].of
        failed == \/ run[r].by \in {"message", "credential"}
                  \/ run[r].by = "retry" /\ status[s] = "running"
    IN  /\ "bad prelude" \in Admitted
        /\ run[r].at = "prelude"
        /\ run' = Over(r)
        /\ status' = IF failed THEN [status EXCEPT ![s] = "blocked"] ELSE status
        /\ IF failed /\ run[r].by = "retry" THEN recovery' = recovery \ {s} /\ timer' = timer \ {s}
           ELSE UNCHANGED <<recovery, timer>>
        /\ UNCHANGED <<generation, engine, mail, call, busy, taskLock>>

(* Slip: a checkpoint begins although one is in progress. *)
AttachBeside(r) ==
    LET s == run[r].of
    IN  /\ run[r].at = "prelude"
        /\ Current(r)
        /\ run' = [run EXCEPT ![r].at = "checkpoint"]
        /\ engine' = [engine EXCEPT ![s] = r]
        /\ busy' = busy \cup {s}
        /\ buffered' = [buffered EXCEPT ![s] = {}]
        /\ UNCHANGED <<status, generation, recovery, timer, queued, call, taskLock>>

(* The engine is attached; buffered guidance goes to it; a checkpoint is   *)
(* begun.                                                                  *)
Attach(r) ==
    LET s == run[r].of
    IN  /\ run[r].at = "prelude"
        /\ Current(r)
        /\ s \notin busy
        /\ run' = [run EXCEPT ![r].at = "checkpoint"]
        /\ engine' = [engine EXCEPT ![s] = r]
        /\ busy' = busy \cup {s}
        /\ buffered' = [buffered EXCEPT ![s] = {}]
        /\ UNCHANGED <<status, generation, recovery, timer, queued, call, taskLock>>

(* An earlier run of the session has not unwound: the checkpoint throws. *)
AttachBusy(r) ==
    /\ run[r].at = "prelude"
    /\ Current(r)
    /\ run[r].of \in busy
    /\ Finish(r, "blocked")
    /\ buffered' = [buffered EXCEPT ![run[r].of] = {}]
    /\ UNCHANGED <<generation, recovery, timer, queued, call, busy>>

(* The checkpoint is saved; a session stopped meanwhile does not start. *)
CheckpointSaved(r) ==
    /\ run[r].at = "checkpoint"
    /\ run' = [run EXCEPT ![r].at = IF status[run[r].of] = "aborted" THEN "sealing" ELSE "working"]
    /\ UNCHANGED <<status, generation, engine, recovery, timer, mail, call, busy, taskLock>>

(* gitu.run() settles; the checkpoint is sealed. *)
WorkEnds(r) ==
    /\ run[r].at = "working"
    /\ run' = [run EXCEPT ![r].at = "sealing"]
    /\ UNCHANGED <<status, generation, engine, recovery, timer, mail, call, busy, taskLock>>

(* A superseded run ends: its finally block does nothing. *)
SettleSuperseded(r) ==
    /\ run[r].at = "sealing"
    /\ ~Current(r)
    /\ run' = Over(r)
    /\ busy' = busy \ {run[r].of}
    /\ UNCHANGED <<status, generation, engine, recovery, timer, mail, call, taskLock>>

(* The current run ends with a report or a fatal error. *)
Settle(r, st) ==
    /\ run[r].at = "sealing"
    /\ Current(r)
    /\ st \in {"completed", "blocked"}
    /\ st = "completed" => queued[run[r].of] = {}
    /\ Finish(r, st)
    /\ busy' = busy \ {run[r].of}
    /\ UNCHANGED <<generation, recovery, timer, mail, call>>

(* A transient failure of the provider: wait, and try again by a timer. *)
SettleOutage(r) ==
    /\ run[r].at = "sealing"
    /\ Current(r)
    /\ RunsLeft
    /\ Finish(r, "waiting")
    /\ recovery' = recovery \cup {run[r].of}
    /\ timer' = timer \cup {run[r].of}
    /\ busy' = busy \ {run[r].of}
    /\ UNCHANGED <<generation, mail, call>>

(* The run goes on in a run of its own, for the queued messages after a    *)
(* completed one, or with the next model after a refused one.              *)
Continue(r, next, by) ==
    LET s == run[r].of
    IN  /\ run[r].at = "sealing"
        /\ Current(r)
        /\ by \in {"queue", "fallback"}
        /\ IF by = "queue" THEN queued[s] # {} ELSE RunsLeft
        /\ queued' = IF by = "queue" THEN [queued EXCEPT ![s] = {}] ELSE queued
        /\ Begin(Over(r), s, next, by, run[r].locked)
        /\ status' = [status EXCEPT ![s] = "running"]
        /\ engine' = [engine EXCEPT ![s] = None]
        /\ busy' = busy \ {s}
        /\ UNCHANGED <<buffered, call, taskLock>>

-----------------------------------------------------------------------------
(* The timer of scheduleModelRecovery(): the run takes no lock. *)
TimerFires(s, r) ==
    /\ s \in timer
    /\ status[s] = "waiting" /\ s \in recovery
    /\ Begin(run, s, r, "retry", FALSE)
    /\ status' = [status EXCEPT ![s] = "running"]
    /\ UNCHANGED <<engine, mail, call, busy, taskLock>>

(* Slip: the failure of a retry is not recorded. *)
RetryUnableSilently(s) ==
    /\ s \in timer
    /\ status[s] = "waiting" /\ s \in recovery
    /\ timer' = timer \ {s}
    /\ UNCHANGED <<status, generation, engine, recovery, mail, call, run, busy, taskLock>>

(* No client can be resolved for the retry. *)
RetryUnable(s) ==
    /\ s \in timer
    /\ status[s] = "waiting" /\ s \in recovery
    /\ status' = [status EXCEPT ![s] = "blocked"]
    /\ recovery' = recovery \ {s}
    /\ timer' = timer \ {s}
    /\ UNCHANGED <<generation, engine, mail, call, run, busy, taskLock>>

(* Slip: the engine is detached, the generation stays. *)
StopWithinGeneration(s) ==
    /\ status[s] \in {"running", "waiting"}
    /\ "reserved stop" \in Admitted \/ Reserving(s) = {}
    /\ recovery' = recovery \ {s}
    /\ timer' = timer \ {s}
    /\ engine' = [engine EXCEPT ![s] = None]
    /\ status' = [status EXCEPT ![s] = "aborted"]
    /\ call' = FormsDropped(s)
    /\ UNCHANGED <<generation, mail, run, busy, taskLock>>

(* POST /api/runs/<runId>/stop *)
Stop(s) ==
    /\ status[s] \in {"running", "waiting"}
    /\ "reserved stop" \in Admitted \/ Reserving(s) = {}
    /\ recovery' = recovery \ {s}
    /\ timer' = timer \ {s}
    /\ generation' = [generation EXCEPT ![s] = @ + 1]
    /\ engine' = [engine EXCEPT ![s] = None]
    /\ status' = [status EXCEPT ![s] = "aborted"]
    /\ call' = FormsDropped(s)
    /\ UNCHANGED <<mail, run, busy, taskLock>>

(* TASK_LOCK_STALE_MS pass; nothing renews a lock. *)
LockAges ==
    /\ lock # None
    /\ ~stale
    /\ "long run" \in Admitted \/ ~\E r \in Run : Current(r) /\ run[r].of = lock
    /\ stale' = TRUE
    /\ UNCHANGED <<status, generation, engine, recovery, timer, mail, call, run, busy, lock, claimed>>

(* The application crashes and starts: sessions come back from the store,  *)
(* as they were saved before or during the setup of a message.             *)
Restart ==
    LET Saved(s) == {status[s]} \cup (IF status[s] = "running" THEN {call[c].prev : c \in Reserving(s)} ELSE {})
        Restored(s, st) == IF st = "running" \/ (st = "waiting" /\ s \notin recovery) THEN "blocked" ELSE st
    IN  /\ "crash" \in Admitted
        /\ \E saved \in [Session -> Status] :
            /\ \A s \in Session : saved[s] \in Saved(s)
            /\ status' = [s \in Session |-> Restored(s, saved[s])]
        /\ recovery' = {s \in Session : status'[s] = "waiting"}
        /\ timer' = {s \in Session : status'[s] = "waiting"}
        /\ engine' = [s \in Session |-> None]
        /\ queued' = [s \in Session |-> {}] /\ buffered' = [s \in Session |-> {}]
        /\ call' = [c \in Call |-> IF call[c].at = "unsent" THEN call[c] ELSE [call[c] EXCEPT !.at = "gone"]]
        /\ run' = [r \in Run |-> IF run[r].at = "unused" THEN run[r] ELSE Over(r)[r]]
        /\ busy' = {} /\ claimed' = None
        /\ UNCHANGED <<generation, lock, stale>>

-----------------------------------------------------------------------------
CallStep(c) ==
    \/ SetupFails(c) \/ Steer(c, TRUE) \/ Steer(c, FALSE) \/ Queue(c) \/ Pause(c) \/ Prepare(c)
    \/ Refuse(c) \/ CredentialFails(c)
    \/ \E r \in Run : Resume(c, r) \/ ResumeAfterCredential(c, r)

RunStep(r) ==
    \/ PreludeQuits(r) \/ PreludeUnavailable(r) \/ PreludeRejects(r) \/ Attach(r) \/ AttachBusy(r)
    \/ CheckpointSaved(r) \/ WorkEnds(r) \/ SettleSuperseded(r) \/ SettleOutage(r)
    \/ \E st \in Status : Settle(r, st)
    \/ \E next \in Run, by \in Origin : Continue(r, next, by)

Next ==
    \/ \E c \in Call : Receive(c) \/ CallStep(c) \/ \E saved \in BOOLEAN : FormCloses(c, saved)
    \/ \E r \in Run : RunStep(r)
    \/ \E s \in Session : Stop(s) \/ RetryUnable(s) \/ \E r \in Run : TimerFires(s, r)
    \/ LockAges
    \/ Restart

Spec == Init /\ [][Next]_vars

(* Handlers and preludes end, a model answers or its request times out, a  *)
(* form is answered or times out, a timer fires.                           *)
Fairness ==
    /\ \A c \in Call : WF_vars(CallStep(c)) /\ WF_vars(\E saved \in BOOLEAN : FormCloses(c, saved))
    /\ \A r \in Run : WF_vars(RunStep(r))
    /\ \A s \in Session : WF_vars(RetryUnable(s) \/ \E r \in Run : TimerFires(s, r))

FairSpec == Spec /\ Fairness

-----------------------------------------------------------------------------
(* Of the runs of a session one at most is current: a late completion of a *)
(* run that was stopped or superseded cannot pass isCurrentExecution().    *)
OneCurrentRun ==
    \A q, r \in Run : Current(q) /\ Current(r) /\ run[q].of = run[r].of => q = r

(* Two engines never work on one session, not even when the first was      *)
(* stopped and has not unwound: withCodingCheckpoint() holds it off.       *)
OneEngine ==
    \A q, r \in Run : run[q].at \in Attached /\ run[r].at \in Attached /\ run[q].of = run[r].of => q = r

(* Runs that messages started under the resume lock never work for two     *)
(* sessions of the task at a time, where no message pauses a prelude with  *)
(* a key and no run outlasts the window of its lock (TASK_LOCK_STALE_MS).  *)
LockedRunsExclusive ==
    \A q, r \in Run :
        Current(q) /\ Current(r) /\ run[q].locked /\ run[r].locked => run[q].of = run[r].of

(* "Stop must be terminal immediately": a stopped session works again only *)
(* when a message comes in.  It holds where no message is being set up at  *)
(* the stop, none brings a key and no prelude fails: each of these lets an *)
(* older handler or run write the status over a newer one.                 *)
StopSticks ==
    [][\A s \in Session :
        status[s] = "aborted" /\ status'[s] \in {"running", "waiting", "completed"} =>
            \E c \in Call : Target[c] = s /\ call[c].at = "unsent" /\ call'[c].at = "reading"]_vars

(* A session is shown as running only while a handler prepares a run of it *)
(* or its current run is under way: it is never stuck there.               *)
RunningHasRunner ==
    \A s \in Session : status[s] = "running" =>
        Reserving(s) # {} \/ \E r \in Run : Current(r) /\ run[r].of = s

(* A session that waits for its model will retry: scheduleModelRecovery()  *)
(* has set a timer, unless a handler keeps it off and will set it again.   *)
WaitingHasTimer ==
    \A s \in Session : status[s] = "waiting" =>
        s \in timer \/ \E c \in Call : Target[c] = s /\ call[c].at \in {"reading", "preparing"}

(* All sessions come to rest, all runs unwind and all calls are answered.  *)
AllSettle ==
    <>[](/\ \A s \in Session : status[s] \in {"completed", "blocked", "aborted"}
         /\ \A r \in Run : run[r].at \in {"unused", "over"}
         /\ \A c \in Call : call[c].at \in {"unsent", "gone"})

-----------------------------------------------------------------------------
(* "Pausing ends this generation": no run of a session is current after a  *)
(* message with a key has paused it.                                       *)
PauseEndsGeneration ==
    [][\A c \in Call :
        call[c].at = "reading" /\ call'[c].at = "form" =>
            ~\E r \in Run : Current(r)' /\ run'[r].of = Target[c]]_vars

(* "will be delivered when the current run completes", "will be delivered  *)
(* to the agent at the next step": nothing is left over when it has.       *)
MailDelivered ==
    \A s \in Session : status[s] = "completed" => queued[s] = {} /\ buffered[s] = {}

(* "Two sessions must never resume the same task at once" *)
OneResume ==
    \A q, r \in Run : Current(q) /\ Current(r) => run[q].of = run[r].of

(* "is already being resumed by run ...": a refusal names a run at work.   *)
RefusalMeansWork ==
    [][\A c \in Call :
        call[c].at = "preparing" /\ LockRefuses(Target[c]) /\ call'[c].at = "gone" =>
            \E r \in Run : Current(r) /\ run[r].of = lock]_vars

(* "Only the Gitu instance currently attached to the session may change    *)
(* its state": a superseded prelude ends without touching the status.      *)
OnlyCurrentChangesState ==
    [][\A r \in Run :
        run[r].at = "prelude" /\ ~Current(r) /\ run'[r].at = "over" => UNCHANGED status]_vars
=============================================================================
