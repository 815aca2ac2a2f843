-------------------------- MODULE RunSessionProofs --------------------------
(***************************************************************************)
(* What holds of the coding sessions for any sessions, messages and runs.  *)
(*                                                                         *)
(* The runs of a session are told apart by generation, so one at most is   *)
(* current; those that have attached an engine hold the session's          *)
(* checkpoint, so one at most has.  From there follow the properties that  *)
(* need assumptions about the environment: the resume lock excludes other  *)
(* sessions, a stop sticks, and no session is stuck.                       *)
(***************************************************************************)
EXTENDS RunSession, TLAPS

Active == Attached \cup {"prelude"}

(* The runs under way belong to a session and have generations of their own. *)
Generations ==
    /\ \A r \in Run : run[r].at \in Active =>
        run[r].of \in Session /\ run[r].gen <= generation[run[r].of]
    /\ \A q, r \in Run :
        /\ run[q].at \in Active /\ run[r].at \in Active
        /\ run[q].of = run[r].of /\ run[q].gen = run[r].gen
        => q = r

(* A run with an engine is in the checkpoint of its session, alone. *)
Checkpoints ==
    /\ \A r \in Run : run[r].at \in Attached => run[r].of \in busy
    /\ OneEngine

RunInv == TypeOK /\ Generations /\ Checkpoints

CallTypes == [at : {"unsent", "reading", "preparing", "form", "resuming", "gone"}, prev : Status]
RunTypes == [of : Session \cup {None}, gen : Nat, by : Origin, locked : BOOLEAN,
             at : {"unused", "prelude", "over"} \cup Attached]

-----------------------------------------------------------------------------
(* The two helpers that give back the calls keep them well typed. *)
LEMMA FormsDroppedType ==
    ASSUME call \in [Call -> CallTypes], NEW s
    PROVE  FormsDropped(s) \in [Call -> CallTypes]
BY DEF FormsDropped, CallTypes

LEMMA OverType ==
    ASSUME run \in [Run -> RunTypes], NEW r \in Run
    PROVE  Over(r) \in [Run -> RunTypes]
BY DEF Over, UnusedRun, RunTypes, Origin

(* What TypeOK says of the runs and the calls, under names. *)
LEMMA TypeParts ==
    TypeOK => /\ call \in [Call -> CallTypes] /\ run \in [Run -> RunTypes]
              /\ status \in [Session -> Status]
BY DEF TypeOK, CallTypes, RunTypes

(* The first await of executeRun() is reached with well typed runs. *)
LEMMA BeginType ==
    ASSUME TypeOK, NEW R \in [Run -> RunTypes], NEW s \in Session, NEW r \in Run,
           NEW by \in Origin, NEW locked \in BOOLEAN, Begin(R, s, r, by, locked)
    PROVE  /\ generation' \in [Session -> Nat] /\ run' \in [Run -> RunTypes]
           /\ recovery' \in SUBSET Session /\ timer' \in SUBSET recovery'
BY DEF TypeOK, Begin, RunTypes, Attached

(* The release of the lock keeps the lock well typed. *)
LEMMA ReleaseType ==
    ASSUME TypeOK, NEW s, Release(s)
    PROVE  lock' \in Session \cup {None} /\ stale' \in BOOLEAN /\ claimed' \in Session \cup {None}
BY DEF TypeOK, Release, taskLock

(* Every step of a handler leaves the variables well typed. *)
LEMMA CallTypeStep ==
    ASSUME RunInv, NEW c \in Call, Receive(c) \/ CallStep(c) \/ \E saved \in BOOLEAN : FormCloses(c, saved)
    PROVE  TypeOK'
<1> USE TypeParts DEF RunInv
<1>0. Target[c] \in Session
    BY TargetAssumption
<1>1. CASE Receive(c)
    BY <1>0, <1>1 DEF Receive, TypeOK, CallTypes, Status, taskLock, mail
<1>2. CASE SetupFails(c)
    BY <1>0, <1>2 DEF SetupFails, Return, Rescheduled, TypeOK, CallTypes, Status, taskLock, mail
<1>3. ASSUME NEW corrective \in BOOLEAN, Steer(c, corrective)
      PROVE  TypeOK'
    <2>1. (IF corrective THEN FormsDropped(Target[c]) ELSE call) \in [Call -> CallTypes]
        BY FormsDroppedType
    <2>2. call' \in [Call -> CallTypes]
        BY <1>3, <2>1 DEF Steer, CallTypes
    <2>3. QED
        BY <1>0, <1>3, <2>2 DEF Steer, Rescheduled, TypeOK, CallTypes, taskLock
<1>4. CASE Queue(c)
    BY <1>0, <1>4 DEF Queue, Return, Rescheduled, TypeOK, CallTypes, Status, taskLock
<1>5. CASE Pause(c)
    <2>1. call' \in [Call -> CallTypes]
        BY <1>5, FormsDroppedType DEF Pause, CallTypes
    <2>2. QED
        BY <1>0, <1>5, <2>1 DEF Pause, TypeOK, CallTypes, Status, taskLock
<1>6. CASE Prepare(c)
    <2>1. call' \in [Call -> CallTypes]
        BY <1>6, FormsDroppedType DEF Prepare, CallTypes
    <2>2. QED
        BY <1>6, <2>1 DEF Prepare, TypeOK, CallTypes, taskLock, mail
<1>7. CASE Refuse(c)
    BY <1>0, <1>7 DEF Refuse, Return, Rescheduled, TypeOK, CallTypes, Status, taskLock, mail
<1>8. CASE CredentialFails(c)
    BY <1>0, <1>8 DEF CredentialFails, TypeOK, CallTypes, Status, taskLock, mail
<1>9. ASSUME NEW r \in Run, Resume(c, r)
      PROVE  TypeOK'
    <2>1. /\ generation' \in [Session -> Nat] /\ run' \in [Run -> RunTypes]
          /\ recovery' \in SUBSET Session /\ timer' \in SUBSET recovery'
        BY <1>0, <1>9, BeginType DEF Resume, Origin
    <2>2. /\ status' = [status EXCEPT ![Target[c]] = "running"] /\ call' = [call EXCEPT ![c].at = "gone"]
          /\ lock' = Target[c] /\ stale' = FALSE /\ claimed' = Target[c]
          /\ UNCHANGED <<engine, busy, queued, buffered>>
        BY <1>9 DEF Resume, mail
    <2>3. status' \in [Session -> Status] /\ call' \in [Call -> CallTypes]
        BY <1>0, <2>2 DEF TypeOK, CallTypes, Status
    <2>4. QED
        BY <1>0, <2>1, <2>2, <2>3 DEF TypeOK, CallTypes, RunTypes
<1>10. ASSUME NEW r \in Run, ResumeAfterCredential(c, r)
       PROVE  TypeOK'
    <2>1. /\ generation' \in [Session -> Nat] /\ run' \in [Run -> RunTypes]
          /\ recovery' \in SUBSET Session /\ timer' \in SUBSET recovery'
        BY <1>0, <1>10, BeginType DEF ResumeAfterCredential, Origin
    <2>2. /\ status' \in [Session -> Status] /\ call' \in [Call -> CallTypes]
          /\ UNCHANGED <<engine, busy, queued, buffered, lock, stale, claimed>>
        BY <1>0, <1>10 DEF ResumeAfterCredential, TypeOK, CallTypes, Status, mail, taskLock
    <2>3. QED
        BY <1>0, <2>1, <2>2 DEF TypeOK, CallTypes, RunTypes
<1>11. ASSUME NEW saved \in BOOLEAN, FormCloses(c, saved)
       PROVE  TypeOK'
    BY <1>11 DEF FormCloses, TypeOK, CallTypes, mail, taskLock
<1>12. QED
    BY <1>1, <1>2, <1>3, <1>4, <1>5, <1>6, <1>7, <1>8, <1>9, <1>10, <1>11 DEF CallStep

(* So does every step of a run. *)
LEMMA RunTypeStep ==
    ASSUME RunInv, NEW r \in Run, RunStep(r)
    PROVE  TypeOK'
<1> USE TypeParts DEF RunInv
<1>0. run[r].at \in Active => run[r].of \in Session
    BY DEF Generations
<1>o. Over(r) \in [Run -> RunTypes]
    BY OverType
<1>1. CASE PreludeQuits(r)
    BY <1>o, <1>1 DEF PreludeQuits, TypeOK, RunTypes, taskLock, mail
<1>2. CASE PreludeUnavailable(r)
    BY <1>o, <1>2 DEF PreludeUnavailable, TypeOK, RunTypes, Status, taskLock, mail
<1>3. CASE PreludeRejects(r)
    BY <1>o, <1>3 DEF PreludeRejects, TypeOK, RunTypes, Status, taskLock, mail
<1>4. CASE Attach(r)
    BY <1>0, <1>4 DEF Attach, TypeOK, RunTypes, Active, Attached, taskLock
<1>5. CASE AttachBusy(r)
    BY <1>o, <1>5, ReleaseType DEF AttachBusy, Finish, TypeOK, RunTypes, Status
<1>6. CASE CheckpointSaved(r)
    <2>1. run' \in [Run -> RunTypes]
        BY <1>6 DEF CheckpointSaved, RunTypes, Attached
    <2>2. QED
        BY <1>6, <2>1 DEF CheckpointSaved, TypeOK, RunTypes, taskLock, mail
<1>7. CASE WorkEnds(r)
    <2>1. run' \in [Run -> RunTypes]
        BY <1>7 DEF WorkEnds, RunTypes, Attached
    <2>2. QED
        BY <1>7, <2>1 DEF WorkEnds, TypeOK, RunTypes, taskLock, mail
<1>8. CASE SettleSuperseded(r)
    BY <1>o, <1>8 DEF SettleSuperseded, TypeOK, RunTypes, taskLock, mail
<1>9. CASE SettleOutage(r)
    <2>1. run[r].of \in Session
        BY <1>0, <1>9 DEF SettleOutage, Active, Attached
    <2>2. QED
        BY <1>o, <1>9, <2>1, ReleaseType DEF SettleOutage, Finish, TypeOK, RunTypes, Status, mail
<1>10. ASSUME NEW st \in Status, Settle(r, st)
       PROVE  TypeOK'
    BY <1>o, <1>10, ReleaseType DEF Settle, Finish, TypeOK, RunTypes, mail
<1>11. ASSUME NEW next \in Run, NEW by \in Origin, Continue(r, next, by)
       PROVE  TypeOK'
    <2>1. run[r].of \in Session /\ run[r].locked \in BOOLEAN
        BY <1>0, <1>11 DEF Continue, Active, Attached, RunTypes
    <2>2. Begin(Over(r), run[r].of, next, by, run[r].locked)
        BY <1>11 DEF Continue
    <2>3. /\ generation' \in [Session -> Nat] /\ run' \in [Run -> RunTypes]
          /\ recovery' \in SUBSET Session /\ timer' \in SUBSET recovery'
        BY <1>o, <2>1, <2>2, BeginType
    <2>4. QED
        BY <1>11, <2>3 DEF Continue, TypeOK, RunTypes, Status, taskLock
<1>12. QED
    BY <1>1, <1>2, <1>3, <1>4, <1>5, <1>6, <1>7, <1>8, <1>9, <1>10, <1>11 DEF RunStep

(* And so do the timers, a stop, the age of the lock and a restart. *)
LEMMA SessionTypeStep ==
    ASSUME RunInv, NEW s \in Session, Stop(s) \/ RetryUnable(s) \/ \E r \in Run : TimerFires(s, r)
    PROVE  TypeOK'
<1> USE TypeParts DEF RunInv
<1>1. CASE Stop(s)
    <2>1. call' \in [Call -> CallTypes]
        BY <1>1, FormsDroppedType DEF Stop
    <2>2. status' \in [Session -> Status]
        BY <1>1 DEF Stop, Status
    <2>3. /\ generation' \in [Session -> Nat]
          /\ recovery' \in SUBSET Session /\ timer' \in SUBSET recovery'
        <3>1. generation \in [Session -> Nat] /\ generation' = [generation EXCEPT ![s] = @ + 1]
            BY <1>1 DEF Stop, TypeOK
        <3>2. /\ recovery \in SUBSET Session /\ timer \in SUBSET recovery
              /\ recovery' = recovery \ {s} /\ timer' = timer \ {s}
            BY <1>1 DEF Stop, TypeOK
        <3>3. recovery' \in SUBSET Session /\ timer' \in SUBSET recovery'
            BY ONLY <3>2
        <3>4. generation' \in [Session -> Nat]
            BY ONLY <3>1
        <3>5. QED
            BY <3>3, <3>4
    <2>4. QED
        BY <1>1, <2>1, <2>2, <2>3 DEF Stop, TypeOK, CallTypes, mail, taskLock
<1>2. CASE RetryUnable(s)
    <2>1. /\ status' \in [Session -> Status]
          /\ recovery' \in SUBSET Session /\ timer' \in SUBSET recovery'
        BY <1>2 DEF RetryUnable, TypeOK, Status
    <2>2. QED
        BY <1>2, <2>1 DEF RetryUnable, TypeOK, mail, taskLock
<1>3. ASSUME NEW r \in Run, TimerFires(s, r)
      PROVE  TypeOK'
    <2>1. /\ generation' \in [Session -> Nat] /\ run' \in [Run -> RunTypes]
          /\ recovery' \in SUBSET Session /\ timer' \in SUBSET recovery'
        BY <1>3, BeginType DEF TimerFires, Origin
    <2>2. QED
        BY <1>3, <2>1 DEF TimerFires, TypeOK, RunTypes, Status, mail, taskLock
<1>4. QED
    BY <1>1, <1>2, <1>3

LEMMA RestartTypeStep ==
    ASSUME RunInv, Restart
    PROVE  TypeOK'
<1> USE TypeParts DEF RunInv
<1>1. status' \in [Session -> Status]
    BY DEF Restart, Status
<1>2. call' \in [Call -> CallTypes]
    BY DEF Restart, CallTypes
<1>3. run' \in [Run -> RunTypes]
    BY OverType DEF Restart, RunTypes, Over, UnusedRun, Origin
<1>4. QED
    BY <1>1, <1>2, <1>3 DEF Restart, TypeOK, CallTypes, RunTypes

-----------------------------------------------------------------------------
(* Steps that leave the runs, the generations and the checkpoints alone. *)
LEMMA QuietStep ==
    ASSUME RunInv, UNCHANGED <<run, generation, busy>>
    PROVE  Generations' /\ Checkpoints'
BY DEF RunInv, Generations, Checkpoints, OneEngine

(* executeRun() gives the new run a generation that no run has. *)
LEMMA BeginStep ==
    ASSUME RunInv, NEW s \in Session, NEW r \in Run, NEW by, NEW locked,
           Begin(run, s, r, by, locked), busy' = busy
    PROVE  Generations' /\ Checkpoints'
<1> USE TypeParts DEF RunInv, Begin
<1>1. run' = [run EXCEPT ![r] = [of |-> s, gen |-> generation[s] + 1, at |-> "prelude",
                                 by |-> by, locked |-> locked]]
    OBVIOUS
<1>2. generation' = [generation EXCEPT ![s] = @ + 1] /\ generation \in [Session -> Nat]
    BY DEF TypeOK
<1>3. \A q \in Run : run[q].gen \in Nat
    BY DEF RunTypes
<1>4. Generations'
    BY <1>1, <1>2, <1>3 DEF Generations, Active, Attached, RunTypes
<1>5. Checkpoints'
    BY <1>1 DEF Checkpoints, OneEngine, Attached, RunTypes
<1>6. QED
    BY <1>4, <1>5

(* A run that is over takes nothing with it but its own checkpoint. *)
LEMMA OverStep ==
    ASSUME RunInv, NEW r \in Run, run' = Over(r), generation' = generation,
           \/ busy' = busy
           \/ run[r].at \in Attached /\ busy' = busy \ {run[r].of}
    PROVE  Generations' /\ Checkpoints'
<1> USE TypeParts DEF RunInv, Over, UnusedRun
<1>1. \A q \in Run : q # r => run'[q] = run[q]
    BY DEF RunTypes
<1>2. run'[r].at = "over"
    BY DEF RunTypes
<1>3. Generations'
    BY <1>1, <1>2 DEF Generations, Active, Attached
<1>4. Checkpoints'
    BY <1>1, <1>2 DEF Checkpoints, OneEngine, Attached
<1>5. QED
    BY <1>3, <1>4

(* A run with an engine goes on to the next stage. *)
LEMMA StageStep ==
    ASSUME RunInv, NEW r \in Run, NEW stage \in Attached, run' = [run EXCEPT ![r].at = stage],
           generation' = generation,
           \/ run[r].at \in Attached /\ busy' = busy
           \/ run[r].at = "prelude" /\ run[r].of \notin busy /\ busy' = busy \cup {run[r].of}
    PROVE  Generations' /\ Checkpoints'
<1> USE TypeParts DEF RunInv
<1>1. \A q \in Run : /\ q # r => run'[q] = run[q]
                     /\ run'[q].of = run[q].of /\ run'[q].gen = run[q].gen
    BY DEF RunTypes
<1>2. run'[r].at = stage /\ run[r].at \in Active
    BY DEF RunTypes, Active
<1>3. Generations'
    BY <1>1, <1>2 DEF Generations, Active
<1>4. Checkpoints'
    BY <1>1, <1>2 DEF Checkpoints, OneEngine
<1>5. QED
    BY <1>3, <1>4

(* The run that continues another takes its place in a new generation. *)
LEMMA ContinueStep ==
    ASSUME RunInv, NEW r \in Run, NEW next \in Run, NEW by \in Origin, Continue(r, next, by)
    PROVE  Generations' /\ Checkpoints'
<1> USE TypeParts DEF RunInv
<1> DEFINE s == run[r].of
<1>1. /\ run[r].at \in Attached /\ run[next].at = "unused" /\ s \in Session
      /\ busy' = busy \ {s}
    BY DEF Continue, Begin, Attached, Active, Generations
<1>2. generation' = [generation EXCEPT ![s] = @ + 1] /\ generation \in [Session -> Nat]
    BY DEF Continue, Begin, TypeOK
<1>3. /\ \A q \in Run : q # r /\ q # next => run'[q] = run[q]
      /\ run'[r].at = "over"
      /\ run'[next].at = "prelude" /\ run'[next].of = s /\ run'[next].gen = generation[s] + 1
    <2>1. r # next
        BY <1>1 DEF Attached
    <2>2. run' = [Over(r) EXCEPT ![next] = [of |-> s, gen |-> generation[s] + 1, at |-> "prelude",
                                            by |-> by, locked |-> run[r].locked]]
        BY DEF Continue, Begin
    <2>3. QED
        BY <2>1, <2>2 DEF Over, UnusedRun, RunTypes
<1>4. \A q \in Run : run[q].gen \in Nat
    BY DEF RunTypes
<1>5. Generations'
    BY <1>1, <1>2, <1>3, <1>4 DEF Generations, Active, Attached
<1>6. Checkpoints'
    BY <1>1, <1>3 DEF Checkpoints, OneEngine, Attached
<1>7. QED
    BY <1>5, <1>6

(* A stop ends a generation and no run. *)
LEMMA StopStep ==
    ASSUME RunInv, NEW s \in Session, Stop(s)
    PROVE  Generations' /\ Checkpoints'
<1> USE TypeParts DEF RunInv
<1>1. /\ generation' = [generation EXCEPT ![s] = @ + 1] /\ generation \in [Session -> Nat]
      /\ UNCHANGED <<run, busy>>
    BY DEF Stop, TypeOK
<1>2. \A q \in Run : run[q].gen \in Nat
    BY DEF RunTypes
<1>3. QED
    BY <1>1, <1>2 DEF Generations, Checkpoints, OneEngine

(* No run outlives the application. *)
LEMMA RestartStep ==
    ASSUME RunInv, Restart
    PROVE  Generations' /\ Checkpoints'
<1>1. \A q \in Run : run'[q].at \notin Active
    BY TypeParts DEF RunInv, Restart, Over, UnusedRun, RunTypes, Active, Attached
<1>2. QED
    BY <1>1 DEF Generations, Checkpoints, OneEngine, Active

-----------------------------------------------------------------------------
LEMMA RunInvInit == Init => RunInv
<1> SUFFICES ASSUME Init
             PROVE  RunInv
    OBVIOUS
<1>1. run \in [Run -> RunTypes] /\ \A r \in Run : run[r].at = "unused"
    BY DEF Init, UnusedRun, RunTypes, Origin
<1>2. call \in [Call -> CallTypes]
    BY DEF Init, CallTypes, Status
<1>3. TypeOK
    BY <1>1, <1>2 DEF Init, TypeOK, CallTypes, RunTypes, Status
<1>4. Generations /\ Checkpoints
    BY <1>1 DEF Generations, Checkpoints, OneEngine, Active, Attached
<1>5. QED
    BY <1>3, <1>4 DEF RunInv

LEMMA RunInvStep == RunInv /\ [Next]_vars => RunInv'
<1> SUFFICES ASSUME RunInv, [Next]_vars
             PROVE  RunInv'
    OBVIOUS
<1>1. ASSUME NEW c \in Call, Receive(c) \/ CallStep(c) \/ \E saved \in BOOLEAN : FormCloses(c, saved)
      PROVE  RunInv'
    <2> SUFFICES Generations' /\ Checkpoints'
        BY <1>1, CallTypeStep DEF RunInv
    <2>1. ASSUME NEW r \in Run, Resume(c, r) \/ ResumeAfterCredential(c, r)
          PROVE  Generations' /\ Checkpoints'
        <3>1. Target[c] \in Session
            BY TargetAssumption
        <3>2. \E by, locked : Begin(run, Target[c], r, by, locked) /\ busy' = busy
            BY <2>1 DEF Resume, ResumeAfterCredential
        <3>3. QED
            BY <3>1, <3>2, BeginStep
    <2>2. CASE ~\E r \in Run : Resume(c, r) \/ ResumeAfterCredential(c, r)
        <3>1. UNCHANGED <<run, generation, busy>>
            BY <1>1, <2>2 DEF CallStep, Receive, SetupFails, Steer, Queue, Pause, Prepare, Refuse,
                              CredentialFails, FormCloses
        <3>2. QED
            BY <3>1, QuietStep
    <2>3. QED
        BY <2>1, <2>2
<1>2. ASSUME NEW r \in Run, RunStep(r)
      PROVE  RunInv'
    <2> SUFFICES Generations' /\ Checkpoints'
        BY <1>2, RunTypeStep DEF RunInv
    <2>1. CASE PreludeQuits(r) \/ PreludeUnavailable(r) \/ PreludeRejects(r) \/ AttachBusy(r)
        BY <2>1, OverStep DEF PreludeQuits, PreludeUnavailable, PreludeRejects, AttachBusy, Finish
    <2>2. CASE SettleSuperseded(r) \/ SettleOutage(r) \/ \E st \in Status : Settle(r, st)
        BY <2>2, OverStep DEF SettleSuperseded, SettleOutage, Settle, Finish, Attached
    <2>3. CASE CheckpointSaved(r) \/ WorkEnds(r) \/ Attach(r)
        <3>1. \E stage \in Attached : run' = [run EXCEPT ![r].at = stage]
            BY <2>3 DEF CheckpointSaved, WorkEnds, Attach, Attached
        <3>2. /\ generation' = generation
              /\ \/ run[r].at \in Attached /\ busy' = busy
                 \/ run[r].at = "prelude" /\ run[r].of \notin busy /\ busy' = busy \cup {run[r].of}
            BY <2>3 DEF CheckpointSaved, WorkEnds, Attach, Attached
        <3>3. QED
            BY <3>1, <3>2, StageStep
    <2>4. CASE \E next \in Run, by \in Origin : Continue(r, next, by)
        BY <2>4, ContinueStep
    <2>5. QED
        BY <1>2, <2>1, <2>2, <2>3, <2>4 DEF RunStep
<1>3. ASSUME NEW s \in Session, Stop(s) \/ RetryUnable(s) \/ \E r \in Run : TimerFires(s, r)
      PROVE  RunInv'
    <2> SUFFICES Generations' /\ Checkpoints'
        BY <1>3, SessionTypeStep DEF RunInv
    <2>1. CASE RetryUnable(s)
        BY <2>1, QuietStep DEF RetryUnable
    <2>2. ASSUME NEW r \in Run, TimerFires(s, r)
          PROVE  Generations' /\ Checkpoints'
        BY <2>2, BeginStep DEF TimerFires
    <2>3. QED
        BY <1>3, <2>1, <2>2, StopStep
<1>4. CASE LockAges
    <2>1. TypeOK'
        BY <1>4 DEF LockAges, RunInv, TypeOK, mail
    <2>2. QED
        BY <1>4, <2>1, QuietStep DEF LockAges, RunInv
<1>5. CASE Restart
    BY <1>5, RestartStep, RestartTypeStep DEF RunInv
<1>6. CASE UNCHANGED vars
    <2>1. TypeOK'
        BY <1>6 DEF vars, RunInv, TypeOK, mail, taskLock
    <2>2. QED
        BY <1>6, <2>1, QuietStep DEF vars, RunInv
<1>7. QED
    BY <1>1, <1>2, <1>3, <1>4, <1>5, <1>6 DEF Next

LEMMA RunInvariant == Spec => []RunInv
BY RunInvInit, RunInvStep, PTL DEF Spec

(* The sessions, the runs and the lock keep their types in every behaviour *)
(* of the handlers and of executeRun().                                    *)
THEOREM Types == Spec => []TypeOK
<1>1. RunInv => TypeOK
    BY DEF RunInv
<1>2. QED
    BY <1>1, RunInvariant, PTL

(* isCurrentExecution() holds of one run of a session at most. *)
THEOREM CurrentRunIsOne == Spec => []OneCurrentRun
<1>1. RunInv => OneCurrentRun
    BY DEF RunInv, Generations, OneCurrentRun, Current, Active
<1>2. QED
    BY <1>1, RunInvariant, PTL

(* withCodingCheckpoint() lets one engine work on a session at a time. *)
THEOREM EngineIsOne == Spec => []OneEngine
<1>1. RunInv => OneEngine
    BY DEF RunInv, Checkpoints
<1>2. QED
    BY <1>1, RunInvariant, PTL

-----------------------------------------------------------------------------
(* Without keys in messages no call waits for a form. *)
NoForms == \A c \in Call : call[c].at \notin {"form", "resuming"}

(* A current run that was started under the lock has it, fresh. *)
LockHeld ==
    \A r \in Run : Current(r) /\ run[r].locked =>
        lock = run[r].of /\ claimed = run[r].of /\ ~stale

LEMMA NoFormsStep ==
    ASSUME RunInv, NoForms, "credential" \notin Admitted, [Next]_vars
    PROVE  NoForms'
<1> USE TypeParts DEF RunInv
<1>1. \A s : FormsDropped(s) = call
    BY DEF NoForms, FormsDropped, CallTypes
<1>2. ASSUME NEW c \in Call, Receive(c) \/ CallStep(c) \/ \E saved \in BOOLEAN : FormCloses(c, saved)
      PROVE  NoForms'
    <2>1. ~(\E saved \in BOOLEAN : FormCloses(c, saved))
        BY DEF FormCloses, NoForms
    <2>2. /\ call'[c].at \in {"reading", "preparing", "gone"}
          /\ \A d \in Call : d # c => call'[d] = call[d]
        <3>1. CASE Receive(c)
            BY <3>1 DEF Receive, CallTypes
        <3>2. CASE CallStep(c)
            <4>0. ~Pause(c) /\ ~CredentialFails(c) /\ \A r \in Run : ~ResumeAfterCredential(c, r)
                BY DEF NoForms, Pause, CredentialFails, ResumeAfterCredential
            <4>1. \E stage \in {"preparing", "gone"} : call' = [call EXCEPT ![c].at = stage]
                <5>1. CASE Steer(c, TRUE) \/ Steer(c, FALSE)
                    BY <1>1, <5>1 DEF Steer
                <5>2. CASE Prepare(c)
                    BY <1>1, <5>2 DEF Prepare
                <5>3. CASE SetupFails(c) \/ Queue(c) \/ Refuse(c) \/ \E r \in Run : Resume(c, r)
                    BY <5>3 DEF SetupFails, Return, Queue, Refuse, Resume
                <5>4. QED
                    BY <3>2, <4>0, <5>1, <5>2, <5>3 DEF CallStep
            <4>2. QED
                BY <4>1 DEF CallTypes
        <3>3. QED
            BY <1>2, <2>1, <3>1, <3>2
    <2>3. QED
        BY <2>2 DEF NoForms
<1>3. ASSUME NEW r \in Run, RunStep(r)
      PROVE  call' = call
    BY <1>3 DEF RunStep, PreludeQuits, PreludeUnavailable, PreludeRejects, Attach, AttachBusy,
                CheckpointSaved, WorkEnds, SettleSuperseded, SettleOutage, Settle, Continue
<1>4. ASSUME NEW s \in Session, Stop(s) \/ RetryUnable(s) \/ \E r \in Run : TimerFires(s, r)
      PROVE  call' = call
    BY <1>1, <1>4 DEF Stop, RetryUnable, TimerFires
<1>5. CASE Restart
    BY <1>5 DEF Restart, NoForms, CallTypes
<1>6. CASE LockAges \/ UNCHANGED vars
    BY <1>6 DEF LockAges, vars, NoForms
<1>7. QED
    BY <1>2, <1>3, <1>4, <1>5, <1>6 DEF Next, NoForms

(* A new generation supersedes all that ran for the session. *)
LEMMA Superseded ==
    ASSUME RunInv, NEW s \in Session, generation' = [generation EXCEPT ![s] = @ + 1],
           NEW q \in Run, run'[q] = run[q], run[q].of = s
    PROVE  ~Current(q)'
<1>1. /\ generation \in [Session -> Nat] /\ run[q].gen \in Nat
      /\ run[q].at \in Active => run[q].gen <= generation[s]
    BY TypeParts DEF RunInv, TypeOK, RunTypes, Generations
<1>2. generation'[s] = generation[s] + 1
    BY <1>1
<1>3. QED
    BY <1>1, <1>2 DEF Current, Active

(* Beside the current run of a session no other can become current while   *)
(* the generation stays.                                                   *)
LEMMA Alone ==
    ASSUME RunInv, NEW r \in Run, Current(r), generation' = generation,
           NEW q \in Run, q # r, run'[q] = run[q], run[q].of = run[r].of
    PROVE  ~Current(q)'
BY DEF RunInv, Generations, Current, Active

(* What a run of another session sees does not change. *)
LEMMA Elsewhere ==
    ASSUME NEW s \in Session, NEW q \in Run, run'[q] = run[q], run[q].of # s,
           \A u \in Session : u # s => generation'[u] = generation[u] /\ engine'[u] = engine[u],
           run[q].at \in Active => run[q].of \in Session
    PROVE  Current(q)' = Current(q)
BY DEF Current, Active

-----------------------------------------------------------------------------
(* The lock stays with the current run that was started under it.  Case by *)
(* case: q is such a run after the step.                                   *)
LEMMA LockHeldStep ==
    ASSUME RunInv, NoForms, LockHeld, {"credential", "long run"} \cap Admitted = {}, [Next]_vars
    PROVE  LockHeld'
<1> SUFFICES ASSUME NEW q \in Run, Current(q)', run'[q].locked
             PROVE  (lock = run[q].of /\ claimed = run[q].of /\ ~stale)'
    BY DEF LockHeld
<1> USE TypeParts DEF RunInv
<1> DEFINE Goal == (lock = run[q].of /\ claimed = run[q].of /\ ~stale)'
           Kept == lock = run[q].of /\ claimed = run[q].of /\ ~stale
<1>1. \A r \in Run : run[r].at \in Active => run[r].of \in Session /\ run[r].of # None
    BY SessionAssumption DEF Generations
<1>2. /\ generation \in [Session -> Nat] /\ engine \in [Session -> Run \cup {None}]
      /\ \A r \in Run : run[r].gen \in Nat
    BY DEF TypeOK, RunTypes
<1>k. Current(q) /\ run[q].locked => Kept
    BY DEF LockHeld
<1>3. ASSUME UNCHANGED <<run, generation, engine>>
      PROVE  Kept
    BY <1>3, <1>k DEF Current
<1>4. ASSUME NEW c \in Call, NEW r \in Run, Resume(c, r)
      PROVE  Goal
    <2> DEFINE s == Target[c]
    <2>1. /\ s \in Session /\ lock' = s /\ claimed' = s /\ stale' = FALSE /\ ~LockRefuses(s)
          /\ run' = [run EXCEPT ![r] = [of |-> s, gen |-> generation[s] + 1, at |-> "prelude",
                                        by |-> "message", locked |-> TRUE]]
          /\ generation' = [generation EXCEPT ![s] = @ + 1] /\ engine' = engine
        BY <1>4, TargetAssumption DEF Resume, Begin
    <2>2. CASE q = r
        BY <2>1, <2>2 DEF RunTypes
    <2>3. CASE q # r
        <3>1. run'[q] = run[q] /\ run[q].at \in Active
            BY <2>1, <2>3 DEF Current, Active
        <3>2. run[q].of # s
            BY <2>1, <3>1, Superseded
        <3>3. Current(q)
            BY <1>2, <2>1, <3>1, <3>2, <1>1, Elsewhere
        <3>4. QED
            BY <1>1, <1>k, <2>1, <3>1, <3>2, <3>3 DEF LockRefuses
    <2>4. QED
        BY <2>2, <2>3
<1>5. ASSUME NEW s \in Session, NEW r \in Run, TimerFires(s, r)
      PROVE  Goal
    <2>1. /\ run' = [run EXCEPT ![r] = [of |-> s, gen |-> generation[s] + 1, at |-> "prelude",
                                        by |-> "retry", locked |-> FALSE]]
          /\ generation' = [generation EXCEPT ![s] = @ + 1] /\ engine' = engine
          /\ UNCHANGED <<lock, stale, claimed>>
        BY <1>5 DEF TimerFires, Begin, taskLock
    <2>2. q # r /\ run'[q] = run[q] /\ run[q].at \in Active
        BY <2>1 DEF RunTypes, Current, Active
    <2>3. Current(q)
        BY <1>1, <1>2, <2>1, <2>2, Superseded, Elsewhere
    <2>4. QED
        BY <1>k, <2>1, <2>2, <2>3
<1>6. ASSUME NEW s \in Session, Stop(s)
      PROVE  Goal
    <2>1. /\ generation' = [generation EXCEPT ![s] = @ + 1] /\ engine' = [engine EXCEPT ![s] = None]
          /\ UNCHANGED <<run, lock, stale, claimed>>
        BY <1>6 DEF Stop, taskLock
    <2>2. run'[q] = run[q] /\ run[q].at \in Active
        BY <2>1 DEF Current, Active
    <2>3. Current(q)
        BY <1>1, <1>2, <2>1, <2>2, Superseded, Elsewhere
    <2>4. QED
        BY <1>k, <2>1, <2>2, <2>3
<1>7. ASSUME NEW r \in Run, run' = Over(r), UNCHANGED <<generation, engine, lock, stale, claimed>>
      PROVE  Goal
    <2>1. q # r /\ run'[q] = run[q]
        BY <1>7 DEF Over, UnusedRun, Current, RunTypes, Attached
    <2>2. QED
        BY <1>k, <1>7, <2>1 DEF Current
<1>8. ASSUME NEW r \in Run, Current(r), NEW st, Finish(r, st), generation' = generation
      PROVE  Goal
    <2>1. q # r /\ run'[q] = run[q] /\ run[q].at \in Active
        BY <1>8 DEF Finish, Over, UnusedRun, Current, RunTypes, Attached, Active
    <2>2. run[q].of # run[r].of
        BY <1>8, <2>1, Alone
    <2>3. Current(q)
        BY <1>1, <1>2, <1>8, <2>1, <2>2 DEF Finish, Current, Active
    <2>4. QED
        BY <1>k, <1>8, <2>1, <2>2, <2>3 DEF Finish, Release, taskLock
<1>9. ASSUME NEW r \in Run, run[r].at \in Attached, NEW stage \in Attached,
             run' = [run EXCEPT ![r].at = stage], UNCHANGED <<generation, engine, lock, stale, claimed>>
      PROVE  Goal
    <2>1. Current(q) /\ run[q].locked /\ run'[q].of = run[q].of
        BY <1>9 DEF Current, RunTypes, Attached
    <2>2. Kept
        BY <1>k, <2>1
    <2>3. QED
        BY <1>9, <2>1, <2>2
<1>10. ASSUME NEW r \in Run, Attach(r)
       PROVE  Goal
    <2>1. /\ Current(r) /\ run' = [run EXCEPT ![r].at = "checkpoint"]
          /\ engine' = [engine EXCEPT ![run[r].of] = r] /\ UNCHANGED <<generation, lock, stale, claimed>>
        BY <1>10 DEF Attach, taskLock
    <2>2. CASE q = r
        BY <1>k, <2>1, <2>2 DEF RunTypes
    <2>3. CASE q # r
        <3>1. run'[q] = run[q] /\ run[q].at \in Active
            BY <2>1, <2>3 DEF Current, Active
        <3>2. Current(q)
            BY <1>1, <1>2, <2>1, <2>3, <3>1, Alone DEF Current, Active
        <3>3. QED
            BY <1>k, <2>1, <3>1, <3>2
    <2>4. QED
        BY <2>2, <2>3
<1>11. ASSUME NEW r \in Run, NEW next \in Run, NEW by \in Origin, Continue(r, next, by)
       PROVE  Goal
    <2> DEFINE s == run[r].of
    <2>1. /\ Current(r) /\ run[r].at = "sealing" /\ run[next].at = "unused" /\ s \in Session
          /\ run' = [Over(r) EXCEPT ![next] = [of |-> s, gen |-> generation[s] + 1, at |-> "prelude",
                                               by |-> by, locked |-> run[r].locked]]
          /\ generation' = [generation EXCEPT ![s] = @ + 1] /\ engine' = [engine EXCEPT ![s] = None]
          /\ UNCHANGED <<lock, stale, claimed>>
        BY <1>1, <1>11 DEF Continue, Begin, taskLock, Active, Attached
    <2>2. CASE q = next
        BY <2>1, <2>2 DEF LockHeld, Over, RunTypes
    <2>3. CASE q # next
        <3>1. q # r /\ run'[q] = run[q] /\ run[q].at \in Active
            BY <2>1, <2>3 DEF Over, UnusedRun, Current, RunTypes, Attached, Active
        <3>2. Current(q)
            BY <1>1, <1>2, <2>1, <3>1, Superseded, Elsewhere
        <3>3. QED
            BY <1>k, <2>1, <3>1, <3>2
    <2>4. QED
        BY <2>2, <2>3
<1>12. CASE LockAges
    <2>1. ~(\E r \in Run : Current(r) /\ run[r].of = lock) /\ UNCHANGED <<run, generation, engine>>
        BY <1>12 DEF LockAges
    <2>2. QED
        BY <1>k, <2>1 DEF Current
<1>13. CASE Restart
    BY <1>13 DEF Restart, Over, UnusedRun, RunTypes, Current, Attached
<1>14. CASE UNCHANGED vars
    BY <1>3, <1>14 DEF vars, taskLock
<1>15. ASSUME NEW c \in Call, Receive(c) \/ CallStep(c) \/ \E saved \in BOOLEAN : FormCloses(c, saved)
       PROVE  Goal
    <2>1. CASE \E r \in Run : Resume(c, r)
        BY <1>4, <2>1
    <2>2. CASE ~\E r \in Run : Resume(c, r)
        <3>1. UNCHANGED <<run, generation, engine, lock, stale, claimed>>
            BY <1>15, <2>2 DEF CallStep, Receive, SetupFails, Steer, Queue, Pause, Prepare, Refuse, NoForms,
                               CredentialFails, FormCloses, ResumeAfterCredential, taskLock
        <3>2. QED
            BY <1>3, <3>1
    <2>3. QED
        BY <2>1, <2>2
<1>16. ASSUME NEW r \in Run, RunStep(r)
       PROVE  Goal
    <2>1. CASE PreludeQuits(r) \/ PreludeUnavailable(r) \/ PreludeRejects(r) \/ SettleSuperseded(r)
        BY <1>7, <2>1 DEF PreludeQuits, PreludeUnavailable, PreludeRejects, SettleSuperseded, taskLock
    <2>2. CASE AttachBusy(r) \/ SettleOutage(r) \/ \E st \in Status : Settle(r, st)
        BY <1>8, <2>2 DEF AttachBusy, SettleOutage, Settle
    <2>3. CASE CheckpointSaved(r) \/ WorkEnds(r)
        BY <1>9, <2>3 DEF CheckpointSaved, WorkEnds, taskLock, Attached
    <2>4. QED
        BY <1>10, <1>11, <1>16, <2>1, <2>2, <2>3 DEF RunStep
<1>17. ASSUME NEW s \in Session, RetryUnable(s)
       PROVE  Goal
    BY <1>3, <1>17 DEF RetryUnable, taskLock
<1>18. QED
    BY <1>5, <1>6, <1>12, <1>13, <1>14, <1>15, <1>16, <1>17 DEF Next

(* Where no message holds a key and no run outlasts its lock, the resume   *)
(* lock of a task keeps its sessions apart (acquireTaskLock).              *)
THEOREM LockExcludes ==
    ASSUME {"credential", "long run"} \cap Admitted = {}
    PROVE  Spec => []LockedRunsExclusive
<1>1. ASSUME Init
      PROVE  NoForms /\ LockHeld
    <2>1. \A r \in Run : run[r].at = "unused"
        BY <1>1 DEF Init, UnusedRun
    <2>2. \A c \in Call : call[c].at = "unsent"
        BY <1>1 DEF Init
    <2>3. QED
        BY <2>1, <2>2 DEF NoForms, LockHeld, Current, Attached
<1>2. RunInv /\ NoForms /\ LockHeld /\ [Next]_vars => NoForms' /\ LockHeld'
    BY NoFormsStep, LockHeldStep
<1>3. RunInv /\ LockHeld => LockedRunsExclusive
    BY DEF LockHeld, LockedRunsExclusive
<1>4. QED
    BY <1>1, <1>2, <1>3, RunInvariant, PTL DEF Spec

-----------------------------------------------------------------------------
(* A session that works is running, on behalf of one handler or of one run. *)
Reserved == \A s \in Session : Reserving(s) # {} => status[s] = "running"
ReservedOnce == \A s \in Session : \A c, d \in Reserving(s) : c = d
RunsRun == \A r \in Run : Current(r) => status[run[r].of] = "running" /\ Reserving(run[r].of) = {}
TimersWait == \A s \in timer : status[s] = "waiting"
Prepared == \A c \in Call : call[c].at = "preparing" => call[c].prev # "running"
Working == NoForms /\ Prepared /\ Reserved /\ ReservedOnce /\ RunsRun /\ TimersWait

(* A step that makes a stopped session work again is the receipt of a message. *)
Sticks ==
    \A s \in Session :
        status[s] = "aborted" /\ status'[s] \in {"running", "waiting", "completed"} =>
            \E c \in Call : Target[c] = s /\ call[c].at = "unsent" /\ call'[c].at = "reading"

(* A handler that goes on and stays where it was, as far as its session is *)
(* concerned, with runs, status and generations unchanged.                 *)
LEMMA WorkingIdle ==
    ASSUME RunInv, Working, NoForms', Prepared', UNCHANGED <<status, run, generation, engine>>,
           \A s \in Session : Reserving(s)' = Reserving(s),
           \A s \in timer' : s \in timer \/ status[s] = "waiting"
    PROVE  Working' /\ Sticks
<1>1. \A r \in Run : run[r].at \in Active => run[r].of \in Session
    BY DEF RunInv, Generations
<1>2. RunsRun'
    BY <1>1 DEF Working, RunsRun, Current, Active
<1>3. Reserved' /\ ReservedOnce' /\ TimersWait'
    BY DEF Working, Reserved, ReservedOnce, TimersWait
<1>4. Sticks
    BY DEF Sticks
<1>5. QED
    BY <1>2, <1>3, <1>4 DEF Working

(* The step of a handler *)
LEMMA WorkingCall ==
    ASSUME RunInv, Working, NoForms', NEW c \in Call,
           Receive(c) \/ CallStep(c) \/ \E saved \in BOOLEAN : FormCloses(c, saved)
    PROVE  Working' /\ Sticks
<1> USE TypeParts DEF RunInv
<1> DEFINE s == Target[c]
<1>0. s \in Session /\ \A u : FormsDropped(u) = call
    BY TargetAssumption DEF Working, NoForms, FormsDropped, CallTypes
<1>1. \A r \in Run : run[r].at \in Active => run[r].of \in Session
    BY DEF Generations
<1>2. ~(\E saved \in BOOLEAN : FormCloses(c, saved)) /\ ~CredentialFails(c)
      /\ \A r \in Run : ~ResumeAfterCredential(c, r)
    BY DEF Working, NoForms, FormCloses, CredentialFails, ResumeAfterCredential
<1>3. ~Pause(c)
    <2>1. ASSUME Pause(c)
          PROVE  call'[c].at = "form"
        BY <1>0, <2>1 DEF Pause, CallTypes
    <2>2. QED
        BY <2>1 DEF NoForms
<1>4. CASE Receive(c)
    <2>0. Prepared'
        BY <1>4 DEF Receive, CallTypes, Working, Prepared
    <2>1. CASE status[s] = "running"
        <3>1. \A u \in Session : Reserving(u)' = Reserving(u)
            BY <1>0, <1>4, <2>1 DEF Receive, Reserving, CallTypes
        <3>2. status' = status
            BY <1>4, <2>1 DEF Receive
        <3>3. QED
            BY <1>4, <2>0, <3>1, <3>2, WorkingIdle DEF Receive
    <2>2. CASE status[s] # "running"
        <3>1. Reserving(s) = {} /\ \A r \in Run : Current(r) => run[r].of # s
            BY <1>0, <2>2 DEF Working, Reserved, RunsRun
        <3>2. \A u \in Session : Reserving(u)' = IF u = s THEN {c} ELSE Reserving(u)
            BY <1>0, <1>4, <2>2, <3>1 DEF Receive, Reserving, CallTypes
        <3>3. /\ status' = [status EXCEPT ![s] = "running"] /\ timer' = timer \ {s}
              /\ UNCHANGED <<run, generation, engine>>
              /\ call[c].at = "unsent" /\ call'[c].at = "reading"
            BY <1>4 DEF Receive, CallTypes
        <3>4. Reserved' /\ ReservedOnce'
            BY <1>0, <3>2, <3>3 DEF Working, Reserved, ReservedOnce
        <3>5. RunsRun'
            BY <1>0, <1>1, <3>1, <3>2, <3>3 DEF Working, RunsRun, Current, Active
        <3>6. TimersWait' /\ Sticks
            BY <1>0, <3>3 DEF Working, TimersWait, Sticks, TypeOK
        <3>7. QED
            BY <2>0, <3>4, <3>5, <3>6 DEF Working
    <2>3. QED
        BY <2>1, <2>2
<1>5. ASSUME call[c].at \in {"reading", "preparing"}, call[c].prev # "running"
      PROVE  /\ Reserving(s) = {c} /\ status[s] = "running" /\ s \notin timer
             /\ \A r \in Run : Current(r) => run[r].of # s
    BY <1>0, <1>5 DEF Reserving, Working, Reserved, ReservedOnce, RunsRun, TimersWait
<1>6. ASSUME call' = [call EXCEPT ![c].at = "gone"]
      PROVE  Prepared' /\ \A u \in Session : Reserving(u)' = Reserving(u) \ {c}
    BY <1>6 DEF Reserving, CallTypes, Working, Prepared
<1>7. ASSUME call' = [call EXCEPT ![c].at = "gone"], call[c].prev = "running", NoForms,
             UNCHANGED <<status, run, generation, engine>>, timer' = Rescheduled(s, status[s])
      PROVE  Working' /\ Sticks
    <2>1. \A u \in Session : c \notin Reserving(u)
        BY <1>7 DEF Reserving, NoForms
    <2>2. QED
        BY <1>6, <1>7, <2>1, WorkingIdle DEF Rescheduled
<1>8. CASE (SetupFails(c) \/ Refuse(c)) /\ call[c].prev # "running"
    <2>1. /\ call[c].at \in {"reading", "preparing"} /\ call' = [call EXCEPT ![c].at = "gone"]
          /\ status' = [status EXCEPT ![s] = call[c].prev]
          /\ timer' = Rescheduled(s, call[c].prev) /\ UNCHANGED <<run, generation, engine>>
        BY <1>8 DEF SetupFails, Refuse, Return
    <2>2. /\ Reserving(s) = {c} /\ status[s] = "running" /\ s \notin timer
          /\ \A r \in Run : Current(r) => run[r].of # s
        BY <1>5, <1>8, <2>1
    <2>3. Prepared' /\ \A u \in Session : Reserving(u)' = Reserving(u) \ {c}
        BY <1>6, <2>1
    <2>4. \A u \in Session : u # s => status'[u] = status[u] /\ Reserving(u)' \subseteq Reserving(u)
        BY <2>1, <2>3
    <2>5. Reserving(s)' = {}
        BY <1>0, <2>2, <2>3
    <2>6. Reserved' /\ ReservedOnce'
        BY <2>4, <2>5 DEF Working, Reserved, ReservedOnce
    <2>7. RunsRun'
        BY <1>1, <2>1, <2>2, <2>4 DEF Working, RunsRun, Current, Active
    <2>8. TimersWait'
        <3>1. timer \subseteq Session
            BY DEF TypeOK
        <3>2. s \in timer' => call[c].prev = "waiting"
            BY <2>1, <2>2 DEF Rescheduled
        <3>3. \A u \in timer' : u # s => u \in timer
            BY <2>1 DEF Rescheduled
        <3>4. QED
            BY <1>0, <2>1, <2>4, <3>1, <3>2, <3>3 DEF Working, TimersWait
    <2>9. Sticks
        BY <2>2, <2>4 DEF Sticks
    <2>10. QED
        BY <2>3, <2>6, <2>7, <2>8, <2>9 DEF Working
<1>9. CASE SetupFails(c) /\ call[c].prev = "running"
    BY <1>7, <1>9 DEF SetupFails, Return, Working
<1>10. CASE Steer(c, TRUE) \/ Steer(c, FALSE) \/ Queue(c)
    <2>1. /\ call' = [call EXCEPT ![c].at = "gone"] /\ call[c].prev = "running"
          /\ UNCHANGED <<run, generation, engine>> /\ timer' = Rescheduled(s, status[s])
        BY <1>0, <1>10 DEF Steer, Queue, Return
    <2>2. status' = status
        BY <1>10 DEF Steer, Queue, Return
    <2>3. QED
        BY <1>7, <2>1, <2>2 DEF Working
<1>11. CASE Prepare(c)
    <2>1. /\ call' = [call EXCEPT ![c].at = "preparing"]
          /\ call[c].at = "reading" /\ call[c].prev # "running"
          /\ UNCHANGED <<status, run, generation, engine, timer>>
        BY <1>0, <1>11 DEF Prepare
    <2>2. Prepared' /\ \A u \in Session : Reserving(u)' = Reserving(u)
        BY <2>1 DEF Reserving, CallTypes, Working, Prepared
    <2>3. QED
        BY <2>1, <2>2, WorkingIdle
<1>12. ASSUME NEW r \in Run, Resume(c, r)
       PROVE  Working' /\ Sticks
    <2>1. /\ call[c].at = "preparing" /\ call' = [call EXCEPT ![c].at = "gone"]
          /\ status' = [status EXCEPT ![s] = "running"] /\ timer' = timer \ {s} /\ engine' = engine
          /\ generation' = [generation EXCEPT ![s] = @ + 1]
          /\ run' = [run EXCEPT ![r] = [of |-> s, gen |-> generation[s] + 1, at |-> "prelude",
                                        by |-> "message", locked |-> TRUE]]
        BY <1>12 DEF Resume, Begin
    <2>2. /\ Reserving(s) = {c} /\ status[s] = "running" /\ s \notin timer
          /\ \A q \in Run : Current(q) => run[q].of # s
        BY <1>5, <2>1 DEF Working, Prepared
    <2>3. status' = status /\ timer' = timer
        BY <1>0, <2>1, <2>2 DEF TypeOK
    <2>4. Prepared' /\ \A u \in Session : Reserving(u)' = Reserving(u) \ {c}
        BY <1>6, <2>1
    <2>5. \A q \in Run : Current(q)' => (Current(q) /\ run'[q] = run[q]) \/ run'[q].of = s
        BY <1>1, <2>1 DEF Current, Active, RunTypes, TypeOK
    <2>6. RunsRun'
        BY <1>0, <1>1, <2>2, <2>3, <2>4, <2>5 DEF Working, RunsRun, Current, Active
    <2>7. QED
        BY <2>3, <2>4, <2>6 DEF Working, Reserved, ReservedOnce, TimersWait, Sticks
<1>13. QED
    <2>1. Refuse(c) => call[c].prev # "running"
        BY DEF Refuse, Working, Prepared
    <2>2. QED
        BY <1>2, <1>3, <1>4, <1>8, <1>9, <1>10, <1>11, <1>12, <2>1 DEF CallStep

(* The step of a run, where no prelude fails *)
LEMMA WorkingRun ==
    ASSUME RunInv, Working, "bad prelude" \notin Admitted, NEW r \in Run, RunStep(r)
    PROVE  Working' /\ Sticks
<1> USE TypeParts DEF RunInv
<1>1. /\ \A q \in Run : run[q].at \in Active => run[q].of \in Session
      /\ engine \in [Session -> Run \cup {None}]
    BY DEF Generations, TypeOK
<1>2. /\ call' = call /\ NoForms' /\ Prepared' /\ timer \subseteq Session
      /\ \A u \in Session : Reserving(u)' = Reserving(u)
    <2>1. call' = call
        BY DEF RunStep, PreludeQuits, PreludeUnavailable, PreludeRejects, Attach, AttachBusy,
               CheckpointSaved, WorkEnds, SettleSuperseded, SettleOutage, Settle, Continue
    <2>2. QED
        BY <2>1 DEF Working, NoForms, Prepared, Reserving, TypeOK
<1>3. ~PreludeUnavailable(r) /\ ~PreludeRejects(r)
    BY DEF PreludeUnavailable, PreludeRejects
<1>4. ASSUME UNCHANGED <<status, timer>>,
             \A q \in Run : Current(q)' => Current(q) /\ run'[q].of = run[q].of
      PROVE  Working' /\ Sticks
    <2>1. RunsRun'
        <3>1. ASSUME NEW q \in Run, Current(q)'
              PROVE  (status[run[q].of] = "running" /\ Reserving(run[q].of) = {})'
            <4>1. Current(q) /\ run'[q].of = run[q].of /\ run[q].of \in Session
                BY <1>1, <1>4, <3>1 DEF Current, Active
            <4>2. status[run[q].of] = "running" /\ Reserving(run[q].of) = {}
                BY <4>1 DEF Working, RunsRun
            <4>3. QED
                BY <1>2, <1>4, <4>1, <4>2
        <3>2. QED
            BY <3>1 DEF RunsRun
    <2>2. Reserved' /\ ReservedOnce' /\ TimersWait'
        BY <1>2, <1>4 DEF Working, Reserved, ReservedOnce, TimersWait
    <2>3. Sticks
        BY <1>4 DEF Sticks
    <2>4. QED
        BY <1>2, <2>1, <2>2, <2>3 DEF Working
<1>5. CASE PreludeQuits(r) \/ SettleSuperseded(r)
    <2>1. run' = Over(r) /\ UNCHANGED <<status, timer, generation, engine>>
        BY <1>5 DEF PreludeQuits, SettleSuperseded
    <2>2. \A q \in Run : Current(q)' => Current(q) /\ run'[q].of = run[q].of
        BY <2>1 DEF Over, UnusedRun, Current, RunTypes, Attached
    <2>3. QED
        BY <1>4, <2>1, <2>2
<1>6. CASE CheckpointSaved(r) \/ WorkEnds(r)
    <2>1. PICK stage \in Attached :
            /\ run[r].at \in Attached /\ run' = [run EXCEPT ![r].at = stage]
            /\ UNCHANGED <<status, timer, generation, engine>>
        BY <1>6 DEF CheckpointSaved, WorkEnds, Attached
    <2>2. ASSUME NEW q \in Run, Current(q)'
          PROVE  Current(q) /\ run'[q].of = run[q].of
        <3>1. CASE q = r
            BY <2>1, <2>2, <3>1 DEF Current, RunTypes, Attached
        <3>2. CASE q # r
            BY <2>1, <2>2, <3>2 DEF Current
        <3>3. QED
            BY <3>1, <3>2
    <2>3. QED
        BY <1>4, <2>1, <2>2
<1>7. CASE Attach(r)
    <2>1. /\ Current(r) /\ run' = [run EXCEPT ![r].at = "checkpoint"]
          /\ engine' = [engine EXCEPT ![run[r].of] = r] /\ UNCHANGED <<status, timer, generation>>
        BY <1>7 DEF Attach
    <2>2. ASSUME NEW q \in Run, Current(q)', q # r
          PROVE  Current(q) /\ run'[q].of = run[q].of
        <3>1. run'[q] = run[q]
            BY <2>1, <2>2
        <3>2. run[q].of # run[r].of
            BY <2>1, <2>2, <3>1, Alone
        <3>3. QED
            BY <1>1, <2>1, <2>2, <3>1, <3>2 DEF Current, Active
    <2>3. run'[r].of = run[r].of
        BY <2>1 DEF RunTypes
    <2>4. QED
        BY <1>4, <2>1, <2>2, <2>3
<1>8. ASSUME NEW st \in Status, Finish(r, st), Current(r), generation' = generation,
             \/ timer' = timer
             \/ st = "waiting" /\ timer' = timer \cup {run[r].of}
      PROVE  Working' /\ Sticks
    <2> DEFINE s == run[r].of
    <2>1. /\ s \in Session /\ status[s] = "running" /\ Reserving(s) = {} /\ s \notin timer
          /\ status' = [status EXCEPT ![s] = st]
        BY <1>1, <1>8 DEF Finish, Current, Active, Working, RunsRun, TimersWait
    <2>2. ASSUME NEW q \in Run, Current(q)'
          PROVE  Current(q) /\ run'[q] = run[q] /\ run[q].of \in Session /\ run[q].of # s
        <3>1. q # r /\ run'[q] = run[q] /\ run[q].at \in Active
            BY <1>8, <2>2 DEF Finish, Over, UnusedRun, Current, RunTypes, Attached, Active
        <3>2. run[q].of # s
            BY <1>8, <2>2, <3>1, Alone
        <3>3. run[q].of \in Session /\ engine'[run[q].of] = engine[run[q].of]
            BY <1>1, <1>8, <3>1, <3>2 DEF Finish
        <3>4. QED
            BY <1>8, <2>2, <3>1, <3>2, <3>3 DEF Current
    <2>3. RunsRun'
        BY <1>2, <2>1, <2>2 DEF Working, RunsRun
    <2>4. Reserved' /\ ReservedOnce'
        BY <1>2, <2>1 DEF Working, Reserved, ReservedOnce
    <2>5. TimersWait'
        <3>1. ASSUME NEW u \in timer'
              PROVE  status'[u] = "waiting"
            <4>1. CASE u \in timer
                BY <1>2, <2>1, <4>1 DEF Working, TimersWait
            <4>2. CASE u \notin timer
                <5>1. u = s /\ st = "waiting"
                    BY <1>8, <4>2
                <5>2. status'[s] = st
                    BY <2>1
                <5>3. QED
                    BY <5>1, <5>2
            <4>3. QED
                BY <4>1, <4>2
        <3>2. QED
            BY <3>1 DEF TimersWait
    <2>6. Sticks
        BY <2>1 DEF Sticks
    <2>7. QED
        BY <1>2, <2>3, <2>4, <2>5, <2>6 DEF Working
<1>9. CASE AttachBusy(r)
    BY <1>8, <1>9 DEF AttachBusy, Status
<1>10. CASE SettleOutage(r)
    BY <1>8, <1>10 DEF SettleOutage, Status
<1>11. ASSUME NEW st \in Status, Settle(r, st)
       PROVE  Working' /\ Sticks
    BY <1>8, <1>11 DEF Settle
<1>12. ASSUME NEW next \in Run, NEW by \in Origin, Continue(r, next, by)
       PROVE  Working' /\ Sticks
    <2> DEFINE s == run[r].of
    <2>1. /\ Current(r) /\ s \in Session
          /\ run' = [Over(r) EXCEPT ![next] = [of |-> s, gen |-> generation[s] + 1, at |-> "prelude",
                                               by |-> by, locked |-> run[r].locked]]
          /\ generation' = [generation EXCEPT ![s] = @ + 1] /\ engine' = [engine EXCEPT ![s] = None]
          /\ timer' = timer \ {s} /\ status' = [status EXCEPT ![s] = "running"]
        BY <1>1, <1>12 DEF Continue, Begin, Current, Active
    <2>2. status[s] = "running" /\ Reserving(s) = {} /\ s \notin timer
        BY <2>1 DEF Working, RunsRun, TimersWait
    <2>3. status' = status /\ timer' = timer
        BY <2>1, <2>2
    <2>4. ASSUME NEW q \in Run, Current(q)'
          PROVE  (Current(q) /\ run'[q] = run[q]) \/ run'[q].of = s
        <3>1. CASE q = next
            BY <2>1, <3>1 DEF Over, RunTypes
        <3>2. CASE q # next
            <4>1. run'[q] = run[q]
                BY <2>1, <2>4, <3>2 DEF Over, UnusedRun, Current, RunTypes, Attached
            <4>2. QED
                <5>1. run[q].at \in Active /\ run[q].gen = generation'[run[q].of]
                    BY <2>4, <4>1 DEF Current, Active
                <5>2. CASE run[q].of = s
                    BY <4>1, <5>2
                <5>3. CASE run[q].of # s
                    <6>1. run[q].of \in Session
                        BY <1>1, <5>1
                    <6>2. /\ generation'[run[q].of] = generation[run[q].of]
                          /\ engine'[run[q].of] = engine[run[q].of]
                        BY <1>1, <2>1, <5>3, <6>1 DEF TypeOK
                    <6>3. QED
                        BY <2>4, <4>1, <6>2 DEF Current
                <5>4. QED
                    BY <5>2, <5>3
        <3>3. QED
            BY <3>1, <3>2
    <2>5. RunsRun'
        <3>1. ASSUME NEW q \in Run, Current(q)'
              PROVE  (status[run[q].of] = "running" /\ Reserving(run[q].of) = {})'
            <4>1. CASE run'[q].of = s
                BY <1>2, <2>1, <2>2, <2>3, <4>1
            <4>2. CASE Current(q) /\ run'[q] = run[q]
                <5>1. status[run[q].of] = "running" /\ Reserving(run[q].of) = {} /\ run[q].of \in Session
                    BY <1>1, <4>2 DEF Working, RunsRun, Current, Active
                <5>2. QED
                    BY <1>2, <2>3, <4>2, <5>1
            <4>3. QED
                BY <2>4, <3>1, <4>1, <4>2
        <3>2. QED
            BY <3>1 DEF RunsRun
    <2>6. QED
        BY <1>2, <2>3, <2>5 DEF Working, Reserved, ReservedOnce, TimersWait, Sticks
<1>13. QED
    BY <1>3, <1>5, <1>6, <1>7, <1>9, <1>10, <1>11, <1>12 DEF RunStep

(* A stop, where it meets no handler, and the retry of a waiting session *)
LEMMA WorkingSession ==
    ASSUME RunInv, Working, NoForms', "reserved stop" \notin Admitted, NEW s \in Session,
           Stop(s) \/ RetryUnable(s) \/ \E r \in Run : TimerFires(s, r)
    PROVE  Working' /\ Sticks
<1> USE TypeParts DEF RunInv
<1>1. /\ \A q \in Run : run[q].at \in Active => run[q].of \in Session
      /\ timer \subseteq Session
    BY DEF Generations, TypeOK
<1>2. call' = call /\ Prepared' /\ \A u \in Session : Reserving(u)' = Reserving(u)
    <2>1. call' = call
        BY DEF Stop, RetryUnable, TimerFires, FormsDropped, Working, NoForms, CallTypes
    <2>2. QED
        BY <2>1 DEF Working, Prepared, Reserving
<1>3. CASE Stop(s)
    <2>1. /\ status' = [status EXCEPT ![s] = "aborted"] /\ timer' = timer \ {s} /\ Reserving(s) = {}
          /\ run' = run /\ generation' = [generation EXCEPT ![s] = @ + 1]
          /\ engine' = [engine EXCEPT ![s] = None]
        BY <1>3 DEF Stop
    <2>2. \A q \in Run : Current(q)' => Current(q) /\ run[q].of # s /\ run[q].of \in Session
        <3>1. \A q \in Run : Current(q)' => run[q].of # s
            BY <2>1, Superseded
        <3>2. QED
            BY <1>1, <2>1, <3>1 DEF Current, Active, TypeOK
    <2>3. RunsRun'
        BY <1>2, <2>1, <2>2 DEF Working, RunsRun
    <2>4. QED
        BY <1>1, <1>2, <2>1, <2>3 DEF Working, Reserved, ReservedOnce, TimersWait, Sticks
<1>4. ASSUME status[s] = "waiting"
      PROVE  Reserving(s) = {} /\ \A q \in Run : Current(q) => run[q].of # s
    BY <1>4 DEF Working, Reserved, RunsRun
<1>5. CASE RetryUnable(s)
    <2>1. /\ status[s] = "waiting" /\ status' = [status EXCEPT ![s] = "blocked"]
          /\ timer' = timer \ {s} /\ UNCHANGED <<run, generation, engine>>
        BY <1>5 DEF RetryUnable
    <2>2. RunsRun'
        BY <1>1, <1>2, <1>4, <2>1 DEF Working, RunsRun, Current, Active
    <2>3. QED
        BY <1>1, <1>2, <1>4, <2>1, <2>2 DEF Working, Reserved, ReservedOnce, TimersWait, Sticks
<1>6. ASSUME NEW r \in Run, TimerFires(s, r)
      PROVE  Working' /\ Sticks
    <2>1. /\ status[s] = "waiting" /\ status' = [status EXCEPT ![s] = "running"]
          /\ timer' = timer \ {s} /\ engine' = engine
          /\ generation' = [generation EXCEPT ![s] = @ + 1]
          /\ run' = [run EXCEPT ![r] = [of |-> s, gen |-> generation[s] + 1, at |-> "prelude",
                                        by |-> "retry", locked |-> FALSE]]
        BY <1>6 DEF TimerFires, Begin
    <2>2. \A q \in Run : Current(q)' => (Current(q) /\ run'[q] = run[q]) \/ run'[q].of = s
        BY <1>1, <2>1 DEF Current, Active, RunTypes, TypeOK
    <2>3. RunsRun'
        BY <1>1, <1>2, <1>4, <2>1, <2>2 DEF Working, RunsRun, Current, Active
    <2>4. QED
        BY <1>1, <1>2, <1>4, <2>1, <2>3 DEF Working, Reserved, ReservedOnce, TimersWait, Sticks
<1>7. QED
    BY <1>3, <1>5, <1>6

(* A restart lets nothing work. *)
LEMMA WorkingRestart ==
    ASSUME RunInv, Working, NoForms', Restart
    PROVE  Working' /\ Sticks
<1> USE TypeParts DEF RunInv
<1>1. \A q \in Run : ~Current(q)'
    BY DEF Restart, Over, UnusedRun, RunTypes, Current, Attached
<1>2. \A c \in Call : call'[c].at \in {"unsent", "gone"}
    BY DEF Restart, CallTypes, Working, NoForms
<1>3. Prepared' /\ Reserved' /\ ReservedOnce'
    BY <1>2 DEF Prepared, Reserved, ReservedOnce, Reserving
<1>4. RunsRun'
    BY <1>1 DEF RunsRun
<1>5. TimersWait'
    BY DEF Restart, TimersWait
<1>6. Sticks
    BY DEF Restart, Sticks
<1>7. QED
    BY <1>3, <1>4, <1>5, <1>6 DEF Working

(* At the start no session works. *)
LEMMA WorkingInit == Init => Working
<1> SUFFICES ASSUME Init
             PROVE  Working
    OBVIOUS
<1>1. \A r \in Run : run[r].at = "unused"
    BY DEF Init, UnusedRun
<1>2. (\A c \in Call : call[c].at = "unsent") /\ timer = {}
    BY DEF Init
<1>3. \A s \in Session : Reserving(s) = {}
    BY <1>2 DEF Reserving
<1>4. QED
    BY <1>1, <1>2, <1>3 DEF Working, NoForms, Prepared, Reserved, ReservedOnce, RunsRun,
                            TimersWait, Current, Attached

LEMMA WorkingStep ==
    ASSUME RunInv, Working, {"credential", "bad prelude", "reserved stop"} \cap Admitted = {},
           [Next]_vars
    PROVE  Working' /\ Sticks
<1>1. NoForms'
    BY NoFormsStep DEF Working
<1>2. CASE LockAges \/ UNCHANGED vars
    <2>1. UNCHANGED <<status, run, generation, engine, call, timer>>
        BY <1>2 DEF LockAges, vars
    <2>2. Prepared' /\ \A u \in Session : Reserving(u)' = Reserving(u)
        BY <2>1 DEF Working, Prepared, Reserving
    <2>3. QED
        BY <1>1, <2>1, <2>2, WorkingIdle
<1>3. QED
    BY <1>1, <1>2, WorkingCall, WorkingRun, WorkingSession, WorkingRestart DEF Next

(* "Stop must be terminal immediately": where a stop meets no message that *)
(* is being set up, no message holds a key and no prelude fails, a stopped *)
(* session works again only when a message comes in.                       *)
THEOREM StopIsTerminal ==
    ASSUME {"credential", "bad prelude", "reserved stop"} \cap Admitted = {}
    PROVE  Spec => StopSticks
<1>1. RunInv /\ Working /\ [Next]_vars => Working'
    BY WorkingStep
<1>2. RunInv /\ Working /\ [Next]_vars => Sticks
    BY WorkingStep
<1>3. Spec => []Working
    BY WorkingInit, <1>1, RunInvariant, PTL DEF Spec
<1>4. Spec => [][Sticks]_vars
    BY <1>2, <1>3, RunInvariant, PTL DEF Spec
<1>5. QED
    BY <1>4, PTL DEF StopSticks, Sticks

-----------------------------------------------------------------------------
(* What keeps session s from being stuck: its engine is that of a current  *)
(* run, running it has a handler or a run, waiting it has the record and   *)
(* the timer of its retry, and the record is there for the handler that    *)
(* found it waiting.                                                       *)
Runner(s) == Reserving(s) # {} \/ \E r \in Run : Current(r) /\ run[r].of = s
Opened(s) == {c \in Call : Target[c] = s /\ call[c].at \in {"reading", "preparing"}}
AliveAt(s) ==
    /\ engine[s] # None => engine[s] \in Run /\ Current(engine[s]) /\ run[engine[s]].of = s
    /\ status[s] = "running" => Runner(s)
    /\ status[s] = "waiting" => s \in recovery /\ (s \in timer \/ Opened(s) # {})
    /\ \A c \in Opened(s) : call[c].prev = "waiting" => s \in recovery
Alive == \A s \in Session : AliveAt(s)

(* A step for one session leaves the others as they are. *)
LEMMA AliveElsewhere ==
    ASSUME Alive, NEW s \in Session, AliveAt(s)',
           \A u \in Session : u # s =>
               /\ generation'[u] = generation[u] /\ engine'[u] = engine[u] /\ status'[u] = status[u]
               /\ (u \in recovery => u \in recovery') /\ (u \in timer => u \in timer'),
           \A q \in Run : run[q].at \in Active /\ run[q].of # s => run'[q] = run[q],
           \A c \in Call : Target[c] # s => call'[c] = call[c]
    PROVE  Alive'
<1> SUFFICES ASSUME NEW u \in Session, u # s
             PROVE  AliveAt(u)'
    BY DEF Alive
<1>1. AliveAt(u)
    BY DEF Alive
<1>2. \A q \in Run : Current(q) /\ run[q].of = u => Current(q)' /\ run'[q].of = u
    BY DEF Current, Active
<1>3. Reserving(u)' = Reserving(u) /\ Opened(u)' = Opened(u)
    BY DEF Reserving, Opened
<1>4. \A c \in Opened(u) : call'[c].prev = call[c].prev
    BY DEF Opened
<1>5. (engine[u] # None => engine[u] \in Run /\ Current(engine[u]) /\ run[engine[u]].of = u)'
    BY <1>1, <1>2 DEF AliveAt
<1>6. (status[u] = "running" => Runner(u))'
    BY <1>1, <1>2, <1>3 DEF AliveAt, Runner
<1>7. (status[u] = "waiting" => u \in recovery /\ (u \in timer \/ Opened(u) # {}))'
    BY <1>1, <1>3 DEF AliveAt
<1>8. (\A c \in Opened(u) : call[c].prev = "waiting" => u \in recovery)'
    BY <1>1, <1>3, <1>4 DEF AliveAt
<1>9. QED
    BY <1>5, <1>6, <1>7, <1>8 DEF AliveAt

(* The step of a handler *)
LEMMA AliveCall ==
    ASSUME RunInv, Working, NoForms', Alive, NEW c \in Call,
           Receive(c) \/ CallStep(c) \/ \E saved \in BOOLEAN : FormCloses(c, saved)
    PROVE  Alive'
<1> USE TypeParts DEF RunInv
<1> DEFINE s == Target[c]
<1>0. s \in Session /\ (\A u : FormsDropped(u) = call) /\ AliveAt(s)
      /\ timer \subseteq recovery
    BY TargetAssumption DEF Working, NoForms, FormsDropped, CallTypes, Alive, TypeOK
<1>1. ~(\E saved \in BOOLEAN : FormCloses(c, saved)) /\ ~CredentialFails(c)
      /\ \A r \in Run : ~ResumeAfterCredential(c, r)
    BY DEF Working, NoForms, FormCloses, CredentialFails, ResumeAfterCredential
<1>2. ~Pause(c)
    <2>1. ASSUME Pause(c)
          PROVE  call'[c].at = "form"
        BY <1>0, <2>1 DEF Pause, CallTypes
    <2>2. QED
        BY <2>1 DEF NoForms
<1>3. ASSUME UNCHANGED <<run, generation, engine, recovery>>, AliveAt(s)',
             \A u \in Session : u # s => status'[u] = status[u] /\ (u \in timer => u \in timer'),
             \A d \in Call : Target[d] # s => call'[d] = call[d]
      PROVE  Alive'
    BY <1>0, <1>3, AliveElsewhere
<1>4. ASSUME UNCHANGED <<run, generation, engine>>
      PROVE  \A r \in Run : Current(r)' = Current(r)
    BY <1>4 DEF Current
<1>5. CASE Receive(c)
    <2>1. /\ call' = [call EXCEPT ![c] = [at |-> "reading", prev |-> status[s]]]
          /\ status' = [status EXCEPT ![s] = "running"] /\ timer' = timer \ {s}
          /\ UNCHANGED <<run, generation, engine, recovery>> /\ call[c].at = "unsent"
        BY <1>5 DEF Receive
    <2>2. Runner(s)'
        <3>1. CASE status[s] = "running"
            <4>1. Reserving(s) \subseteq Reserving(s)'
                BY <2>1 DEF Reserving, CallTypes
            <4>2. QED
                BY <1>0, <1>4, <2>1, <3>1, <4>1 DEF AliveAt, Runner
        <3>2. CASE status[s] # "running"
            <4>1. c \in Reserving(s)'
                BY <2>1, <3>2 DEF Reserving, CallTypes
            <4>2. QED
                BY <4>1 DEF Runner
        <3>3. QED
            BY <3>1, <3>2
    <2>3. (\A d \in Opened(s) : call[d].prev = "waiting" => s \in recovery)'
        BY <1>0, <2>1 DEF AliveAt, Opened, CallTypes
    <2>4. (engine[s] # None => engine[s] \in Run /\ Current(engine[s]) /\ run[engine[s]].of = s)'
        BY <1>0, <1>4, <2>1 DEF AliveAt
    <2>5. AliveAt(s)'
        BY <1>0, <2>1, <2>2, <2>3, <2>4 DEF AliveAt
    <2>6. QED
        BY <1>3, <2>1, <2>5
<1>6. ASSUME call' = [call EXCEPT ![c].at = "gone"], UNCHANGED <<run, generation, engine, recovery>>,
             call[c].at \in {"reading", "preparing"}, NEW st \in Status,
             status' = [status EXCEPT ![s] = st], timer' = Rescheduled(s, st),
             \/ call[c].prev = "running" /\ st = status[s]
             \/ call[c].prev # "running" /\ st = call[c].prev
      PROVE  Alive'
    <2>1. Opened(s)' \subseteq Opened(s) /\ \A d \in Opened(s)' : call'[d].prev = call[d].prev
        BY <1>6 DEF Opened, CallTypes
    <2>2. st = "waiting" => s \in recovery
        BY <1>0, <1>6 DEF AliveAt, Opened
    <2>3. st = "running" => Runner(s)'
        <3>1. ASSUME call[c].prev = "running"
              PROVE  Reserving(s)' = Reserving(s)
            BY <1>6, <3>1 DEF Reserving, CallTypes, Working, NoForms
        <3>2. QED
            BY <1>0, <1>4, <1>6, <3>1 DEF AliveAt, Runner
    <2>4. (engine[s] # None => engine[s] \in Run /\ Current(engine[s]) /\ run[engine[s]].of = s)'
        BY <1>0, <1>4, <1>6 DEF AliveAt
    <2>5. AliveAt(s)'
        BY <1>0, <1>6, <2>1, <2>2, <2>3, <2>4 DEF AliveAt, Rescheduled
    <2>6. QED
        BY <1>3, <1>6, <2>5 DEF Rescheduled
<1>7. CASE SetupFails(c)
    BY <1>0, <1>6, <1>7 DEF SetupFails, Return, CallTypes
<1>8. CASE Refuse(c)
    <2>1. call[c].prev # "running"
        BY <1>8 DEF Refuse, Working, Prepared
    <2>2. QED
        BY <1>6, <1>8, <2>1 DEF Refuse, Return, CallTypes
<1>9. CASE Steer(c, TRUE) \/ Steer(c, FALSE) \/ Queue(c)
    <2>1. /\ call' = [call EXCEPT ![c].at = "gone"] /\ call[c].prev = "running"
          /\ call[c].at = "reading"
          /\ UNCHANGED <<run, generation, engine, recovery>> /\ timer' = Rescheduled(s, status[s])
        BY <1>0, <1>9 DEF Steer, Queue, Return
    <2>2. status' = [status EXCEPT ![s] = status[s]]
        BY <1>9 DEF Steer, Queue, Return
    <2>3. QED
        BY <1>0, <1>6, <2>1, <2>2
<1>10. CASE Prepare(c)
    <2>1. /\ call' = [call EXCEPT ![c].at = "preparing"] /\ call[c].at = "reading"
          /\ UNCHANGED <<status, run, generation, engine, recovery, timer>>
        BY <1>0, <1>10 DEF Prepare
    <2>2. /\ Reserving(s)' = Reserving(s) /\ Opened(s)' = Opened(s)
          /\ \A d \in Call : call'[d].prev = call[d].prev
        BY <2>1 DEF Reserving, Opened, CallTypes
    <2>3. AliveAt(s)'
        BY <1>0, <1>4, <2>1, <2>2 DEF AliveAt, Runner, Opened
    <2>4. QED
        BY <1>3, <2>1, <2>3
<1>11. ASSUME NEW r \in Run, Resume(c, r)
       PROVE  Alive'
    <2>1. /\ call[c].at = "preparing" /\ call' = [call EXCEPT ![c].at = "gone"]
          /\ status' = [status EXCEPT ![s] = "running"] /\ timer' = timer \ {s} /\ engine' = engine
          /\ recovery' = recovery \ {s} /\ run[r].at = "unused"
          /\ generation' = [generation EXCEPT ![s] = @ + 1]
          /\ run' = [run EXCEPT ![r] = [of |-> s, gen |-> generation[s] + 1, at |-> "prelude",
                                        by |-> "message", locked |-> TRUE]]
        BY <1>11 DEF Resume, Begin
    <2>2. /\ c \in Reserving(s) /\ Reserving(s) = {c}
          /\ \A q \in Run : Current(q) => run[q].of # s
        BY <1>0, <2>1 DEF Working, Prepared, Reserving, ReservedOnce, RunsRun
    <2>3. engine[s] = None
        BY <1>0, <2>2 DEF AliveAt
    <2>4. Current(r)' /\ run'[r].of = s
        BY <1>0, <2>1, <2>3 DEF Current, TypeOK
    <2>5. \A d \in Opened(s)' : call'[d].prev # "waiting"
        BY <2>1, <2>2 DEF Opened, Reserving, CallTypes
    <2>6. AliveAt(s)'
        BY <1>0, <2>1, <2>3, <2>4, <2>5 DEF AliveAt, Runner
    <2>7. \A q \in Run : run[q].at \in Active => run'[q] = run[q]
        BY <2>1 DEF Active, Attached
    <2>8. QED
        BY <1>0, <2>1, <2>6, <2>7, AliveElsewhere DEF TypeOK
<1>12. QED
    BY <1>1, <1>2, <1>5, <1>7, <1>8, <1>9, <1>10, <1>11 DEF CallStep

(* The step of a run, where no prelude fails *)
LEMMA AliveRun ==
    ASSUME RunInv, Working, "bad prelude" \notin Admitted, Alive, NEW r \in Run, RunStep(r)
    PROVE  Alive'
<1> USE TypeParts DEF RunInv
<1>0. call' = call
    BY DEF RunStep, PreludeQuits, PreludeUnavailable, PreludeRejects, Attach, AttachBusy,
           CheckpointSaved, WorkEnds, SettleSuperseded, SettleOutage, Settle, Continue
<1>1. run[r].at \in Active /\ run[r].of \in Session
    <2>1. run[r].at \in Active
        BY DEF RunStep, PreludeQuits, PreludeUnavailable, PreludeRejects, Attach, AttachBusy,
               CheckpointSaved, WorkEnds, SettleSuperseded, SettleOutage, Settle, Continue,
               Active, Attached
    <2>2. QED
        BY <2>1 DEF Generations
<1> SUFFICES ASSUME NEW s \in Session, s = run[r].of
             PROVE  Alive'
    BY <1>1
<1>2. /\ AliveAt(s) /\ s # None
      /\ engine \in [Session -> Run \cup {None}] /\ generation \in [Session -> Nat]
    BY SessionAssumption DEF Alive, TypeOK
<1>3. /\ Reserving(s)' = Reserving(s) /\ Opened(s)' = Opened(s)
      /\ \A c \in Call : call'[c].prev = call[c].prev
    BY <1>0 DEF Reserving, Opened
<1>4. ~PreludeUnavailable(r) /\ ~PreludeRejects(r)
    BY DEF PreludeUnavailable, PreludeRejects
<1>5. ASSUME \A q \in Run : run[q].at \in Active /\ run[q].of # s => run'[q] = run[q],
             UNCHANGED <<status, timer, recovery, generation>>,
             \A u \in Session : u # s => engine'[u] = engine[u],
             AliveAt(s)'
      PROVE  Alive'
    BY <1>0, <1>2, <1>5, AliveElsewhere
<1>6. CASE PreludeQuits(r) \/ SettleSuperseded(r)
    <2>1. /\ ~Current(r) /\ run' = Over(r)
          /\ UNCHANGED <<status, timer, recovery, generation, engine>>
        BY <1>6 DEF PreludeQuits, SettleSuperseded
    <2>2. \A q \in Run : q # r => run'[q] = run[q]
        BY <2>1 DEF Over
    <2>3. \A q \in Run : Current(q) => run'[q] = run[q] /\ Current(q)'
        BY <2>1, <2>2 DEF Current
    <2>4. AliveAt(s)'
        BY <1>2, <1>3, <2>1, <2>3 DEF AliveAt, Runner, Opened
    <2>5. QED
        BY <1>5, <2>1, <2>2, <2>4
<1>7. CASE CheckpointSaved(r) \/ WorkEnds(r)
    <2>1. PICK stage \in Attached :
            /\ run[r].at \in Attached /\ run' = [run EXCEPT ![r].at = stage]
            /\ UNCHANGED <<status, timer, recovery, generation, engine>>
        BY <1>7 DEF CheckpointSaved, WorkEnds, Attached
    <2>2. \A q \in Run : run'[q].of = run[q].of /\ run'[q].gen = run[q].gen
        BY <2>1 DEF RunTypes
    <2>3. \A q \in Run : Current(q) => Current(q)'
        <3>1. \A q \in Run : q # r => run'[q] = run[q]
            BY <2>1
        <3>2. run'[r].at = stage
            BY <2>1 DEF RunTypes
        <3>3. QED
            BY <2>1, <2>2, <3>1, <3>2 DEF Current, Attached
    <2>4. AliveAt(s)'
        BY <1>2, <1>3, <2>1, <2>2, <2>3 DEF AliveAt, Runner, Opened
    <2>5. QED
        BY <1>5, <2>1, <2>4
<1>8. CASE Attach(r)
    <2>1. /\ Current(r) /\ run' = [run EXCEPT ![r].at = "checkpoint"]
          /\ engine' = [engine EXCEPT ![s] = r]
          /\ UNCHANGED <<status, timer, recovery, generation>>
        BY <1>8 DEF Attach
    <2>2. run'[r] = [run[r] EXCEPT !.at = "checkpoint"] /\ engine'[s] = r
        BY <1>2, <2>1
    <2>3. Current(r)' /\ run'[r].of = s
        BY <2>1, <2>2 DEF Current, Attached, RunTypes
    <2>4. AliveAt(s)'
        BY <1>2, <1>3, <2>1, <2>2, <2>3 DEF AliveAt, Runner, Opened
    <2>5. QED
        BY <1>2, <1>5, <2>1, <2>4
<1>9. ASSUME NEW st \in {"completed", "blocked", "waiting"}, Finish(r, st), generation' = generation,
             \/ st # "waiting" /\ UNCHANGED <<recovery, timer>>
             \/ recovery' = recovery \cup {s} /\ timer' = timer \cup {s}
      PROVE  Alive'
    <2>1. /\ run' = Over(r) /\ status' = [status EXCEPT ![s] = st]
          /\ engine' = [engine EXCEPT ![s] = None]
        BY <1>9 DEF Finish
    <2>2. status'[s] = st /\ engine'[s] = None
        BY <1>2, <2>1
    <2>3. (\A c \in Opened(s) : call[c].prev = "waiting" => s \in recovery)'
        BY <1>2, <1>3, <1>9 DEF AliveAt, Opened
    <2>4. AliveAt(s)'
        BY <1>9, <2>2, <2>3 DEF AliveAt
    <2>5. \A q \in Run : q # r => run'[q] = run[q]
        BY <2>1 DEF Over
    <2>6. \A u \in Session : u # s => engine'[u] = engine[u] /\ status'[u] = status[u]
        BY <1>2, <2>1
    <2>7. QED
        BY <1>0, <1>2, <1>9, <2>4, <2>5, <2>6, AliveElsewhere
<1>10. CASE AttachBusy(r)
    BY <1>9, <1>10 DEF AttachBusy
<1>11. CASE SettleOutage(r)
    BY <1>9, <1>11 DEF SettleOutage
<1>12. ASSUME NEW st \in Status, Settle(r, st)
       PROVE  Alive'
    BY <1>9, <1>12 DEF Settle
<1>13. ASSUME NEW next \in Run, NEW by \in Origin, Continue(r, next, by)
       PROVE  Alive'
    <2>1. /\ Current(r) /\ run[next].at = "unused"
          /\ run' = [Over(r) EXCEPT ![next] = [of |-> s, gen |-> generation[s] + 1, at |-> "prelude",
                                               by |-> by, locked |-> run[r].locked]]
          /\ generation' = [generation EXCEPT ![s] = @ + 1] /\ engine' = [engine EXCEPT ![s] = None]
          /\ recovery' = recovery \ {s} /\ timer' = timer \ {s}
          /\ status' = [status EXCEPT ![s] = "running"]
        BY <1>13 DEF Continue, Begin
    <2>2. Reserving(s) = {}
        BY <2>1 DEF Working, RunsRun
    <2>3. /\ engine'[s] = None /\ generation'[s] = generation[s] + 1 /\ status'[s] = "running"
        BY <1>2, <2>1
    <2>4. Over(r) \in [Run -> RunTypes]
        BY OverType
    <2>5. Current(next)' /\ run'[next].of = s
        <3>1. /\ run'[next].of = s /\ run'[next].at = "prelude"
              /\ run'[next].gen = generation[s] + 1
            BY <2>1, <2>4
        <3>2. QED
            BY <2>3, <3>1 DEF Current
    <2>6. \A c \in Opened(s)' : call'[c].prev # "waiting"
        BY <1>3, <2>2 DEF Opened, Reserving
    <2>7. AliveAt(s)'
        BY <2>3, <2>5, <2>6 DEF AliveAt, Runner
    <2>8. \A q \in Run : run[q].at \in Active /\ run[q].of # s => run'[q] = run[q]
        BY <2>1 DEF Over, Active, Attached
    <2>9. \A u \in Session : u # s =>
               /\ generation'[u] = generation[u] /\ engine'[u] = engine[u] /\ status'[u] = status[u]
               /\ (u \in recovery => u \in recovery') /\ (u \in timer => u \in timer')
        BY <1>2, <2>1
    <2>10. QED
        BY <1>0, <1>2, <2>7, <2>8, <2>9, AliveElsewhere
<1>14. QED
    BY <1>4, <1>6, <1>7, <1>8, <1>10, <1>11, <1>12, <1>13 DEF RunStep

(* A stop, where it meets no handler, and the retry of a waiting session *)
LEMMA AliveSession ==
    ASSUME RunInv, Working, "reserved stop" \notin Admitted, Alive, NEW s \in Session,
           Stop(s) \/ RetryUnable(s) \/ \E r \in Run : TimerFires(s, r)
    PROVE  Alive'
<1> USE TypeParts DEF RunInv
<1>1. call' = call
    BY DEF Stop, RetryUnable, TimerFires, FormsDropped, Working, NoForms, CallTypes
<1>2. /\ AliveAt(s) /\ s # None
      /\ engine \in [Session -> Run \cup {None}] /\ generation \in [Session -> Nat]
    BY SessionAssumption DEF Alive, TypeOK
<1>3. /\ Reserving(s)' = Reserving(s) /\ Opened(s)' = Opened(s)
      /\ \A c \in Call : call'[c].prev = call[c].prev
    BY <1>1 DEF Reserving, Opened
<1>4. /\ Reserving(s) = {}
      /\ ~Stop(s) => status[s] = "waiting" /\ \A q \in Run : Current(q) => run[q].of # s
    BY DEF Stop, RetryUnable, TimerFires, Working, Reserved, RunsRun
<1>5. \A c \in Opened(s)' : call'[c].prev # "waiting"
    BY <1>3, <1>4 DEF Opened, Reserving
<1>6. CASE Stop(s)
    <2>1. /\ status' = [status EXCEPT ![s] = "aborted"] /\ run' = run
          /\ generation' = [generation EXCEPT ![s] = @ + 1] /\ engine' = [engine EXCEPT ![s] = None]
          /\ recovery' = recovery \ {s} /\ timer' = timer \ {s}
        BY <1>6 DEF Stop
    <2>2. engine'[s] = None /\ status'[s] = "aborted"
        BY <1>2, <2>1
    <2>3. AliveAt(s)'
        BY <1>5, <2>2 DEF AliveAt
    <2>4. \A u \in Session : u # s =>
               /\ generation'[u] = generation[u] /\ engine'[u] = engine[u] /\ status'[u] = status[u]
               /\ (u \in recovery => u \in recovery') /\ (u \in timer => u \in timer')
        BY <1>2, <2>1
    <2>5. QED
        BY <1>1, <2>1, <2>3, <2>4, AliveElsewhere
<1>7. CASE RetryUnable(s)
    <2>1. /\ status' = [status EXCEPT ![s] = "blocked"] /\ UNCHANGED <<run, generation, engine>>
          /\ recovery' = recovery \ {s} /\ timer' = timer \ {s} /\ ~Stop(s)
        BY <1>7 DEF RetryUnable, Stop
    <2>2. engine'[s] = None /\ status'[s] = "blocked"
        BY <1>2, <1>4, <2>1 DEF AliveAt
    <2>3. AliveAt(s)'
        BY <1>5, <2>2 DEF AliveAt
    <2>4. QED
        BY <1>1, <2>1, <2>3, AliveElsewhere
<1>8. ASSUME NEW r \in Run, TimerFires(s, r)
      PROVE  Alive'
    <2>1. /\ status' = [status EXCEPT ![s] = "running"] /\ engine' = engine
          /\ run[r].at = "unused" /\ generation' = [generation EXCEPT ![s] = @ + 1]
          /\ recovery' = recovery \ {s} /\ timer' = timer \ {s}
          /\ run' = [run EXCEPT ![r] = [of |-> s, gen |-> generation[s] + 1, at |-> "prelude",
                                        by |-> "retry", locked |-> FALSE]]
        BY <1>8 DEF TimerFires, Begin
    <2>2. status[s] = "waiting" /\ engine[s] = None
        BY <1>2, <1>8 DEF TimerFires, AliveAt, Working, RunsRun
    <2>3. Current(r)' /\ run'[r].of = s
        BY <1>2, <2>1, <2>2 DEF Current
    <2>4. AliveAt(s)'
        BY <1>5, <2>1, <2>2, <2>3 DEF AliveAt, Runner
    <2>5. \A q \in Run : run[q].at \in Active => run'[q] = run[q]
        BY <2>1 DEF Active, Attached
    <2>6. \A u \in Session : u # s =>
               /\ generation'[u] = generation[u] /\ engine'[u] = engine[u] /\ status'[u] = status[u]
               /\ (u \in recovery => u \in recovery') /\ (u \in timer => u \in timer')
        BY <1>2, <2>1
    <2>7. QED
        BY <1>1, <2>4, <2>5, <2>6, AliveElsewhere
<1>9. QED
    BY <1>6, <1>7, <1>8

LEMMA AliveStep ==
    ASSUME RunInv, Working, Alive, {"credential", "bad prelude", "reserved stop"} \cap Admitted = {},
           [Next]_vars
    PROVE  Alive'
<1>1. NoForms'
    BY NoFormsStep DEF Working
<1>2. CASE LockAges \/ UNCHANGED vars
    <2>1. UNCHANGED <<status, run, generation, engine, call, timer, recovery>>
        BY <1>2 DEF LockAges, vars
    <2>2. \A u \in Session : Reserving(u)' = Reserving(u) /\ Opened(u)' = Opened(u)
        BY <2>1 DEF Reserving, Opened
    <2>3. \A r \in Run : Current(r)' = Current(r)
        BY <2>1 DEF Current
    <2>4. ASSUME NEW u \in Session
          PROVE  AliveAt(u)'
        <3>1. AliveAt(u)
            BY DEF Alive
        <3>2. QED
            BY <2>1, <2>2, <2>3, <3>1 DEF AliveAt, Runner
    <2>5. QED
        BY <2>4 DEF Alive
<1>3. CASE Restart
    <2>1. /\ \A u \in Session : engine'[u] = None /\ status'[u] # "running"
          /\ recovery' = {u \in Session : status'[u] = "waiting"} /\ timer' = recovery'
        BY <1>3 DEF Restart
    <2>2. \A u \in Session : Opened(u)' = {}
        BY <1>3, TypeParts DEF Restart, Opened, RunInv, CallTypes, Working, NoForms
    <2>3. QED
        BY <2>1, <2>2 DEF Alive, AliveAt
<1>4. QED
    BY <1>1, <1>2, <1>3, AliveCall, AliveRun, AliveSession DEF Next

LEMMA AliveInvariant ==
    ASSUME {"credential", "bad prelude", "reserved stop"} \cap Admitted = {}
    PROVE  Spec => []Alive
<1>1. Init => Alive
    <2>1. ASSUME Init, NEW s \in Session
          PROVE  AliveAt(s)
        <3>1. engine[s] = None /\ status[s] = "blocked"
            BY <2>1 DEF Init
        <3>2. Opened(s) = {}
            BY <2>1 DEF Init, Opened
        <3>3. QED
            BY <3>1, <3>2 DEF AliveAt
    <2>2. QED
        BY <2>1 DEF Alive
<1>2. RunInv /\ Working /\ [Next]_vars => Working'
    BY WorkingStep
<1>3. RunInv /\ Working /\ Alive /\ [Next]_vars => Alive'
    BY AliveStep
<1>4. QED
    BY WorkingInit, <1>1, <1>2, <1>3, RunInvariant, PTL DEF Spec

(* Where a stop meets no message that is being set up, no message holds a  *)
(* key and no prelude fails, no session is stuck as running: a handler or  *)
(* a current run is behind it (executeRun()).                              *)
THEOREM NeverStuck ==
    ASSUME {"credential", "bad prelude", "reserved stop"} \cap Admitted = {}
    PROVE  Spec => []RunningHasRunner
<1>1. Alive => RunningHasRunner
    BY DEF Alive, AliveAt, Runner, RunningHasRunner
<1>2. QED
    BY <1>1, AliveInvariant, PTL

(* There, a session that waits for its model will retry, across crashes    *)
(* too (scheduleModelRecovery(), the finally block of a handler).          *)
THEOREM RetryIsSet ==
    ASSUME {"credential", "bad prelude", "reserved stop"} \cap Admitted = {}
    PROVE  Spec => []WaitingHasTimer
<1>1. Alive => WaitingHasTimer
    BY DEF Alive, AliveAt, Opened, WaitingHasTimer
<1>2. QED
    BY <1>1, AliveInvariant, PTL
=============================================================================
