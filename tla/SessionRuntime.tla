--------------------------- MODULE SessionRuntime ---------------------------
(***************************************************************************)
(* One coding task that a teammate delegated: the session of the runtime,  *)
(* its engine, the requests the engine stops for, and the cards by which   *)
(* the delegating conversation shows them to a person.                     *)
(*                                                                         *)
(* Whoever is first settles a request: the person on its card or in the    *)
(* coding chat, the chief of staff, its time limit, or a release when the  *)
(* run is stopped.  Everyone else must find it gone.  Settling publishes   *)
(* an event, and its listeners run before the settling call returns.       *)
(*                                                                         *)
(* The engine waits for each request it made, so its run ends with none.   *)
(***************************************************************************)
EXTENDS Naturals

CONSTANTS
    Request,        \* bound: the requests the engine may make
    Kind,           \* the kind of each request
    None            \* no request

Kinds == {"approval", "plan_review", "questions"}

ASSUME RequestAssumption == Kind \in [Request -> Kinds] /\ None \notin Request

VARIABLES
    chief,      \* does the session answer to a chief of staff?
    gate,       \* "unasked", "pending", or how each request was settled
    by,         \* who settled it, by the reason its event gives
    ask,        \* the chief's consultation on each request
    claim,      \* what chief_decided says of each request
    slot,       \* pendingApproval, pendingPlanReview, pendingQuestions
    card,       \* the card of each request
    routed,     \* the requests with an entry in both maps "gates" of the delegation
    phase,      \* of the delegation's call of run()
    engine,     \* currentEngine
    stopped,    \* has that engine been told to stop?
    cancelled,  \* was the delegation cancelled, or its time limit reached?
    aborted,    \* did a person stop the task where it is listed?
    exhausted,  \* account.exhausted()
    budgetStop,
    status      \* of the session

gates == <<gate, by, slot, card, routed>>
consultation == <<chief, ask, claim>>
work == <<phase, engine, stopped, cancelled, aborted, exhausted, budgetStop, status>>
vars == <<gates, consultation, work>>

Outcome == {"approved", "denied", "changes", "answered", "defaults"}
Live == {"thinking", "acting", "ending"}

TypeOK ==
    /\ chief \in BOOLEAN
    /\ gate \in [Request -> {"unasked", "pending"} \cup Outcome]
    /\ by \in [Request -> {"nobody", "person", "chief", "setting", "timeout", "release"}]
    /\ ask \in [Request -> {"no", "asked", "over"}]
    /\ claim \in [Request -> {"none", "decided", "escalated"}]
    /\ slot \in [Kinds -> Request \cup {None}]
    /\ card \in [Request -> {"none", "open", "approved", "denied", "answered", "dismissed"}]
    /\ routed \in SUBSET Request
    /\ phase \in {"saving", "executing", "sealing", "settled"}
    /\ engine \in {"none"} \cup Live
    /\ stopped \in BOOLEAN /\ cancelled \in BOOLEAN /\ aborted \in BOOLEAN
    /\ exhausted \in BOOLEAN /\ budgetStop \in BOOLEAN
    /\ status \in {"running", "completed", "blocked", "failed"}

(* The session exists, and its run waits for a checkpoint of the workspace. *)
Init ==
    /\ chief \in BOOLEAN
    /\ gate = [r \in Request |-> "unasked"]
    /\ by = [r \in Request |-> "nobody"]
    /\ ask = [r \in Request |-> "no"]
    /\ claim = [r \in Request |-> "none"]
    /\ slot = [k \in Kinds |-> None]
    /\ card = [r \in Request |-> "none"]
    /\ routed = {}
    /\ phase = "saving" /\ engine = "none" /\ status = "running"
    /\ stopped = FALSE /\ cancelled = FALSE /\ aborted = FALSE /\ budgetStop = FALSE
    /\ exhausted \in BOOLEAN

-----------------------------------------------------------------------------
Pending == {r \in Request : gate[r] = "pending"}

(* What a denial by the system means to the engine, by kind of request. *)
Closed(r) == IF Kind[r] = "questions" THEN "defaults" ELSE "denied"

(* What the card says of an outcome. *)
Shown(o) ==
    CASE o = "approved" -> "approved"
      [] o \in {"denied", "changes"} -> "denied"
      [] OTHER -> "answered"

(* MUTANT of Settle: the listener closes no cards. *)
SettleUnheard(R, o, who) ==
    /\ gate' = [r \in Request |-> IF r \in R THEN o[r] ELSE gate[r]]
    /\ by' = [r \in Request |-> IF r \in R THEN who ELSE by[r]]
    /\ slot' = [k \in Kinds |-> IF slot[k] \in R THEN None ELSE slot[k]]
    /\ UNCHANGED <<card, routed>>

(* The requests R are settled as o says; the event of each one closes its  *)
(* card, closeSettledCard.                                                 *)
Settle(R, o, who) ==
    /\ gate' = [r \in Request |-> IF r \in R THEN o[r] ELSE gate[r]]
    /\ by' = [r \in Request |-> IF r \in R THEN who ELSE by[r]]
    /\ slot' = [k \in Kinds |-> IF slot[k] \in R THEN None ELSE slot[k]]
    /\ card' = [r \in Request |-> IF r \in R \cap routed THEN Shown(o[r]) ELSE card[r]]
    /\ routed' = routed \ R

ReleaseGates == Settle(Pending, [r \in Request |-> Closed(r)], "release")

(* surface: mint a card and map it to the gate. *)
Surface(r) ==
    /\ card' = [card EXCEPT ![r] = "open"]
    /\ routed' = routed \cup {r}

StopEngine == stopped' = (stopped \/ engine # "none")

-----------------------------------------------------------------------------
(* The checkpoint is saved, or could not be: the session executes, unless  *)
(* its allocation is spent.                                                *)
Execute ==
    /\ phase = "saving" /\ ~aborted
    /\ IF exhausted
       THEN phase' = "sealing" /\ status' = "blocked" /\ UNCHANGED engine
       ELSE phase' = "executing" /\ engine' = "thinking" /\ UNCHANGED status
    /\ UNCHANGED <<gates, consultation, stopped, cancelled, aborted, exhausted, budgetStop>>

(* "Coding task stopped before execution." *)
RefuseToExecute ==
    /\ phase = "saving" /\ aborted
    /\ phase' = "sealing"
    /\ UNCHANGED <<gates, consultation, engine, stopped, cancelled, aborted, exhausted, budgetStop, status>>

(* MUTANT of Reply: the refusal of charge is not looked at. *)
ReplyUncharged ==
    /\ engine = "thinking"
    /\ engine' = IF stopped THEN "ending" ELSE "acting"
    /\ UNCHANGED <<gates, consultation, phase, stopped, cancelled, aborted, exhausted, budgetStop, status>>

(* A model call returns and is charged.  A spent allocation stops the run, *)
(* and the engine looks at "aborted" before it acts.                       *)
Reply ==
    /\ engine = "thinking"
    /\ engine' = IF stopped \/ exhausted THEN "ending" ELSE "acting"
    /\ IF exhausted /\ ~budgetStop
       THEN budgetStop' = TRUE /\ status' = "blocked" /\ stopped' = TRUE /\ ReleaseGates
       ELSE UNCHANGED <<budgetStop, status, stopped, gates>>
    /\ UNCHANGED <<consultation, phase, cancelled, aborted, exhausted>>

(* The allocation is spent, by this session or by another one on the same  *)
(* pool, by the chief's adviser or by a specialist.                        *)
Spend ==
    /\ phase # "settled" /\ ~exhausted
    /\ exhausted' = TRUE
    /\ UNCHANGED <<gates, consultation, phase, engine, stopped, cancelled, aborted, budgetStop, status>>

(* The calls of a parallel action may each wait for an approval; all other *)
(* requests are made one at a time.  "aborted" is not looked at.           *)
MayAsk(r) ==
    /\ engine = "acting" /\ gate[r] = "unasked"
    /\ \A p \in Pending : Kind[p] = "approval" /\ Kind[r] = "approval"

(* The owner's setting for full access approves at once. *)
AskAllowed(r) ==
    /\ MayAsk(r) /\ Kind[r] # "questions"
    /\ gate' = [gate EXCEPT ![r] = "approved"]
    /\ by' = [by EXCEPT ![r] = "setting"]
    /\ slot' = [slot EXCEPT ![Kind[r]] = None]
    /\ UNCHANGED <<card, routed, consultation, work>>

AskChief(r) ==
    /\ MayAsk(r) /\ chief
    /\ gate' = [gate EXCEPT ![r] = "pending"]
    /\ slot' = [slot EXCEPT ![Kind[r]] = r]
    /\ ask' = [ask EXCEPT ![r] = "asked"]
    /\ UNCHANGED <<by, card, routed, chief, claim, work>>

AskPerson(r) ==
    /\ MayAsk(r) /\ ~chief
    /\ gate' = [gate EXCEPT ![r] = "pending"]
    /\ slot' = [slot EXCEPT ![Kind[r]] = r]
    /\ Surface(r)
    /\ UNCHANGED <<by, consultation, work>>

(* What each action of the chief makes of a request of each kind. *)
Effect(k, d) ==
    CASE k # "questions" /\ d = "approve" -> "approved"
      [] k # "questions" /\ d = "reject" -> "denied"
      [] k = "plan_review" /\ d = "request_changes" -> "changes"
      [] k = "questions" /\ d = "answer" -> "answered"
      [] OTHER -> "escalated"

(* MUTANT of ChiefReplies: the reply is not checked against the gate. *)
ChiefRepliesLate(r, d) ==
    LET e == Effect(Kind[r], d)
    IN  /\ ask[r] = "asked"
        /\ ask' = [ask EXCEPT ![r] = "over"]
        /\ IF e = "escalated"
           THEN /\ claim' = [claim EXCEPT ![r] = "escalated"]
                /\ Surface(r)
                /\ UNCHANGED <<gate, by, slot>>
           ELSE /\ claim' = [claim EXCEPT ![r] = "decided"]
                /\ Settle({r} \cap Pending, [q \in Request |-> e], "chief")
        /\ UNCHANGED <<chief, work>>

(* The chief's reply d, or its failure.  A request that is gone is left    *)
(* alone; one that the reply does not settle is put to the person.         *)
ChiefReplies(r, d) ==
    LET e == Effect(Kind[r], d)
    IN  /\ ask[r] = "asked"
        /\ ask' = [ask EXCEPT ![r] = "over"]
        /\ IF r \notin Pending
           THEN UNCHANGED <<gates, claim>>
           ELSE IF e = "escalated"
                THEN /\ claim' = [claim EXCEPT ![r] = "escalated"]
                     /\ Surface(r)
                     /\ UNCHANGED <<gate, by, slot>>
                ELSE /\ claim' = [claim EXCEPT ![r] = "decided"]
                     /\ Settle({r}, [q \in Request |-> e], "chief")
        /\ UNCHANGED <<chief, work>>

(* The answers a person can give to a request of kind k. *)
Answers(k) ==
    CASE k = "approval" -> {"approved", "denied"}
      [] k = "plan_review" -> {"approved", "denied", "changes"}
      [] k = "questions" -> {"answered"}

(* resolve: the card is unmapped, its gate is settled if it still waits,   *)
(* and the card is given the answer.                                       *)
AnswerCard(r, o) ==
    /\ card[r] = "open" /\ r \in routed /\ o \in Answers(Kind[r])
    /\ IF r \in Pending
       THEN Settle({r}, [q \in Request |-> o], "person")
       ELSE /\ card' = [card EXCEPT ![r] = Shown(o)]
            /\ routed' = routed \ {r}
            /\ UNCHANGED <<gate, by, slot>>
    /\ UNCHANGED <<consultation, work>>

(* The coding chat answers what the mirror of the session's slot shows; a  *)
(* task that was stopped there has no runtime any more.                    *)
AnswerInChat(r, o) ==
    /\ slot[Kind[r]] = r /\ ~aborted /\ o \in Answers(Kind[r])
    /\ Settle({r}, [q \in Request |-> o], "person")
    /\ UNCHANGED <<consultation, work>>

(* MUTANT of TimeOut: the time limit publishes no event. *)
TimeOutQuietly(r) ==
    /\ r \in Pending
    /\ SettleUnheard({r}, [q \in Request |-> Closed(q)], "timeout")
    /\ UNCHANGED <<consultation, work>>

(* gateTimeoutMs *)
TimeOut(r) ==
    /\ r \in Pending
    /\ Settle({r}, [q \in Request |-> Closed(q)], "timeout")
    /\ UNCHANGED <<consultation, work>>

(* The conversation is stopped, or the delegation's time limit passes: the *)
(* runtime's cancel().                                                     *)
Cancel ==
    /\ phase # "settled"
    /\ cancelled' = TRUE
    /\ ReleaseGates
    /\ StopEngine
    /\ UNCHANGED <<consultation, phase, engine, aborted, exhausted, budgetStop, status>>

(* POST /api/runs/<runId>/stop *)
StopTask ==
    /\ phase # "settled" /\ status = "running" /\ ~aborted
    /\ aborted' = TRUE
    /\ ReleaseGates
    /\ StopEngine
    /\ UNCHANGED <<consultation, phase, engine, cancelled, exhausted, budgetStop, status>>

(* The action is done: back to the head of the engine's loop, or it was    *)
(* the last one.                                                           *)
Proceed ==
    /\ engine = "acting" /\ Pending = {}
    /\ engine' \in IF stopped THEN {"ending"} ELSE {"thinking", "ending"}
    /\ UNCHANGED <<gates, consultation, phase, stopped, cancelled, aborted, exhausted, budgetStop, status>>

(* engine.run() returns its report. *)
Report ==
    /\ engine = "ending"
    /\ engine' = "none" /\ phase' = "sealing"
    /\ status' \in IF budgetStop THEN {"blocked"} ELSE {"completed", "blocked", "failed"}
    /\ UNCHANGED <<gates, consultation, stopped, cancelled, aborted, exhausted, budgetStop>>

(* engine.run() throws; a stopped engine does not. *)
Throw ==
    /\ engine = "thinking" /\ ~stopped
    /\ engine' = "none" /\ phase' = "sealing" /\ status' = "failed"
    /\ UNCHANGED <<gates, consultation, stopped, cancelled, aborted, exhausted, budgetStop>>

(* The checkpoint is sealed and the delegation's call of run() returns:    *)
(* its finally block closes the cards that are left.                       *)
Return ==
    /\ phase = "sealing"
    /\ phase' = "settled"
    /\ card' = [r \in Request |-> IF r \in routed THEN "dismissed" ELSE card[r]]
    /\ routed' = {}
    /\ UNCHANGED <<gate, by, slot, consultation, engine, stopped, cancelled, aborted, exhausted, budgetStop, status>>

Replies == {"approve", "reject", "request_changes", "answer", "escalate"}

Next ==
    \/ Execute \/ RefuseToExecute \/ Reply \/ Spend \/ Cancel \/ StopTask
    \/ Proceed \/ Report \/ Throw \/ Return
    \/ \E r \in Request :
          \/ AskAllowed(r) \/ AskChief(r) \/ AskPerson(r) \/ TimeOut(r)
          \/ \E d \in Replies : ChiefReplies(r, d)
          \/ \E o \in Outcome : AnswerCard(r, o) \/ AnswerInChat(r, o)

Spec == Init /\ [][Next]_vars

(* Timers fire, awaits return and a model call returns or is aborted.  The *)
(* chief and the person need never answer.                                 *)
FairSpec ==
    /\ Spec
    /\ WF_vars(Execute \/ RefuseToExecute) /\ WF_vars(Reply) /\ WF_vars(Proceed)
    /\ WF_vars(Report) /\ WF_vars(Return)
    /\ \A r \in Request : WF_vars(TimeOut(r))

-----------------------------------------------------------------------------
(* A request is with the chief, or on an open card that answers it; and an *)
(* open card answers one.  Nobody holds buttons that resolve nothing, and  *)
(* no request waits where nobody is asked, or outlives its run.  The code  *)
(* is offerToChief, closeSettledCard and the order of resolve.             *)
CardsAreLive ==
    /\ \A r \in Request : card[r] = "open" <=> r \in routed
    /\ routed = {r \in Pending : ask[r] # "asked"}
    /\ Pending # {} => engine = "acting"

(* A closed card tells what became of the request, whoever settled it,     *)
(* whichever listener ran first: a request on two surfaces has one answer. *)
CardTellsOutcome ==
    \A r \in Request : card[r] \notin {"none", "open"} => gate[r] \in Outcome /\ card[r] = Shown(gate[r])

(* chief_decided says "decided" of exactly the requests that the chief     *)
(* settled: its late reply does not claim one that a person, a stop or a   *)
(* time limit settled while it thought, as offerToChief promises.          *)
ChiefClaimsItsOwn ==
    \A r \in Request :
        /\ claim[r] = "decided" <=> by[r] = "chief"
        /\ ask[r] # "over" => claim[r] = "none"

(* A run that is stopped, or whose allocation is spent, ends, though the   *)
(* engine may open further requests before it notices and though neither   *)
(* the chief nor a person ever answers.                                    *)
StoppedRunsEnd == (stopped \/ exhausted) /\ engine # "none" ~> phase = "settled"

-----------------------------------------------------------------------------
(* "a stopped run can never leave a gate hanging until its timeout",       *)
(* src/coding/session-runtime.ts:503.  The code: an action in progress     *)
(* opens a request after the stop.                                         *)
StopLeavesNoGate == stopped => Pending = {}

(* "The authoritative pending-gate state a surface reads from getState()", *)
(* src/coding/session-runtime.ts:259.  The code: of two approvals of one   *)
(* parallel action the slot holds the later, then none.                    *)
SlotShowsPending == \A r \in Pending : slot[Kind[r]] # None

(* "Cancel every delegation started from this conversation                 *)
(* (stop/teardown)", src/cowork/delegation.ts:509.  The code: a cancel     *)
(* that arrives while the checkpoint is saved finds no engine to stop, and *)
(* leaves no trace for execute() to see.                                   *)
CancelledRunsEnd == cancelled ~> phase = "settled"

(* A question that timed out or was released is closed as "Answered in     *)
(* coding chat.", src/cowork/delegation.ts:543.                            *)
AnsweredMeansAnswered == \A r \in Request : card[r] = "answered" => gate[r] = "answered"
=============================================================================
