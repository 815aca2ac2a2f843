---------------------------- MODULE CoworkTurns ----------------------------
(***************************************************************************)
(* Teammates working their turns, each with at most one helper (a          *)
(* sub-agent), over the shared browser lease.                              *)
(*                                                                         *)
(* A tool scope takes the lease at its first browse call and keeps it      *)
(* until its tool loop ends.  The helper of a turn has a scope of its own, *)
(* so it takes the lease by itself; the turn waits for the helper's report.*)
(* Both calls wait on the abort signal of the TURN: acquireHostBrowser is  *)
(* bound to it once, by the server.  A helper also has a controller of its *)
(* own, aborted with the turn or by its time limit.                        *)
(***************************************************************************)
EXTENDS BrowserLease

CONSTANT Agents

(* The calls of acquire() are those of the turns and of their helpers. *)
Turn(a) == <<a, "turn">>
Helper(a) == <<a, "helper">>
Actor == Agents \X {"turn", "helper"}

ASSUME TurnCalls == Calls = Actor

VARIABLES
    turn,       \* the tool loop of each teammate's turn
    helper,     \* the tool loop of its helper
    expired     \* the turns whose helper has reached its time limit

leaseVars == vars
turnsVars == <<leaseVars, turn, helper, expired>>

TurnsTypeOK ==
    /\ TypeOK
    /\ turn \in [Agents -> {"idle", "working", "delegating", "ended"}]
    /\ helper \in [Agents -> {"none", "working", "completed", "terminated"}]
    /\ expired \in SUBSET Agents

TurnsInit ==
    /\ Init
    /\ turn = [a \in Agents |-> "idle"]
    /\ helper = [a \in Agents |-> "none"]
    /\ expired = {}

-----------------------------------------------------------------------------
Running(x) ==
    IF x[2] = "turn" THEN turn[x[1]] = "working" ELSE helper[x[1]] = "working"

Stopped(a) == Turn(a) \in aborted
HelperAborted(a) == Stopped(a) \/ a \in expired

(* The tool loop awaits acquire(). *)
Blocked(x) == pc[x] \in Waiting

(* The finally block of the tool loop: scope?.releaseHostBrowser?.() *)
ReleaseScope(x) == IF pc[x] = "holding" THEN Release(x) ELSE UNCHANGED leaseVars

StartTurn(a) ==
    /\ turn[a] = "idle"
    /\ turn' = [turn EXCEPT ![a] = "working"]
    /\ UNCHANGED <<leaseVars, helper, expired>>

(* The first browse call of a scope; later ones find releaseHostBrowser. *)
(* The loop checks the signals of its actor before it calls a tool.      *)
Browse(x) ==
    /\ Running(x)
    /\ ~ IF x[2] = "turn" THEN Stopped(x[1]) ELSE HelperAborted(x[1])
    /\ Acquire(x)
    /\ UNCHANGED <<turn, helper, expired>>

(* The event loop settles a waiting acquire(). *)
Answer(x) ==
    /\ Wake(x) \/ Enter(x) \/ Cancel(x)
    /\ UNCHANGED <<turn, helper, expired>>

(* spawn_sub_agent: the turn waits for the report of its helper. *)
Spawn(a) ==
    /\ turn[a] = "working"
    /\ ~Blocked(Turn(a))
    /\ ~Stopped(a)
    /\ helper[a] = "none"
    /\ turn' = [turn EXCEPT ![a] = "delegating"]
    /\ helper' = [helper EXCEPT ![a] = "working"]
    /\ UNCHANGED <<leaseVars, expired>>

(* The time limit of the helper aborts the helper's own controller. *)
TimeLimit(a) ==
    /\ helper[a] = "working"
    /\ a \notin expired
    /\ expired' = expired \cup {a}
    /\ UNCHANGED <<leaseVars, turn, helper>>

(* Slip: a helper ended by its time limit leaves without its finally block. *)
HelperReturnsHolding(a) ==
    /\ helper[a] = "working"
    /\ ~Blocked(Helper(a))
    /\ IF a \in expired THEN UNCHANGED leaseVars ELSE ReleaseScope(Helper(a))
    /\ helper' = [helper EXCEPT ![a] = IF HelperAborted(a) THEN "terminated" ELSE "completed"]
    /\ turn' = [turn EXCEPT ![a] = "working"]
    /\ UNCHANGED expired

(* The helper's tool loop ends, reported or aborted, and the turn goes on. *)
HelperReturns(a) ==
    /\ helper[a] = "working"
    /\ ~Blocked(Helper(a))
    /\ ReleaseScope(Helper(a))
    /\ helper' = [helper EXCEPT ![a] = IF HelperAborted(a) THEN "terminated" ELSE "completed"]
    /\ turn' = [turn EXCEPT ![a] = "working"]
    /\ UNCHANGED expired

(* Slip: a stopped turn leaves without its finally block. *)
EndTurnHolding(a) ==
    /\ turn[a] = "working"
    /\ ~Blocked(Turn(a))
    /\ IF Stopped(a) THEN UNCHANGED leaseVars ELSE ReleaseScope(Turn(a))
    /\ turn' = [turn EXCEPT ![a] = "ended"]
    /\ UNCHANGED <<helper, expired>>

EndTurn(a) ==
    /\ turn[a] = "working"
    /\ ~Blocked(Turn(a))
    /\ ReleaseScope(Turn(a))
    /\ turn' = [turn EXCEPT ![a] = "ended"]
    /\ UNCHANGED <<helper, expired>>

(* Slip: the helper's wait for the browser is not bound to the turn. *)
StopTurnOnly(a) ==
    /\ turn[a] \in {"working", "delegating"}
    /\ ~Stopped(a)
    /\ Abort({Turn(a)})
    /\ UNCHANGED <<turn, helper, expired>>

(* The person stops the turn: the one signal both lease calls listen to. *)
Stop(a) ==
    /\ turn[a] \in {"working", "delegating"}
    /\ ~Stopped(a)
    /\ Abort({Turn(a), Helper(a)})
    /\ UNCHANGED <<turn, helper, expired>>

TurnsNext ==
    \/ \E a \in Agents :
        StartTurn(a) \/ Spawn(a) \/ TimeLimit(a) \/ HelperReturns(a) \/ EndTurn(a) \/ Stop(a)
    \/ \E x \in Actor : Browse(x) \/ Answer(x)

TurnsSpec == TurnsInit /\ [][TurnsNext]_turnsVars

(* A tool loop that is not waiting for the lease comes to its end (rounds  *)
(* are limited and model calls time out), and promise reactions run.       *)
TurnsFairSpec ==
    /\ TurnsSpec
    /\ \A a \in Agents : WF_turnsVars(HelperReturns(a)) /\ WF_turnsVars(EndTurn(a))
    /\ \A x \in Actor : WF_turnsVars(Answer(x))

-----------------------------------------------------------------------------
(* "Hold the shared desktop browser until a teammate finishes its tool     *)
(* loop", and not longer: a loop that ended holds nothing and its place in *)
(* the chain is resolved, so nobody behind it waits for ever.              *)
NothingHeldAfterLoop ==
    \A x \in Actor :
        (IF x[2] = "turn" THEN turn[x[1]] = "ended" ELSE helper[x[1]] \in {"completed", "terminated"})
            => x \notin tail \ resolved

(* The loop of y gets on by itself: its answer is due, or it is at work, or *)
(* it awaits a helper that does not wait.                                   *)
GetsOn(y) ==
    \/ Blocked(y) /\ (y \in aborted \/ previous[y] \subseteq resolved)
    \/ ~Blocked(y) /\ Running(y)
    \/ \E a \in Agents : y = Turn(a) /\ turn[a] = "delegating" /\ ~Blocked(Helper(a))

(* Where loops may wait for each other for ever: only behind a turn nobody *)
(* stopped that has the browser while its own helper waits for it (tools.ts *)
(* awaits the helper's report with the lease held).  Otherwise, while a    *)
(* loop waits, some loop in the chain gets on, whatever was stopped,       *)
(* expired or cancelled before.                                            *)
OnlyNestedLockUp ==
    \A x \in Actor : Blocked(x) =>
        \/ \E y \in tail \ resolved : GetsOn(y)
        \/ \E a \in Agents : pc[Turn(a)] = "holding" /\ Blocked(Helper(a)) /\ ~Stopped(a)

(* Stopping a turn unwinds it, together with a helper that waits for the   *)
(* browser which the turn itself holds.                                    *)
StopUnwinds ==
    \A a \in Agents : Stopped(a) ~> turn[a] = "ended" /\ helper[a] # "working"

(* "Wall-clock defaults for one sub-agent run; the host enforces them":    *)
(* a helper that reached its time limit comes to an end.                   *)
TimeLimitEndsHelper ==
    \A a \in Agents : a \in expired ~> helper[a] # "working"
=============================================================================
