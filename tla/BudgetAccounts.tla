--------------------------- MODULE BudgetAccounts ---------------------------
(***************************************************************************)
(* The money of one conversation: its pool of delegated spend, the         *)
(* missions that draw on the pool, and the coding sessions that a mission  *)
(* delegates, each with an account inside its mission's.                   *)
(*                                                                         *)
(* A charge goes up the chain of accounts and is never refused, so an      *)
(* account may be spent beyond its grant; whoever charges is told.  Pool   *)
(* and missions are written down now and then and come back after a crash. *)
(* One dimension, money, is modelled, in whole units.                      *)
(***************************************************************************)
EXTENDS Integers, FiniteSetsExt

CONSTANTS
    Pool,           \* the account of the conversation
    Mission,
    Worker,         \* bound: the delegated sessions, each started once
    Of,             \* the mission that may delegate each
    PoolGrant,      \* the configured grant of a new pool
    Asked,          \* the budget each mission was created with
    Reserve,        \* what each mission holds back from its sessions
    Cost,           \* what a call may cost
    Ceilings,       \* what a person may raise a mission to
    MaxRaises,      \* bound on accepted raises
    MaxExtra,       \* bound on calls of specialists and of the chief
    MaxCrashes      \* bound on crashes

Durable == {Pool} \cup Mission
Account == Durable \cup Worker

ASSUME BudgetAssumption ==
    /\ Pool \notin Mission \cup Worker /\ Mission \cap Worker = {}
    /\ Of \in [Worker -> Mission]
    /\ IsFiniteSet(Mission) /\ IsFiniteSet(Worker)
    /\ PoolGrant \in Nat /\ Asked \in [Mission -> Nat] /\ Reserve \in [Mission -> Nat]
    /\ Cost \subseteq Nat /\ Ceilings \subseteq Nat

VARIABLES
    open,       \* the accounts in memory
    grant,      \* the ceiling of each, 0 when it is not open
    spent,      \* what was charged to each, 0 when it is not open
    kept,       \* the durable accounts that are on disk
    disk,       \* what is written there
    status,     \* of each mission, on disk
    session,    \* the work session of each mission
    worker,     \* the state of each delegated session
    late,       \* the calls of each main loop at work after its chain was spent
    asking,     \* the sessions with a question at their chief of staff
    unheeded,   \* the calls of specialists, likewise, while the session works
    raises, extra, crashes

money == <<open, grant, spent>>
saved == <<kept, disk>>
aside == <<asking, unheeded>>
bounds == <<raises, extra, crashes>>
vars == <<money, saved, status, session, worker, late, aside, bounds>>

Record == [grant : Nat, spent : Nat]

TypeOK ==
    /\ open \in SUBSET Account
    /\ grant \in [Account -> Nat] /\ spent \in [Account -> Nat]
    /\ kept \in SUBSET Durable
    /\ disk \in [Durable -> Record]
    /\ status \in [Mission -> {"running", "blocked", "failed", "done"}]
    /\ session \in [Mission -> {"none", "started", "thinking", "aborted"}]
    /\ worker \in [Worker -> {"idle", "working", "stopped", "ended"}]
    /\ late \in [Mission \cup Worker -> Nat]
    /\ asking \in SUBSET Worker /\ unheeded \in [Worker -> Nat]
    /\ raises \in Nat /\ extra \in Nat /\ crashes \in Nat

Init ==
    /\ open = {} /\ kept = {}
    /\ grant = [a \in Account |-> 0] /\ spent = [a \in Account |-> 0]
    /\ disk = [a \in Durable |-> [grant |-> 0, spent |-> 0]]
    /\ status = [m \in Mission |-> "running"]
    /\ session = [m \in Mission |-> "none"]
    /\ worker = [w \in Worker |-> "idle"]
    /\ late = [a \in Mission \cup Worker |-> 0]
    /\ asking = {} /\ unheeded = [w \in Worker |-> 0]
    /\ raises = 0 /\ extra = 0 /\ crashes = 0

-----------------------------------------------------------------------------
Min2(x, y) == IF x < y THEN x ELSE y
Positive(x) == IF x > 0 THEN x ELSE 0

(* remaining() of an account with grant g and spend s. *)
Left(g, s) == Positive(g - s)

(* The account and those above it. *)
Chain(a) ==
    {a, Pool} \cup (IF a \in Worker THEN {Of[a]} ELSE {})

(* exhausted(), with the grants g and the spend s. *)
ExhaustedWith(a, g, s) == \E b \in Chain(a) : s[b] >= g[b]
Exhausted(a) == ExhaustedWith(a, grant, spent)

(* charge(): applied to the account and on every ancestor, never refused. *)
ChargedTo(a, cost) == [b \in Account |-> IF b \in Chain(a) THEN spent[b] + cost ELSE spent[b]]

(* MUTANT of PoolFor: a restored pool starts with nothing spent. *)
PoolForFresh ==
    IF Pool \in open THEN [grant |-> grant[Pool], spent |-> spent[Pool]]
    ELSE [grant |-> IF Pool \in kept THEN disk[Pool].grant ELSE PoolGrant, spent |-> 0]

(* The pool in memory, read back, or new: what delegationPoolFor gives. *)
PoolFor ==
    IF Pool \in open THEN [grant |-> grant[Pool], spent |-> spent[Pool]]
    ELSE IF Pool \in kept THEN disk[Pool]
    ELSE [grant |-> PoolGrant, spent |-> 0]

(* The account of a mission, likewise: missionAccountFor. *)
AccountFor(m) ==
    IF m \in open THEN [grant |-> grant[m], spent |-> spent[m]]
    ELSE IF m \in kept THEN disk[m]
    ELSE [grant |-> Min2(Asked[m], Left(PoolFor.grant, PoolFor.spent)), spent |-> 0]

(* The grants and the spend once mission m has its account. *)
GrantsWith(m) == [grant EXCEPT ![Pool] = PoolFor.grant, ![m] = AccountFor(m).grant]
SpendWith(m) == [spent EXCEPT ![Pool] = PoolFor.spent, ![m] = AccountFor(m).spent]

(* persistBudgets: what is in memory replaces what is on disk, and the     *)
(* rest stays.                                                             *)
PersistWith(o, g, s) ==
    /\ kept' = kept \cup (o \cap Durable)
    /\ disk' = [a \in Durable |-> IF a \in o THEN [grant |-> g[a], spent |-> s[a]] ELSE disk[a]]

Counted(calls, a) == [calls EXCEPT ![a] = @ + (IF Exhausted(a) THEN 1 ELSE 0)]

-----------------------------------------------------------------------------
(* MUTANT of Wake: a spent mission is put off. *)
WakeLater(m) ==
    /\ status[m] = "running" /\ \A n \in Mission : session[n] = "none"
    /\ ~ExhaustedWith(m, GrantsWith(m), SpendWith(m))
    /\ open' = open \cup {Pool, m}
    /\ grant' = GrantsWith(m) /\ spent' = SpendWith(m)
    /\ session' = [session EXCEPT ![m] = "started"]
    /\ UNCHANGED <<saved, status, worker, late, aside, bounds>>

(* A due mission gets a work session, one at a time in the conversation,   *)
(* unless its envelope is spent.                                           *)
Wake(m) ==
    /\ status[m] = "running" /\ \A n \in Mission : session[n] = "none"
    /\ open' = open \cup {Pool, m}
    /\ grant' = GrantsWith(m) /\ spent' = SpendWith(m)
    /\ IF ExhaustedWith(m, GrantsWith(m), SpendWith(m))
       THEN /\ status' = [status EXCEPT ![m] = "failed"]
            /\ PersistWith(open \cup {Pool, m}, GrantsWith(m), SpendWith(m))
            /\ UNCHANGED session
       ELSE /\ session' = [session EXCEPT ![m] = "started"]
            /\ UNCHANGED <<status, saved>>
    /\ UNCHANGED <<worker, late, aside, bounds>>

(* MUTANT of Told: only the account itself is asked. *)
ToldSelf(a, s) == s[a] >= grant[a]

(* What charge() says: no more work. *)
Told(a, s) == ExhaustedWith(a, grant, s)

(* A model call of the mission itself; told so, its session is aborted. *)
Think(m, cost) ==
    /\ session[m] \in {"started", "thinking"}
    /\ spent' = ChargedTo(m, cost)
    /\ session' = [session EXCEPT ![m] = IF Told(m, spent') THEN "aborted" ELSE "thinking"]
    /\ late' = Counted(late, m)
    /\ UNCHANGED <<open, grant, saved, status, worker, aside, bounds>>

(* allocate(): what the mission has left, less its reserve.  A session     *)
(* with nothing to spend is refused.                                       *)
Delegate(w, asked) ==
    LET by == Of[w]
        g == Min2(asked, Positive(Left(grant[by], spent[by]) - Reserve[by]))
    IN  /\ session[by] = "thinking" /\ worker[w] = "idle"
        /\ IF g = 0 \/ Exhausted(by)
           THEN worker' = [worker EXCEPT ![w] = "ended"] /\ UNCHANGED <<open, grant>>
           ELSE /\ worker' = [worker EXCEPT ![w] = "working"]
                /\ open' = open \cup {w}
                /\ grant' = [grant EXCEPT ![w] = g]
        /\ UNCHANGED <<spent, saved, status, session, late, aside, bounds>>

(* A model call of a delegated session; told so, its engine is stopped. *)
Work(w, cost) ==
    /\ worker[w] = "working"
    /\ spent' = ChargedTo(w, cost)
    /\ worker' = [worker EXCEPT ![w] = IF Told(w, spent') THEN "stopped" ELSE "working"]
    /\ late' = Counted(late, w)
    /\ UNCHANGED <<open, grant, saved, status, session, aside, bounds>>

(* A model call of a specialist of the session.  It charges the session    *)
(* and drops what charge() says; stopped with the session, its last call   *)
(* may still be paid for.                                                  *)
WorkExtra(w, cost) ==
    /\ worker[w] \in {"working", "stopped"} /\ extra < MaxExtra
    /\ spent' = ChargedTo(w, cost)
    /\ unheeded' = IF worker[w] = "working" THEN Counted(unheeded, w) ELSE unheeded
    /\ extra' = extra + 1
    /\ UNCHANGED <<open, grant, saved, status, session, worker, late, asking, raises, crashes>>

(* The session has a question: its chief looks at what the mission has     *)
(* left and starts a call, or declines.                                    *)
AskChief(w) ==
    /\ worker[w] = "working" /\ w \notin asking /\ extra < MaxExtra
    /\ Left(grant[Of[w]], spent[Of[w]]) > 0
    /\ asking' = asking \cup {w} /\ extra' = extra + 1
    /\ UNCHANGED <<money, saved, status, session, worker, late, unheeded, raises, crashes>>

(* The call returns, also after its session, and is charged to the mission *)
(* whatever the mission has left by now; one that failed is not charged.   *)
ChiefAnswers(w, cost) ==
    /\ w \in asking /\ asking' = asking \ {w}
    /\ spent' \in {spent, ChargedTo(Of[w], cost)}
    /\ UNCHANGED <<open, grant, saved, status, session, worker, late, unheeded, bounds>>

(* sessionSettled *)
WorkEnds(w) ==
    /\ worker[w] \in {"working", "stopped"}
    /\ worker' = [worker EXCEPT ![w] = "ended"]
    /\ open' = open \ {w}
    /\ grant' = [grant EXCEPT ![w] = 0] /\ spent' = [spent EXCEPT ![w] = 0]
    /\ PersistWith(open, grant, spent)
    /\ late' = [late EXCEPT ![w] = 0] /\ unheeded' = [unheeded EXCEPT ![w] = 0]
    /\ UNCHANGED <<status, session, asking, bounds>>

(* What becomes of a mission whose session ends: done, blocked, out of     *)
(* sessions, or to be continued; and stopped when its envelope is spent.   *)
StatusAfter(m, outcome) ==
    IF status[m] # "running" THEN status[m]
    ELSE IF session[m] = "aborted" THEN (IF Exhausted(m) THEN "failed" ELSE "running")
    ELSE IF outcome = "running" /\ Exhausted(m) THEN "failed" ELSE outcome

(* A session may fail before its first call, or be stopped by a person: it *)
(* is then to be continued.                                                *)
SessionEnds(m, outcome) ==
    /\ session[m] # "none" /\ (session[m] = "started" => outcome = "running")
    /\ status' = [status EXCEPT ![m] = StatusAfter(m, outcome)]
    /\ session' = [session EXCEPT ![m] = "none"]
    /\ PersistWith(open, grant, spent)
    /\ late' = [late EXCEPT ![m] = 0]
    /\ UNCHANGED <<money, worker, aside, bounds>>

(* A person answers a mission that is paused. *)
Reply(m) ==
    /\ status[m] = "blocked"
    /\ status' = [status EXCEPT ![m] = "running"]
    /\ UNCHANGED <<money, saved, session, worker, late, aside, bounds>>

(* A person cancels the mission, which ends it as "done" does. *)
Cancel(m) ==
    /\ status[m] \in {"running", "blocked"}
    /\ status' = [status EXCEPT ![m] = "done"]
    /\ session' = [session EXCEPT ![m] = IF @ = "none" THEN "none" ELSE "aborted"]
    /\ UNCHANGED <<money, saved, worker, late, aside, bounds>>

(* MUTANT of PoolRaised: the pool is left as it is. *)
PoolRaisedNot(p, room) == p.grant

(* The pool is topped up to cover the room that is granted. *)
PoolRaised(p, room) ==
    LET left == Left(p.grant, p.spent)
    IN  IF left < room THEN p.grant + (room - left) ELSE p.grant

(* raiseMissionBudget: a new total for a mission that may go on. *)
Raise(m, ceiling) ==
    LET a == AccountFor(m)
        g == [GrantsWith(m) EXCEPT ![Pool] = PoolRaised(PoolFor, ceiling - a.spent), ![m] = ceiling]
    IN  /\ raises < MaxRaises /\ raises' = raises + 1
        /\ status[m] # "done" /\ ceiling > a.spent
        /\ open' = open \cup {Pool, m}
        /\ grant' = g /\ spent' = SpendWith(m)
        /\ PersistWith(open', g, spent')
        /\ status' = IF status[m] = "failed" THEN [status EXCEPT ![m] = "running"] ELSE status
        /\ UNCHANGED <<session, worker, late, aside, extra, crashes>>

(* coworkAutonomyTick, and an orderly stop *)
Tick ==
    /\ PersistWith(open, grant, spent)
    /\ saved' # saved
    /\ UNCHANGED <<money, status, session, worker, late, aside, bounds>>

(* The process ends: what was not written down is forgotten. *)
Crash ==
    /\ crashes < MaxCrashes /\ crashes' = crashes + 1
    /\ open' = {}
    /\ grant' = [a \in Account |-> 0] /\ spent' = [a \in Account |-> 0]
    /\ session' = [m \in Mission |-> "none"]
    /\ worker' = [w \in Worker |-> IF worker[w] = "idle" THEN "idle" ELSE "ended"]
    /\ asking' = {} /\ unheeded' = [w \in Worker |-> 0]
    /\ late' = [a \in Mission \cup Worker |-> 0]
    /\ UNCHANGED <<saved, status, raises, extra>>

Next ==
    \/ \E m \in Mission :
          \/ Wake(m) \/ Reply(m) \/ Cancel(m)
          \/ \E cost \in Cost : Think(m, cost)
          \/ \E outcome \in {"running", "blocked", "failed", "done"} : SessionEnds(m, outcome)
          \/ \E ceiling \in Ceilings : Raise(m, ceiling)
    \/ \E w \in Worker :
          \/ \E cost \in Cost : Work(w, cost) \/ WorkExtra(w, cost) \/ ChiefAnswers(w, cost)
          \/ \E asked \in Ceilings : Delegate(w, asked)
          \/ AskChief(w) \/ WorkEnds(w)
    \/ Tick \/ Crash

Spec == Init /\ [][Next]_vars

(* The tick wakes what is due, also when other missions of the             *)
(* conversation were busy before, and work sessions end.                   *)
FairSpec ==
    /\ Spec
    /\ \A m \in Mission :
          /\ SF_vars(Wake(m))
          /\ WF_vars(\E outcome \in {"running", "blocked", "failed", "done"} : SessionEnds(m, outcome))

-----------------------------------------------------------------------------
(* The share v has of each session that mission m delegates. *)
OfMine(m, v) == [w \in Worker |-> IF Of[w] = m THEN v[w] ELSE 0]

(* The spend of missions and sessions is the spend of what they draw on:   *)
(* no money is spent beside the pool, whatever was restored, opened late   *)
(* or lost in a crash, in memory and on disk.  The code is charge, and the *)
(* remark on `carried` in createBudgetAccount.                             *)
SpendIsShared ==
    /\ SumFunction([m \in Mission |-> AccountFor(m).spent]) <= PoolFor.spent
    /\ \A m \in Mission : SumFunction(OfMine(m, spent)) <= spent[m]
    /\ SumFunction([m \in Mission |-> disk[m].spent]) <= disk[Pool].spent

(* The main loop of a mission's work session and that of a delegated one   *)
(* make one call at most after money ran out, whoever spent it: the other  *)
(* loop, another mission, a specialist or the chief.  They look at what    *)
(* charge() says; specialists do not, see SpecialistsHeedCharge.           *)
LoopsHeedCharge == \A a \in Mission \cup Worker : late[a] <= 1

(* An accepted raise pays for another session, but for the overrun of the  *)
(* pool, see RaisePays.                                                    *)
RaiseCovers ==
    [][\A m \in Mission :
          raises' # raises /\ m \in open' /\ grant'[m] # AccountFor(m).grant /\ PoolFor.spent <= PoolFor.grant
             => ~ExhaustedWith(m, grant', spent')]_vars

(* A mission whose envelope is spent does not stay on the list of running  *)
(* missions: it stops, unless somebody raises its budget.                  *)
SpentMissionStops ==
    \A m \in Mission :
        status[m] = "running" /\ m \in open /\ Exhausted(m) ~> status[m] # "running" \/ ~Exhausted(m)

(* "a grant the pool could not cover would be accepted here and then       *)
(* refuse the very next session", src/server/server.ts:2339, as what the   *)
(* top-up avoids.  The code: the overrun of the pool is not topped up.     *)
RaisePays ==
    [][\A m \in Mission :
          raises' # raises /\ m \in open' /\ grant'[m] # AccountFor(m).grant => ~ExhaustedWith(m, grant', spent')]_vars

(* "Held back for recovery/replanning; never allocatable to children.",    *)
(* src/coding/budget.ts:18.  The code: two sessions are each granted what  *)
(* is left before either has spent.                                        *)
ReserveIsKept ==
    \A m \in Mission :
        SumFunction(OfMine(m, grant)) <= Positive(grant[m] - Reserve[m])

(* "The lane is still bounded by its turn ceiling and by the parent's      *)
(* delegated budget, so "keep going" can never outspend the work it was    *)
(* delegated.", src/agent/subagent.ts:136.  The code: a specialist is not  *)
(* told that its calls are no longer covered, and makes further ones.      *)
SpecialistsHeedCharge == \A w \in Worker : unheeded[w] <= 1
=============================================================================
