------------------------ MODULE BudgetAccountsProofs ------------------------
(***************************************************************************)
(* For any missions, sessions, grants and costs: a loop that looks at what *)
(* charge() says is told in time, an accepted raise pays for another       *)
(* session, and no money is spent beside the pool.                         *)
(*                                                                         *)
(* Late calls are bounded since a chain of accounts that is spent stays    *)
(* spent by a further charge, so the charge that is counted as late is     *)
(* also the one that ends its spender: whoever works has made none.        *)
(***************************************************************************)
EXTENDS BudgetAccounts, FiniteSetTheorems, TLAPS

Active(a) ==
    IF a \in Mission THEN session[a] # "aborted" ELSE worker[a] \in {"idle", "working"}

InTime == \A a \in Mission \cup Worker : late[a] <= 1 /\ (Active(a) => late[a] = 0)

BudgetInv == TypeOK /\ InTime

-----------------------------------------------------------------------------
LEMMA Minima == \A x, y \in Nat : Min2(x, y) \in Nat
BY DEF Min2

LEMMA Transitive == \A x, y, z \in Nat : x >= y /\ y >= z => x >= z
OBVIOUS

LEMMA Remains == \A x, y, z \in Nat : Min2(x, Positive(y - z)) \in Nat
BY DEF Min2, Positive

LEMMA Lefts == \A g, s \in Nat : Left(g, s) \in Nat
BY DEF Left, Positive

(* What is opened or looked up is a record of an account. *)
LEMMA PoolIsRecord == ASSUME TypeOK PROVE PoolFor \in Record
BY BudgetAssumption DEF TypeOK, PoolFor, Record, Account, Durable

LEMMA AccountIsRecord == ASSUME TypeOK, NEW m \in Mission PROVE AccountFor(m) \in Record
<1>1. Min2(Asked[m], Left(PoolFor.grant, PoolFor.spent)) \in Nat
  BY PoolIsRecord, Lefts, Minima, BudgetAssumption DEF Record
<1>2. CASE m \in open
  BY <1>2 DEF TypeOK, AccountFor, Record, Account, Durable
<1>3. CASE m \notin open /\ m \in kept
  BY <1>3 DEF TypeOK, AccountFor, Record, Account, Durable
<1>4. CASE m \notin open /\ m \notin kept
  BY <1>1, <1>4 DEF TypeOK, AccountFor, Record
<1>5. QED
  BY <1>2, <1>3, <1>4

LEMMA WithAccount ==
    ASSUME TypeOK, NEW m \in Mission
    PROVE  GrantsWith(m) \in [Account -> Nat] /\ SpendWith(m) \in [Account -> Nat]
<1>1. PoolFor \in Record /\ AccountFor(m) \in Record
  BY PoolIsRecord, AccountIsRecord
<1>2. grant \in [Account -> Nat] /\ spent \in [Account -> Nat]
  BY DEF TypeOK
<1>3. QED
  BY <1>1, <1>2 DEF GrantsWith, SpendWith, Record

LEMMA Charges ==
    ASSUME TypeOK, NEW a \in Account, NEW cost \in Cost
    PROVE  /\ ChargedTo(a, cost) \in [Account -> Nat]
           /\ \A b \in Account : ChargedTo(a, cost)[b] >= spent[b]
<1>1. cost \in Nat /\ \A b \in Account : spent[b] \in Nat
  BY BudgetAssumption DEF TypeOK
<1>2. QED
  BY <1>1 DEF ChargedTo

LEMMA Persists ==
    ASSUME TypeOK, NEW o \in SUBSET Account, NEW g \in [Account -> Nat], NEW s \in [Account -> Nat],
           PersistWith(o, g, s)
    PROVE  kept' \in SUBSET Durable /\ disk' \in [Durable -> Record]
<1>1. \A a \in Durable : g[a] \in Nat /\ s[a] \in Nat /\ disk[a] \in Record
  BY DEF TypeOK, Account
<1>2. QED
  BY <1>1 DEF TypeOK, PersistWith, Record

LEMMA Chains == \A a \in Account : Chain(a) \subseteq Account
BY BudgetAssumption DEF Chain, Account, Durable

(* A spent chain stays spent by a charge, and the charge says so. *)
LEMMA ToldInTime ==
    ASSUME TypeOK, NEW a \in Account, NEW cost \in Cost, Exhausted(a)
    PROVE  Told(a, ChargedTo(a, cost))
<1>1. PICK b \in Chain(a) : spent[b] >= grant[b]
  BY DEF Exhausted, ExhaustedWith
<1>2. b \in Account
  BY <1>1, Chains
<1>3. spent[b] \in Nat /\ grant[b] \in Nat
  BY <1>2 DEF TypeOK
<1>4. ChargedTo(a, cost)[b] \in Nat /\ ChargedTo(a, cost)[b] >= spent[b]
  BY <1>2, Charges
<1>5. ChargedTo(a, cost)[b] >= grant[b]
  BY <1>1, <1>3, <1>4, Transitive
<1>6. QED
  BY <1>1, <1>5 DEF Told, ExhaustedWith

(* A call counts as late only for its maker, and only when the chain was   *)
(* spent.                                                                  *)
LEMMA Counts ==
    ASSUME TypeOK, NEW a \in Mission \cup Worker, late' = Counted(late, a), late[a] = 0
    PROVE  /\ late' \in [Mission \cup Worker -> Nat]
           /\ \A b \in Mission \cup Worker : b # a => late'[b] = late[b]
           /\ late'[a] <= 1
           /\ ~Exhausted(a) => late'[a] = 0
<1>1. late \in [Mission \cup Worker -> Nat]
  BY DEF TypeOK
<1>2. CASE Exhausted(a)
  <2>1. late' = [late EXCEPT ![a] = 1]
    BY <1>1, <1>2 DEF Counted
  <2>2. QED
    BY <1>1, <1>2, <2>1
<1>3. CASE ~Exhausted(a)
  <2>1. late' = [late EXCEPT ![a] = 0]
    BY <1>1, <1>3 DEF Counted
  <2>2. QED
    BY <1>1, <1>3, <2>1
<1>4. QED
  BY <1>2, <1>3

-----------------------------------------------------------------------------
LEMMA BudgetInit == Init => BudgetInv
BY BudgetAssumption DEF Init, BudgetInv, TypeOK, InTime, Active, Record, Account, Durable

(* What makes nobody late, and lets only those work that are not. *)
LEMMA StaysInTime ==
    ASSUME InTime, \A a \in Mission \cup Worker : late'[a] = late[a] \/ late'[a] = 0,
           \A a \in Mission \cup Worker : Active(a)' => Active(a) \/ late'[a] = 0
    PROVE  InTime'
BY DEF InTime

LEMMA WakeStep == ASSUME BudgetInv, NEW m \in Mission, Wake(m) PROVE BudgetInv'
<1>1. TypeOK /\ InTime
  BY DEF BudgetInv
<1>2. Pool \in Account /\ m \in Account /\ Mission \cap Worker = {}
  BY BudgetAssumption DEF Account, Durable
<1>3. open' \in SUBSET Account /\ grant' \in [Account -> Nat] /\ spent' \in [Account -> Nat]
  BY <1>1, <1>2, WithAccount DEF Wake, TypeOK
<1>4. CASE ExhaustedWith(m, GrantsWith(m), SpendWith(m))
  <2>1. /\ status' = [status EXCEPT ![m] = "failed"]
        /\ PersistWith(open', grant', spent')
        /\ UNCHANGED <<session, late, worker, aside, bounds>>
    BY <1>4 DEF Wake
  <2>2. kept' \in SUBSET Durable /\ disk' \in [Durable -> Record]
    BY <1>1, <1>3, <2>1, Persists
  <2>3. TypeOK'
    BY <1>1, <1>3, <2>1, <2>2 DEF TypeOK, aside, bounds
  <2>4. InTime'
    BY <1>1, <2>1, StaysInTime DEF Active
  <2>5. QED
    BY <2>3, <2>4 DEF BudgetInv
<1>5. CASE ~ExhaustedWith(m, GrantsWith(m), SpendWith(m))
  <2>1. /\ session[m] = "none" /\ session' = [session EXCEPT ![m] = "started"]
        /\ UNCHANGED <<status, saved, worker, late, aside, bounds>>
    BY <1>5 DEF Wake
  <2>2. TypeOK'
    BY <1>1, <1>3, <2>1 DEF TypeOK, saved, aside, bounds
  <2>3. InTime'
    BY <1>1, <1>2, <2>1, StaysInTime DEF Active, TypeOK
  <2>4. QED
    BY <2>2, <2>3 DEF BudgetInv
<1>6. QED
  BY <1>4, <1>5

LEMMA ThinkStep ==
    ASSUME BudgetInv, NEW m \in Mission, NEW cost \in Cost, Think(m, cost)
    PROVE  BudgetInv'
<1>1. TypeOK /\ InTime
  BY DEF BudgetInv
<1>2. m \in Account /\ m \notin Worker
  BY BudgetAssumption DEF Account, Durable
<1>3. Active(m) /\ late[m] = 0
  BY <1>1 DEF Think, Active, InTime, TypeOK
<1>4. spent' = ChargedTo(m, cost)
  BY DEF Think
<1>5. /\ late' \in [Mission \cup Worker -> Nat]
      /\ \A b \in Mission \cup Worker : b # m => late'[b] = late[b]
      /\ late'[m] <= 1
      /\ ~Exhausted(m) => late'[m] = 0
  BY <1>1, <1>3, Counts DEF Think
<1>6. Exhausted(m) => session'[m] = "aborted"
  BY <1>1, <1>2, <1>4, ToldInTime DEF Think, TypeOK
<1>7. TypeOK'
  BY <1>1, <1>2, <1>4, <1>5, Charges DEF Think, TypeOK, saved, aside, bounds
<1>8. \A b \in Mission \cup Worker : b # m => (Active(b)' <=> Active(b))
  BY <1>1, <1>2 DEF Think, Active, TypeOK
<1>9. InTime'
  BY <1>1, <1>2, <1>5, <1>6, <1>8 DEF InTime, Active
<1>10. QED
  BY <1>7, <1>9 DEF BudgetInv

LEMMA WorkStep ==
    ASSUME BudgetInv, NEW w \in Worker, NEW cost \in Cost, Work(w, cost)
    PROVE  BudgetInv'
<1>1. TypeOK /\ InTime
  BY DEF BudgetInv
<1>2. w \in Account /\ w \notin Mission
  BY BudgetAssumption DEF Account, Durable
<1>3. Active(w) /\ late[w] = 0
  BY <1>1, <1>2 DEF Work, Active, InTime
<1>4. spent' = ChargedTo(w, cost)
  BY DEF Work
<1>5. /\ late' \in [Mission \cup Worker -> Nat]
      /\ \A b \in Mission \cup Worker : b # w => late'[b] = late[b]
      /\ late'[w] <= 1
      /\ ~Exhausted(w) => late'[w] = 0
  BY <1>1, <1>3, Counts DEF Work
<1>6. Exhausted(w) => worker'[w] = "stopped"
  BY <1>1, <1>2, <1>4, ToldInTime DEF Work, TypeOK
<1>7. TypeOK'
  BY <1>1, <1>2, <1>4, <1>5, Charges DEF Work, TypeOK, saved, aside, bounds
<1>8. \A b \in Mission \cup Worker : b # w => (Active(b)' <=> Active(b))
  BY <1>1, <1>2 DEF Work, Active, TypeOK
<1>9. InTime'
  BY <1>1, <1>2, <1>5, <1>6, <1>8 DEF InTime, Active
<1>10. QED
  BY <1>7, <1>9 DEF BudgetInv

LEMMA SessionStep ==
    ASSUME BudgetInv, NEW w \in Worker,
           \/ \E asked \in Ceilings : Delegate(w, asked)
           \/ \E cost \in Cost : WorkExtra(w, cost) \/ ChiefAnswers(w, cost)
           \/ AskChief(w) \/ WorkEnds(w)
    PROVE  BudgetInv'
<1>1. TypeOK /\ InTime
  BY DEF BudgetInv
<1>2. w \in Account /\ w \notin Mission
  BY BudgetAssumption DEF Account, Durable
<1>3. CASE \E asked \in Ceilings : Delegate(w, asked)
  <2>1. PICK asked \in Ceilings : Delegate(w, asked)
    BY <1>3
  <2>2. Of[w] \in Mission /\ Of[w] \in Account /\ asked \in Nat /\ Reserve[Of[w]] \in Nat
    BY BudgetAssumption DEF Account, Durable
  <2>3. Left(grant[Of[w]], spent[Of[w]]) \in Nat
    BY <1>1, <2>2, Lefts DEF TypeOK
  <2>4. Min2(asked, Positive(Left(grant[Of[w]], spent[Of[w]]) - Reserve[Of[w]])) \in Nat
    BY <2>2, <2>3, Remains
  <2>5. TypeOK'
    BY <1>1, <1>2, <2>1, <2>4 DEF Delegate, TypeOK, saved, aside, bounds
  <2>6. late' = late /\ session' = session /\ worker[w] = "idle"
    BY <2>1 DEF Delegate
  <2>7. \A a \in Mission \cup Worker : Active(a)' => Active(a)
    BY <1>1, <1>2, <2>1, <2>6 DEF Delegate, Active, TypeOK
  <2>8. QED
    BY <1>1, <2>5, <2>6, <2>7, StaysInTime DEF BudgetInv
<1>4. CASE \E cost \in Cost : WorkExtra(w, cost) \/ ChiefAnswers(w, cost)
  <2>1. PICK cost \in Cost : WorkExtra(w, cost) \/ ChiefAnswers(w, cost)
    BY <1>4
  <2>2. Of[w] \in Account
    BY BudgetAssumption DEF Account, Durable
  <2>3. spent' \in [Account -> Nat]
    BY <1>1, <1>2, <2>1, <2>2, Charges DEF WorkExtra, ChiefAnswers, TypeOK
  <2>4. unheeded' \in [Worker -> Nat]
    <3>1. unheeded \in [Worker -> Nat] /\ unheeded[w] + 1 \in Nat /\ unheeded[w] + 0 \in Nat
      BY <1>1 DEF TypeOK
    <3>2. Counted(unheeded, w) \in [Worker -> Nat]
      BY <3>1 DEF Counted
    <3> QED
      BY <2>1, <3>1, <3>2 DEF WorkExtra, ChiefAnswers
  <2>5. extra' \in Nat /\ asking' \in SUBSET Worker
    BY <1>1, <2>1 DEF WorkExtra, ChiefAnswers, TypeOK, bounds
  <2>6. UNCHANGED <<open, grant, kept, disk, status, session, worker, late, raises, crashes>>
    BY <2>1 DEF WorkExtra, ChiefAnswers, saved, bounds
  <2>7. TypeOK'
    BY <1>1, <2>3, <2>4, <2>5, <2>6 DEF TypeOK
  <2>8. QED
    BY <1>1, <2>6, <2>7, StaysInTime DEF BudgetInv, Active
<1>5. CASE WorkEnds(w)
  <2>1. kept' \in SUBSET Durable /\ disk' \in [Durable -> Record]
    BY <1>1, <1>5, Persists DEF WorkEnds, TypeOK
  <2>2. TypeOK'
    BY <1>1, <1>2, <1>5, <2>1 DEF WorkEnds, TypeOK, aside, bounds
  <2>3. session' = session /\ worker'[w] = "ended" /\ \A a \in Mission \cup Worker : late'[a] = late[a] \/ late'[a] = 0
    BY <1>1, <1>5 DEF WorkEnds, TypeOK
  <2>4. \A a \in Mission \cup Worker : Active(a)' => Active(a)
    BY <1>1, <1>2, <1>5, <2>3 DEF WorkEnds, Active, TypeOK
  <2>5. QED
    BY <1>1, <2>2, <2>3, <2>4, StaysInTime DEF BudgetInv
<1>6. CASE AskChief(w)
  <2>1. TypeOK'
    BY <1>1, <1>6 DEF AskChief, TypeOK, money, saved
  <2>2. late' = late /\ session' = session /\ worker' = worker
    BY <1>6 DEF AskChief
  <2>3. QED
    BY <1>1, <2>1, <2>2, StaysInTime DEF BudgetInv, Active
<1>7. QED
  BY <1>3, <1>4, <1>5, <1>6

LEMMA SessionEndsStep ==
    ASSUME BudgetInv, NEW m \in Mission, NEW outcome \in {"running", "blocked", "failed", "done"},
           SessionEnds(m, outcome)
    PROVE  BudgetInv'
<1>1. TypeOK /\ InTime
  BY DEF BudgetInv
<1>2. kept' \in SUBSET Durable /\ disk' \in [Durable -> Record]
  BY <1>1, Persists DEF SessionEnds, TypeOK
<1>3. StatusAfter(m, outcome) \in {"running", "blocked", "failed", "done"}
  BY <1>1 DEF TypeOK, StatusAfter
<1>4. TypeOK'
  BY <1>1, <1>2, <1>3 DEF SessionEnds, TypeOK, money, aside, bounds
<1>5. worker' = worker /\ late'[m] = 0 /\ \A a \in Mission \cup Worker : a # m => late'[a] = late[a]
  BY <1>1 DEF SessionEnds, TypeOK
<1>6. \A a \in Mission \cup Worker : a # m => (Active(a)' <=> Active(a))
  BY <1>1, <1>5 DEF SessionEnds, Active, TypeOK
<1>7. QED
  BY <1>1, <1>4, <1>5, <1>6, StaysInTime DEF BudgetInv

LEMMA PoolIsRaised ==
    ASSUME NEW p \in Record, NEW room \in Nat
    PROVE  /\ PoolRaised(p, room) \in Nat
           /\ p.spent <= p.grant /\ room > 0 => PoolRaised(p, room) > p.spent
BY DEF PoolRaised, Left, Positive, Record

LEMMA RaiseStep ==
    ASSUME BudgetInv, NEW m \in Mission, NEW ceiling \in Ceilings, Raise(m, ceiling)
    PROVE  BudgetInv'
<1>1. TypeOK /\ InTime
  BY DEF BudgetInv
<1>2. Pool \in Account /\ m \in Account /\ ceiling \in Nat
  BY BudgetAssumption DEF Account, Durable
<1>3. PoolFor \in Record /\ AccountFor(m) \in Record
  BY <1>1, PoolIsRecord, AccountIsRecord
<1>4. ceiling - AccountFor(m).spent \in Nat
  BY <1>2, <1>3 DEF Raise, Record
<1>5. PoolRaised(PoolFor, ceiling - AccountFor(m).spent) \in Nat
  BY <1>3, <1>4, PoolIsRaised
<1>6. open' \in SUBSET Account /\ grant' \in [Account -> Nat] /\ spent' \in [Account -> Nat]
  BY <1>1, <1>2, <1>5, WithAccount DEF Raise, TypeOK
<1>7. PersistWith(open', grant', spent')
  BY DEF Raise
<1>8. kept' \in SUBSET Durable /\ disk' \in [Durable -> Record]
  BY <1>1, <1>6, <1>7, Persists
<1>9. TypeOK'
  BY <1>1, <1>6, <1>8 DEF Raise, TypeOK, aside
<1>10. late' = late /\ session' = session /\ worker' = worker
  BY DEF Raise
<1>11. QED
  BY <1>1, <1>9, <1>10, StaysInTime DEF BudgetInv, Active

LEMMA OtherStep ==
    ASSUME BudgetInv, \/ \E m \in Mission : Reply(m) \/ Cancel(m)
                      \/ Tick \/ Crash \/ UNCHANGED vars
    PROVE  BudgetInv'
<1>1. TypeOK /\ InTime
  BY DEF BudgetInv
<1>2. CASE \E m \in Mission : Reply(m)
  <2>1. TypeOK'
    BY <1>1, <1>2 DEF Reply, TypeOK, money, saved, aside, bounds
  <2>2. late' = late /\ session' = session /\ worker' = worker
    BY <1>2 DEF Reply
  <2>3. QED
    BY <1>1, <2>1, <2>2, StaysInTime DEF BudgetInv, Active
<1>3. CASE Tick
  <2>1. kept' \in SUBSET Durable /\ disk' \in [Durable -> Record]
    BY <1>1, <1>3, Persists DEF Tick, TypeOK
  <2>2. TypeOK'
    BY <1>1, <1>3, <2>1 DEF Tick, TypeOK, money, aside, bounds
  <2>3. late' = late /\ session' = session /\ worker' = worker
    BY <1>3 DEF Tick
  <2>4. QED
    BY <1>1, <2>2, <2>3, StaysInTime DEF BudgetInv, Active
<1>4. CASE Crash
  <2>1. TypeOK'
    BY <1>1, <1>4 DEF Crash, TypeOK, saved
  <2>2. \A a \in Mission \cup Worker : late'[a] = 0
    BY <1>4 DEF Crash
  <2>3. QED
    BY <1>1, <2>1, <2>2, StaysInTime DEF BudgetInv
<1>5. CASE UNCHANGED vars
  <2>1. TypeOK'
    BY <1>1, <1>5 DEF vars, TypeOK, money, saved, aside, bounds
  <2>2. late' = late /\ session' = session /\ worker' = worker
    BY <1>5 DEF vars
  <2>3. QED
    BY <1>1, <2>1, <2>2, StaysInTime DEF BudgetInv, Active
<1>6. ASSUME NEW m \in Mission, Cancel(m) PROVE BudgetInv'
  <2>1. TypeOK'
    BY <1>1, <1>6 DEF Cancel, TypeOK, money, saved, aside, bounds
  <2>2. late' = late /\ worker' = worker
    BY <1>6 DEF Cancel
  <2>3. \A a \in Mission \cup Worker : Active(a)' => Active(a)
    BY <1>1, <1>6, <2>2 DEF Cancel, Active, TypeOK
  <2>4. QED
    BY <1>1, <2>1, <2>2, <2>3, StaysInTime DEF BudgetInv
<1>7. QED
  BY <1>2, <1>3, <1>4, <1>5, <1>6

LEMMA BudgetStep == BudgetInv /\ [Next]_vars => BudgetInv'
<1> SUFFICES ASSUME BudgetInv, [Next]_vars PROVE BudgetInv'
  OBVIOUS
<1>1. ASSUME NEW m \in Mission, Wake(m) PROVE BudgetInv'
  BY <1>1, WakeStep
<1>2. ASSUME NEW m \in Mission, NEW cost \in Cost, Think(m, cost) PROVE BudgetInv'
  BY <1>2, ThinkStep
<1>3. ASSUME NEW m \in Mission, NEW outcome \in {"running", "blocked", "failed", "done"}, SessionEnds(m, outcome)
      PROVE  BudgetInv'
  BY <1>3, SessionEndsStep
<1>4. ASSUME NEW m \in Mission, NEW ceiling \in Ceilings, Raise(m, ceiling) PROVE BudgetInv'
  BY <1>4, RaiseStep
<1>5. ASSUME NEW w \in Worker, NEW cost \in Cost, Work(w, cost) PROVE BudgetInv'
  BY <1>5, WorkStep
<1>6. ASSUME NEW w \in Worker, NEW cost \in Cost, WorkExtra(w, cost) \/ ChiefAnswers(w, cost) PROVE BudgetInv'
  BY <1>6, SessionStep
<1>7. ASSUME NEW w \in Worker, NEW asked \in Ceilings, Delegate(w, asked) PROVE BudgetInv'
  BY <1>7, SessionStep
<1>8. ASSUME NEW w \in Worker, AskChief(w) \/ WorkEnds(w) PROVE BudgetInv'
  BY <1>8, SessionStep
<1>9. CASE (\E m \in Mission : Reply(m) \/ Cancel(m)) \/ Tick \/ Crash \/ UNCHANGED vars
  BY <1>9, OtherStep
<1>10. QED
  BY <1>1, <1>2, <1>3, <1>4, <1>5, <1>6, <1>7, <1>8, <1>9 DEF Next

(* The types of accounts, missions and sessions, and the bound on late     *)
(* calls, are invariant.                                                   *)
THEOREM BudgetInvariant == Spec => []BudgetInv
BY BudgetInit, BudgetStep, PTL DEF Spec

(* LoopsHeedCharge, for any missions, sessions, grants and costs and any   *)
(* calls of specialists and the chief: charge() tells a main loop that the *)
(* money ran out, whoever spent it, before its second call.                *)
THEOREM LateCalls == Spec => []LoopsHeedCharge
<1>1. BudgetInv => LoopsHeedCharge
  BY DEF BudgetInv, InTime, LoopsHeedCharge
<1>2. QED
  BY <1>1, BudgetInvariant, PTL

-----------------------------------------------------------------------------
(* A raise grants the mission more than it spent, and the pool, unless it  *)
(* is overrun, more than it spent.                                         *)
LEMMA RaisePaysFor ==
    ASSUME BudgetInv, NEW m \in Mission, NEW ceiling \in Ceilings, Raise(m, ceiling),
           PoolFor.spent <= PoolFor.grant
    PROVE  ~ExhaustedWith(m, grant', spent')
<1>1. TypeOK
  BY DEF BudgetInv
<1>2. Pool \in Account /\ m \in Account /\ ceiling \in Nat /\ m # Pool /\ m \notin Worker
  BY BudgetAssumption DEF Account, Durable
<1>3. PoolFor \in Record /\ AccountFor(m) \in Record
  BY <1>1, PoolIsRecord, AccountIsRecord
<1>4. ceiling > AccountFor(m).spent
  BY DEF Raise
<1>5. ceiling - AccountFor(m).spent \in Nat /\ ceiling - AccountFor(m).spent > 0
  BY <1>2, <1>3, <1>4 DEF Record
<1>6. PoolRaised(PoolFor, ceiling - AccountFor(m).spent) > PoolFor.spent
  BY <1>3, <1>5, PoolIsRaised
<1>7. GrantsWith(m) \in [Account -> Nat] /\ grant \in [Account -> Nat] /\ spent \in [Account -> Nat]
  BY <1>1, WithAccount DEF TypeOK
<1>8. grant'[m] = ceiling /\ grant'[Pool] = PoolRaised(PoolFor, ceiling - AccountFor(m).spent)
  BY <1>2, <1>7 DEF Raise
<1>9. spent'[m] = AccountFor(m).spent /\ spent'[Pool] = PoolFor.spent
  BY <1>2, <1>7 DEF Raise, SpendWith
<1>10. PoolRaised(PoolFor, ceiling - AccountFor(m).spent) \in Nat
  BY <1>3, <1>5, PoolIsRaised
<1>11. ~(spent'[m] >= grant'[m]) /\ ~(spent'[Pool] >= grant'[Pool])
  BY <1>2, <1>3, <1>4, <1>6, <1>8, <1>9, <1>10 DEF Record
<1>12. Chain(m) = {m, Pool}
  BY <1>2 DEF Chain
<1>13. QED
  BY <1>11, <1>12 DEF ExhaustedWith

LEMMA OnlyRaiseRaises ==
    ASSUME [Next]_vars, raises' # raises
    PROVE  \E m \in Mission, ceiling \in Ceilings : Raise(m, ceiling)
BY DEF Next, vars, aside, bounds, Wake, Reply, Cancel, Think, SessionEnds, Work, WorkExtra,
   AskChief, ChiefAnswers, Delegate, WorkEnds, Tick, Crash

(* RaiseCovers, for any missions, sessions, grants and costs: a mission    *)
(* whose budget is raised can pay for another session.                     *)
THEOREM RaisesCover == Spec => RaiseCovers
<1>1. ASSUME BudgetInv, [Next]_vars, NEW n \in Mission, raises' # raises, n \in open',
             grant'[n] # AccountFor(n).grant, PoolFor.spent <= PoolFor.grant
      PROVE  ~ExhaustedWith(n, grant', spent')
  <2>1. PICK m \in Mission, ceiling \in Ceilings : Raise(m, ceiling)
    BY <1>1, OnlyRaiseRaises
  <2>2. CASE n = m
    BY <1>1, <2>1, <2>2, RaisePaysFor
  <2>3. CASE n # m
    <3>1. n # Pool /\ n \in Account
      BY BudgetAssumption DEF Account, Durable
    <3>2. n \in open
      BY <1>1, <2>1, <2>3, <3>1 DEF Raise
    <3>3. grant'[n] = grant[n]
      BY <1>1, <2>1, <2>3, <3>1 DEF Raise, GrantsWith, BudgetInv, TypeOK
    <3>4. QED
      BY <1>1, <3>2, <3>3 DEF AccountFor
  <2>4. QED
    BY <2>2, <2>3
<1>2. BudgetInv /\ [Next]_vars =>
        [\A m \in Mission :
            raises' # raises /\ m \in open' /\ grant'[m] # AccountFor(m).grant /\ PoolFor.spent <= PoolFor.grant
               => ~ExhaustedWith(m, grant', spent')]_vars
  BY <1>1
<1>3. QED
  BY <1>2, BudgetInvariant, PTL DEF Spec, RaiseCovers
-----------------------------------------------------------------------------
(* Induction over the subsets of a finite set, said of a set of subsets.   *)
LEMMA SubsetsByInduction ==
    ASSUME NEW S, IsFiniteSet(S), NEW G \in SUBSET (SUBSET S), {} \in G,
           \A s \in SUBSET S : s # {} /\ (\A x \in s : s \ {x} \in G) => s \in G
    PROVE  \A s \in SUBSET S : s \in G
<1> SUFFICES ASSUME (SUBSET S) \ G # {} PROVE FALSE
  OBVIOUS
<1>1. IsWellFoundedOn(StrictSubsetOrdering(S), SUBSET S)
  <2>1. IsWellFoundedOn(StrictSubsetOrdering(S), FiniteSubsetsOf(S))
    BY FS_StrictSubsetOrderingWellFounded, Zenon
  <2>2. FiniteSubsetsOf(S) = SUBSET S
    BY FS_FiniteSubsetsOfFinite, Zenon
  <2> QED
    BY <2>1, <2>2, Zenon
<1>2. PICK s \in (SUBSET S) \ G : \A t \in (SUBSET S) \ G : ~ (<<t, s>> \in StrictSubsetOrdering(S))
  <2> DEFINE R == StrictSubsetOrdering(S)
             T == (SUBSET S) \ G
  <2>1. T \subseteq SUBSET S /\ T # {}
    OBVIOUS
  <2> HIDE DEF T, R
  <2>2. IsWellFoundedOn(R, SUBSET S)
    BY <1>1 DEF R
  <2>3. \E x \in T : \A y \in T : ~ (<<y, x>> \in R)
    BY <2>1, <2>2, WFMin
  <2> QED
    BY <2>3 DEF T, R
<1>3. \A x \in s : <<s \ {x}, s>> \in StrictSubsetOrdering(S)
  BY DEF StrictSubsetOrdering
<1>4. QED
  BY <1>2, <1>3

Pick(s) == CHOOSE x \in s : TRUE

(* h gives every subset of S the sum of f over it. *)
SumsUp(h, f, S) == h = [s \in SUBSET S |-> IF s = {} THEN 0 ELSE f[Pick(s)] + h[s \ {Pick(s)}]]

LEMMA Picked == ASSUME NEW s, s # {} PROVE Pick(s) \in s
BY DEF Pick

(* The partial sums, up to a size of subsets. *)
LEMMA SumsExist == ASSUME NEW S, IsFiniteSet(S), NEW f \in [S -> Nat] PROVE \E h : SumsUp(h, f, S)
<1> DEFINE Small(n) == {t \in SUBSET S : Cardinality(t) <= n}
           Part(h, n) == h \in [Small(n) -> Nat] /\
               \A t \in Small(n) : h[t] = IF t = {} THEN 0 ELSE f[Pick(t)] + h[t \ {Pick(t)}]
           G == {s \in SUBSET S : \E h \in [Small(Cardinality(s)) -> Nat] : Part(h, Cardinality(s))}
<1>1. \A t \in SUBSET S : IsFiniteSet(t) /\ Cardinality(t) \in Nat /\ (Cardinality(t) = 0 <=> t = {})
  BY FS_Subset, FS_CardinalityType, FS_EmptySet
<1>2. \A t \in SUBSET S : t # {} =>
          Pick(t) \in t /\ f[Pick(t)] \in Nat /\ t \ {Pick(t)} \in SUBSET S
            /\ Cardinality(t \ {Pick(t)}) = Cardinality(t) - 1
  BY <1>1, Picked, FS_RemoveElement
<1>3. {} \in G
  <2>1. Small(Cardinality({})) = {{}}
    BY <1>1
  <2>2. Part([t \in Small(Cardinality({})) |-> 0], Cardinality({}))
    BY <2>1
  <2>3. QED
    BY <2>2
<1>4. ASSUME NEW s \in SUBSET S, s # {}, \A x \in s : s \ {x} \in G PROVE s \in G
  <2> DEFINE n == Cardinality(s) - 1
  <2>0. s \ {Pick(s)} \in G
    <3> HIDE DEF G
    <3> QED
      BY <1>2, <1>4
  <2>1. n \in Nat /\ Cardinality(s) = n + 1 /\ Cardinality(s \ {Pick(s)}) = n
    <3>1. Cardinality(s) \in Nat /\ Cardinality(s) # 0
      BY <1>1, <1>4
    <3> QED
      BY <1>2, <1>4, <3>1
  <2>2. PICK h \in [Small(n) -> Nat] : Part(h, n)
    BY <2>0, <2>1
  <2> DEFINE k == [t \in Small(n + 1) |-> IF t \in Small(n) THEN h[t] ELSE f[Pick(t)] + h[t \ {Pick(t)}]]
  <2>3. \A t \in Small(n + 1) \ Small(n) : t # {} /\ f[Pick(t)] \in Nat /\ t \ {Pick(t)} \in Small(n)
    BY <1>1, <1>2, <2>1
  <2>4. Small(n) \subseteq Small(n + 1)
    BY <1>1, <2>1
  <2>5. \A t \in Small(n) : t # {} => t \ {Pick(t)} \in Small(n)
    BY <1>1, <1>2, <2>1
  <2> HIDE DEF n
  <2>6. k \in [Small(n + 1) -> Nat]
    <3> HIDE DEF Small
    <3> QED
      BY <2>2, <2>3
  <2>7. \A t \in Small(n + 1) : k[t] = IF t = {} THEN 0 ELSE f[Pick(t)] + k[t \ {Pick(t)}]
    <3>1. \A t \in Small(n) : h[t] = IF t = {} THEN 0 ELSE f[Pick(t)] + h[t \ {Pick(t)}]
      BY <2>2
    <3> HIDE DEF Small
    <3> QED
      BY <3>1, <2>3, <2>4, <2>5
  <2>8. k \in [Small(Cardinality(s)) -> Nat] /\ Part(k, Cardinality(s))
    <3> HIDE DEF Small, k
    <3> QED
      BY <2>1, <2>6, <2>7
  <2>9. QED
    <3> HIDE DEF Part, Small, k
    <3> QED
      BY <2>8
<1>5. S \in G
  <2> HIDE DEF G
  <2>1. G \in SUBSET (SUBSET S)
    BY DEF G
  <2> QED
    BY <1>3, <1>4, <2>1, SubsetsByInduction
<1>6. PICK h \in [Small(Cardinality(S)) -> Nat] : Part(h, Cardinality(S))
  BY <1>5
<1>7. Small(Cardinality(S)) = SUBSET S
  BY FS_Subset
<1>8. QED
  BY <1>6, <1>7 DEF SumsUp

(* The sum over a set is a partial sum, of the whole. *)
LEMMA SumIsPartial ==
    ASSUME NEW S, IsFiniteSet(S), NEW f \in [S -> Nat]
    PROVE  \E h : SumsUp(h, f, S) /\ SumFunction(f) = h[S]
<1> DEFINE P == CHOOSE h : SumsUp(h, f, S)
<1>1. SumsUp(P, f, S)
  BY SumsExist
<1>2. SumFunction(f) = P[S]
  BY DEF SumFunction, SumFunctionOnSet, FoldFunctionOnSet, MapThenFoldSet, SumsUp, Pick
<1> QED
  BY <1>1, <1>2

LEMMA SumRecursion ==
    ASSUME NEW S, NEW f \in [S -> Nat], NEW h, SumsUp(h, f, S)
    PROVE  /\ h[{}] = 0
           /\ \A s \in SUBSET S : s # {} => /\ Pick(s) \in s /\ f[Pick(s)] \in Nat
                                           /\ h[s] = f[Pick(s)] + h[s \ {Pick(s)}]
BY Picked DEF SumsUp

(* A sum grows by no more than its members do. *)
LEMMA SumGrows ==
    ASSUME NEW S, IsFiniteSet(S), NEW f \in [S -> Nat], NEW g \in [S -> Nat], NEW x, NEW c \in Nat,
           \A y \in S : g[y] <= f[y] + (IF y = x THEN c ELSE 0)
    PROVE  SumFunction(f) \in Nat /\ SumFunction(g) \in Nat /\ SumFunction(g) <= SumFunction(f) + c
<1>1. PICK p : SumsUp(p, f, S) /\ SumFunction(f) = p[S]
  BY SumIsPartial
<1>2. PICK q : SumsUp(q, g, S) /\ SumFunction(g) = q[S]
  BY SumIsPartial
<1> DEFINE Within(s) == p[s] \in Nat /\ q[s] \in Nat /\ q[s] <= p[s] + (IF x \in s THEN c ELSE 0)
           G == {s \in SUBSET S : Within(s)}
<1>3. {} \in G
  BY <1>1, <1>2, SumRecursion
<1>4. ASSUME NEW s \in SUBSET S, s # {}, \A y \in s : s \ {y} \in G PROVE s \in G
  <2> DEFINE y == Pick(s)
             r == s \ {y}
  <2>1. y \in s /\ f[y] \in Nat /\ g[y] \in Nat /\ p[s] = f[y] + p[r] /\ q[s] = g[y] + q[r]
    <3>1. y \in s /\ f[y] \in Nat /\ p[s] = f[y] + p[r]
      BY <1>1, <1>4, SumRecursion
    <3>2. y \in s /\ g[y] \in Nat /\ q[s] = g[y] + q[r]
      BY <1>2, <1>4, SumRecursion
    <3> QED
      BY <3>1, <3>2
  <2>2. Within(r)
    BY <1>4, <2>1
  <2>3. g[y] <= f[y] + (IF y = x THEN c ELSE 0)
    BY <2>1
  <2>4. x \in s <=> x = y \/ x \in r
    BY <2>1
  <2>5. ~ (x = y /\ x \in r)
    OBVIOUS
  <2> HIDE DEF y, r
  <2> QED
    BY <2>1, <2>2, <2>3, <2>4, <2>5
<1>5. Within(S)
  <2>1. G \in SUBSET (SUBSET S)
    OBVIOUS
  <2>2. S \in G
    <3> HIDE DEF G
    <3> QED
      BY <1>3, <1>4, <2>1, SubsetsByInduction
  <2> QED
    BY <2>2
<1> QED
  BY <1>1, <1>2, <1>5

LEMMA SumOfNothing ==
    ASSUME NEW S, IsFiniteSet(S), NEW f \in [S -> Nat], \A y \in S : f[y] = 0
    PROVE  SumFunction(f) = 0
<1>1. PICK p : SumsUp(p, f, S) /\ SumFunction(f) = p[S]
  BY SumIsPartial
<1> DEFINE G == {s \in SUBSET S : p[s] = 0}
<1>2. {} \in G
  BY <1>1, SumRecursion
<1>3. ASSUME NEW s \in SUBSET S, s # {}, \A y \in s : s \ {y} \in G PROVE s \in G
  <2>1. Pick(s) \in s /\ p[s] = f[Pick(s)] + p[s \ {Pick(s)}]
    BY <1>1, <1>3, SumRecursion
  <2>2. f[Pick(s)] = 0 /\ p[s \ {Pick(s)}] = 0
    BY <1>3, <2>1
  <2> QED
    BY <2>1, <2>2
<1>4. G \in SUBSET (SUBSET S)
  OBVIOUS
<1>5. S \in G
  <2> HIDE DEF G
  <2> QED
    BY <1>2, <1>3, <1>4, SubsetsByInduction
<1> QED
  BY <1>1, <1>5

-----------------------------------------------------------------------------
(* The spend an account would be opened with, or has. *)
Stands(a) == IF a \in open THEN spent[a] ELSE disk[a].spent

(* What is not open or not written is zero, a mission in memory has its    *)
(* pool there, and whoever spends has its accounts there.                  *)
Accounted ==
    /\ \A a \in Durable : (a \notin open => spent[a] = 0) /\ (a \notin kept => disk[a].spent = 0)
    /\ \A m \in Mission : m \in open \/ session[m] # "none" => m \in open /\ Pool \in open
    /\ \A w \in Worker : worker[w] \in {"working", "stopped"} \/ w \in asking => Of[w] \in open

Shared ==
    /\ SumFunction([m \in Mission |-> Stands(m)]) <= Stands(Pool)
    /\ SumFunction([m \in Mission |-> disk[m].spent]) <= disk[Pool].spent
    /\ \A m \in Mission : SumFunction(OfMine(m, spent)) <= spent[m]

SpendInv == BudgetInv /\ Accounted /\ Shared

LEMMA Accounts == /\ Pool \in Durable /\ Mission \subseteq Durable /\ Durable \subseteq Account
                  /\ Worker \subseteq Account /\ Pool \notin Mission /\ Pool \notin Worker
                  /\ Mission \cap Worker = {} /\ Of \in [Worker -> Mission] /\ Durable \cap Worker = {}
                  /\ IsFiniteSet(Mission) /\ IsFiniteSet(Worker)
BY BudgetAssumption DEF Account, Durable

LEMMA Standing ==
    ASSUME TypeOK
    PROVE  /\ \A a \in Durable : Stands(a) \in Nat /\ disk[a].spent \in Nat
           /\ \A a \in Account : spent[a] \in Nat
BY Accounts DEF TypeOK, Stands, Record

(* Opening an account is with the spend it stands at. *)
LEMMA OpenedAtStanding ==
    ASSUME Accounted
    PROVE  PoolFor.spent = Stands(Pool) /\ \A m \in Mission : AccountFor(m).spent = Stands(m)
BY Accounts DEF Accounted, PoolFor, AccountFor, Stands

(* The sum of f is within b; g exceeds f at one place x, by c at most; and  *)
(* the bound grows to d, by c at least.                                     *)
BothGrow(S, f, g, x, c, b, d) ==
    /\ IsFiniteSet(S) /\ f \in [S -> Nat] /\ g \in [S -> Nat]
    /\ c \in Nat /\ b \in Nat /\ d \in Nat
    /\ \A y \in S : y # x => g[y] <= f[y]
    /\ x \in S => g[x] <= f[x] + c
    /\ SumFunction(f) <= b /\ b + c <= d

(* The sum then stays within its bound. *)
LEMMA StaysWithin ==
    ASSUME NEW S, NEW f, NEW g, NEW x, NEW c, NEW b, NEW d, BothGrow(S, f, g, x, c, b, d)
    PROVE  SumFunction(g) <= d
<1> USE DEF BothGrow
<1>1. \A y \in S : g[y] <= f[y] + (IF y = x THEN c ELSE 0)
  <2> SUFFICES ASSUME NEW y \in S PROVE g[y] <= f[y] + (IF y = x THEN c ELSE 0)
    OBVIOUS
  <2>1. f[y] \in Nat /\ g[y] \in Nat
    OBVIOUS
  <2> QED
    BY <2>1
<1>2. SumFunction(f) \in Nat /\ SumFunction(g) \in Nat /\ SumFunction(g) <= SumFunction(f) + c
  BY <1>1, SumGrows
<1> QED
  BY <1>2

LEMMA StaysBelow ==
    ASSUME NEW S, IsFiniteSet(S), NEW f \in [S -> Nat], NEW g \in [S -> Nat],
           \A y \in S : g[y] <= f[y],
           NEW b \in Nat, NEW d \in Nat, SumFunction(f) <= b, b <= d
    PROVE  SumFunction(g) <= d
<1> DEFINE x == {}
           c == 0
<1>1. c \in Nat /\ b + c <= d
  OBVIOUS
<1>2. (\A y \in S : y # x => g[y] <= f[y]) /\ (x \in S => g[x] <= f[x] + c)
  OBVIOUS
<1> HIDE DEF x, c
<1>3. BothGrow(S, f, g, x, c, b, d)
  BY <1>1, <1>2 DEF BothGrow
<1> QED
  BY <1>3, StaysWithin

(* What no charge changes: accounts are opened at their standing, closed   *)
(* or written down.                                                        *)
LEMMA NoCharge ==
    ASSUME TypeOK, TypeOK', Shared,
           \A a \in Durable : Stands(a)' = Stands(a),
           \/ \A a \in Durable : disk'[a].spent = disk[a].spent
           \/ \A a \in Durable : disk'[a].spent = Stands(a),
           \A m \in Mission : spent'[m] >= spent[m],
           \A w \in Worker : spent'[w] = spent[w] \/ spent'[w] = 0
    PROVE  Shared'
<1>1. \A a \in Durable : Stands(a) \in Nat /\ disk[a].spent \in Nat /\ disk'[a].spent \in Nat
  <2>1. \A a \in Durable : disk'[a].spent \in Nat
    BY DEF TypeOK, Record
  <2> QED
    BY <2>1, Standing
<1>2. [m \in Mission |-> Stands(m)]' = [m \in Mission |-> Stands(m)] /\ Stands(Pool)' = Stands(Pool)
  BY Accounts
<1>3. SumFunction([m \in Mission |-> Stands(m)])' <= Stands(Pool)'
  BY <1>2 DEF Shared
<1>4. SumFunction([m \in Mission |-> disk'[m].spent]) <= disk'[Pool].spent
  <2>1. CASE \A a \in Durable : disk'[a].spent = disk[a].spent
    <3>1. [m \in Mission |-> disk'[m].spent] = [m \in Mission |-> disk[m].spent]
      BY <2>1, Accounts
    <3> QED
      BY <2>1, <3>1, Accounts DEF Shared
  <2>2. CASE \A a \in Durable : disk'[a].spent = Stands(a)
    <3>1. [m \in Mission |-> disk'[m].spent] = [m \in Mission |-> Stands(m)]
      BY <2>2, Accounts
    <3> QED
      BY <2>2, <3>1, Accounts DEF Shared
  <2> QED
    BY <2>1, <2>2
<1>5. ASSUME NEW m \in Mission PROVE SumFunction(OfMine(m, spent)') <= spent'[m]
  <2>1. spent \in [Account -> Nat] /\ spent' \in [Account -> Nat]
    BY DEF TypeOK
  <2>2. OfMine(m, spent) \in [Worker -> Nat] /\ OfMine(m, spent)' \in [Worker -> Nat]
    BY <2>1, Accounts DEF OfMine
  <2>3. \A w \in Worker : OfMine(m, spent)'[w] <= OfMine(m, spent)[w]
    <3> SUFFICES ASSUME NEW w \in Worker PROVE OfMine(m, spent)'[w] <= OfMine(m, spent)[w]
      OBVIOUS
    <3>1. OfMine(m, spent)[w] = (IF Of[w] = m THEN spent[w] ELSE 0)
      BY DEF OfMine
    <3>2. OfMine(m, spent)'[w] = (IF Of[w] = m THEN spent'[w] ELSE 0)
      BY DEF OfMine
    <3>3. spent[w] \in Nat /\ (spent'[w] = spent[w] \/ spent'[w] = 0)
      BY <2>1, Accounts
    <3> QED
      BY <3>1, <3>2, <3>3
  <2>4. SumFunction(OfMine(m, spent)) <= spent[m] /\ spent[m] <= spent'[m] /\ spent[m] \in Nat /\ spent'[m] \in Nat
    BY <2>1, Accounts DEF Shared
  <2> QED
    BY <2>2, <2>3, <2>4, Accounts, StaysBelow
<1> QED
  BY <1>3, <1>4, <1>5 DEF Shared

(* A charge is added to its spender and to everything above it. *)
LEMMA ChargeIsShared ==
    ASSUME TypeOK, Accounted, Shared, NEW a \in Mission \cup Worker, NEW cost \in Cost,
           spent' = ChargedTo(a, cost), UNCHANGED <<open, disk>>,
           a \in Mission => a \in open, a \in Worker => Of[a] \in open
    PROVE  Shared'
<1> DEFINE top == IF a \in Worker THEN Of[a] ELSE a
<1>1. top \in Mission /\ top \in open /\ Pool \in open /\ Chain(a) = {a, top, Pool}
  BY Accounts DEF Accounted, Chain
<1>2. cost \in Nat /\ \A b \in Account : spent[b] \in Nat
  BY Standing, BudgetAssumption
<1>3. \A b \in Account : spent'[b] = IF b \in {a, top, Pool} THEN spent[b] + cost ELSE spent[b]
  BY <1>1 DEF ChargedTo
<1> HIDE DEF top
<1>4. SumFunction([m \in Mission |-> Stands(m)])' <= Stands(Pool)'
  <2>1. \A m \in Mission : Stands(m) \in Nat /\ Stands(m)' = Stands(m) + (IF m = top THEN cost ELSE 0)
    <3> SUFFICES ASSUME NEW m \in Mission
                 PROVE  Stands(m) \in Nat /\ Stands(m)' = Stands(m) + (IF m = top THEN cost ELSE 0)
      OBVIOUS
    <3>1. m \in Account /\ m \in Durable /\ Stands(m) \in Nat /\ m # Pool /\ (m = a => m = top)
      BY Accounts, Standing DEF top
    <3>2. CASE m = top
      BY <1>1, <1>3, <3>1, <3>2 DEF Stands
    <3>3. CASE m # top
      <4>1. spent'[m] = spent[m]
        BY <1>3, <3>1, <3>3
      <4> QED
        BY <3>1, <3>3, <4>1 DEF Stands
    <3> QED
      BY <3>2, <3>3
  <2>2. Stands(Pool) \in Nat /\ Stands(Pool)' = Stands(Pool) + cost
    BY <1>1, <1>2, <1>3, Accounts, Standing DEF Stands
  <2>3. ASSUME NEW f, f = [m \in Mission |-> Stands(m)], NEW g, g = [m \in Mission |-> Stands(m)']
        PROVE  SumFunction(g) <= Stands(Pool)'
    <3>1. f \in [Mission -> Nat] /\ g \in [Mission -> Nat]
      BY <1>2, <2>1, <2>3
    <3>2. (\A m \in Mission : m # top => g[m] <= f[m]) /\ (top \in Mission => g[top] <= f[top] + cost)
      BY <1>1, <1>2, <2>1, <2>3
    <3>3. SumFunction(f) <= Stands(Pool)
      BY <2>3 DEF Shared
    <3>4. BothGrow(Mission, f, g, top, cost, Stands(Pool), Stands(Pool)')
      <4>1. Stands(Pool)' \in Nat /\ Stands(Pool) + cost <= Stands(Pool)'
        BY <1>2, <2>2
      <4> QED
        BY <1>2, <2>2, <3>1, <3>2, <3>3, <4>1, Accounts DEF BothGrow
    <3> QED
      BY <3>4, StaysWithin
  <2> QED
    BY <2>3
<1>5. SumFunction([m \in Mission |-> disk[m].spent])' <= (disk[Pool].spent)'
  BY DEF Shared
<1>6. ASSUME NEW m \in Mission PROVE SumFunction(OfMine(m, spent)') <= spent'[m]
  <2> DEFINE c == IF m = top THEN cost ELSE 0
             f == OfMine(m, spent)
             g == OfMine(m, spent')
  <2>1. f \in [Worker -> Nat] /\ g \in [Worker -> Nat]
    BY <1>2, <1>3, Accounts DEF OfMine
  <2>2. (\A w \in Worker : w # a => g[w] <= f[w]) /\ (a \in Worker => g[a] <= f[a] + c)
    <3> SUFFICES ASSUME NEW w \in Worker PROVE g[w] <= (IF w = a THEN f[w] + c ELSE f[w])
      OBVIOUS
    <3>1. f[w] = (IF Of[w] = m THEN spent[w] ELSE 0) /\ g[w] = (IF Of[w] = m THEN spent'[w] ELSE 0)
      BY DEF OfMine
    <3>2. w # top /\ w # Pool /\ w \in Account
      BY <1>1, Accounts
    <3>3. CASE w = a
      <4>1. top = Of[w]
        BY <3>3 DEF top
      <4> QED
        BY <1>2, <1>3, <3>1, <3>2, <3>3, <4>1
    <3>4. CASE w # a
      <4>1. spent'[w] = spent[w]
        BY <1>3, <3>2, <3>4
      <4> QED
        BY <1>2, <3>1, <3>2, <3>4, <4>1
    <3> QED
      BY <3>3, <3>4
  <2>3. c \in Nat /\ spent[m] \in Nat /\ spent'[m] \in Nat /\ spent[m] + c <= spent'[m]
    <3>1. m \in Account
      BY Accounts
    <3> QED
      BY <1>2, <1>3, <3>1
  <2>4. SumFunction(f) <= spent[m]
    BY DEF Shared
  <2> HIDE DEF c, f, g
  <2>5. SumFunction(g) <= spent'[m]
    <3>1. BothGrow(Worker, f, g, a, c, spent[m], spent'[m])
      BY <2>1, <2>2, <2>3, <2>4, Accounts DEF BothGrow
    <3> QED
      BY <3>1, StaysWithin
  <2> QED
    BY <2>5 DEF g, OfMine
<1> QED
  BY <1>4, <1>5, <1>6 DEF Shared

(* Writing down what is in memory. *)
LEMMA WrittenDown ==
    ASSUME TypeOK, Accounted, NEW o \in SUBSET Account, NEW g, NEW s, PersistWith(o, g, s)
    PROVE  /\ \A a \in Durable : disk'[a].spent = IF a \in o THEN s[a] ELSE disk[a].spent
           /\ \A a \in Durable : a \notin kept' => disk'[a].spent = 0
BY DEF PersistWith, Accounted

(* An account is opened with the spend it stands at, and may be written    *)
(* down with it.                                                           *)
LEMMA Opens ==
    ASSUME BudgetInv, Accounted, NEW m \in Mission, open' = open \cup {Pool, m}, spent' = SpendWith(m),
           \/ disk' = disk /\ kept' = kept
           \/ PersistWith(open', grant', spent')
    PROVE  /\ \A a \in Durable : Stands(a)' = Stands(a)
           /\ \/ \A a \in Durable : disk'[a].spent = disk[a].spent
              \/ \A a \in Durable : disk'[a].spent = Stands(a)
           /\ \A n \in Mission : spent'[n] >= spent[n]
           /\ \A w \in Worker : spent'[w] = spent[w] \/ spent'[w] = 0
           /\ \A a \in Durable : (a \notin open' => spent'[a] = 0) /\ (a \notin kept' => disk'[a].spent = 0)
<1>1. TypeOK /\ spent \in [Account -> Nat] /\ open \in SUBSET Account
  BY DEF BudgetInv, TypeOK
<1>2. spent' = [spent EXCEPT ![Pool] = Stands(Pool), ![m] = Stands(m)]
  BY OpenedAtStanding DEF SpendWith
<1>3. \A a \in Account : spent'[a] = IF a \in {Pool, m} THEN Stands(a) ELSE spent[a]
  BY <1>1, <1>2, Accounts
<1>4. open' \in SUBSET Account
  BY <1>1, Accounts
<1>5. /\ \A a \in Durable : disk'[a].spent = (IF a \in open' THEN spent'[a] ELSE disk[a].spent) \/ disk' = disk
      /\ \A a \in Durable : a \notin kept' => disk'[a].spent = 0
  BY <1>1, <1>4, WrittenDown DEF Accounted
<1>6. \A a \in Durable : a \in open' => spent'[a] = Stands(a)
  BY <1>3, Accounts DEF Stands
<1>7. \A a \in Durable : a \notin open' => a \notin open /\ spent'[a] = 0
  BY <1>3, Accounts DEF Accounted
<1>8. \A a \in Durable : Stands(a)' = Stands(a)
  BY <1>5, <1>6, <1>7 DEF Stands
<1>9. \/ \A a \in Durable : disk'[a].spent = disk[a].spent
      \/ \A a \in Durable : disk'[a].spent = Stands(a)
  BY <1>5, <1>6, <1>7 DEF Stands
<1>10. \A n \in Mission : spent'[n] >= spent[n]
  <2> SUFFICES ASSUME NEW n \in Mission PROVE spent'[n] >= spent[n]
    OBVIOUS
  <2>1. n \in Durable /\ n \in Account /\ Stands(n) \in Nat /\ spent[n] \in Nat /\ n # Pool
    BY <1>1, Accounts, Standing
  <2>2. Stands(n) >= spent[n]
    BY <2>1 DEF Stands, Accounted
  <2> QED
    BY <1>3, <2>1, <2>2
<1>11. \A w \in Worker : spent'[w] = spent[w]
  BY <1>3, Accounts
<1> QED
  BY <1>5, <1>7, <1>8, <1>9, <1>10, <1>11

LEMMA WakeSpends == ASSUME SpendInv, BudgetInv', NEW m \in Mission, Wake(m) PROVE SpendInv'
<1>1. BudgetInv /\ TypeOK /\ TypeOK' /\ Accounted /\ Shared
  BY DEF SpendInv, BudgetInv
<1>2. open' = open \cup {Pool, m} /\ spent' = SpendWith(m) /\ worker' = worker /\ asking' = asking
  BY DEF Wake, aside
<1>3. (disk' = disk /\ kept' = kept) \/ PersistWith(open', grant', spent')
  BY DEF Wake, saved
<1>4. /\ \A a \in Durable : Stands(a)' = Stands(a)
      /\ \/ \A a \in Durable : disk'[a].spent = disk[a].spent
         \/ \A a \in Durable : disk'[a].spent = Stands(a)
      /\ \A n \in Mission : spent'[n] >= spent[n]
      /\ \A w \in Worker : spent'[w] = spent[w] \/ spent'[w] = 0
      /\ \A a \in Durable : (a \notin open' => spent'[a] = 0) /\ (a \notin kept' => disk'[a].spent = 0)
  BY <1>1, <1>2, <1>3, Opens
<1>5. Shared'
  BY <1>1, <1>4, NoCharge
<1>6. \A n \in Mission : session'[n] # "none" => n = m \/ session[n] # "none"
  BY <1>1 DEF Wake, TypeOK
<1>7. Accounted'
  BY <1>1, <1>2, <1>4, <1>6, Accounts DEF Accounted
<1> QED
  BY <1>5, <1>7 DEF SpendInv

LEMMA RaiseSpends ==
    ASSUME SpendInv, BudgetInv', NEW m \in Mission, NEW ceiling \in Ceilings, Raise(m, ceiling)
    PROVE  SpendInv'
<1>1. BudgetInv /\ TypeOK /\ TypeOK' /\ Accounted /\ Shared
  BY DEF SpendInv, BudgetInv
<1>2. /\ open' = open \cup {Pool, m} /\ spent' = SpendWith(m) /\ PersistWith(open', grant', spent')
      /\ worker' = worker /\ session' = session /\ asking' = asking
  BY DEF Raise, aside
<1>3. /\ \A a \in Durable : Stands(a)' = Stands(a)
      /\ \/ \A a \in Durable : disk'[a].spent = disk[a].spent
         \/ \A a \in Durable : disk'[a].spent = Stands(a)
      /\ \A n \in Mission : spent'[n] >= spent[n]
      /\ \A w \in Worker : spent'[w] = spent[w] \/ spent'[w] = 0
      /\ \A a \in Durable : (a \notin open' => spent'[a] = 0) /\ (a \notin kept' => disk'[a].spent = 0)
  BY <1>1, <1>2, Opens
<1>4. Shared'
  BY <1>1, <1>3, NoCharge
<1>5. Accounted'
  BY <1>1, <1>2, <1>3, Accounts DEF Accounted
<1> QED
  BY <1>4, <1>5 DEF SpendInv

LEMMA ChargeSpends ==
    ASSUME SpendInv, BudgetInv', NEW cost \in Cost,
           \/ \E m \in Mission : Think(m, cost)
           \/ \E w \in Worker : Work(w, cost) \/ WorkExtra(w, cost)
           \/ \E w \in Worker : ChiefAnswers(w, cost) /\ spent' = ChargedTo(Of[w], cost)
    PROVE  SpendInv'
<1>1. BudgetInv /\ TypeOK /\ TypeOK' /\ Accounted /\ Shared
  BY DEF SpendInv, BudgetInv
<1>2. PICK a \in Mission \cup Worker :
        /\ spent' = ChargedTo(a, cost) /\ UNCHANGED <<open, kept, disk>>
        /\ (a \in Mission => a \in open) /\ (a \in Worker => Of[a] \in open)
        /\ asking' \subseteq asking
        /\ \A m \in Mission : session'[m] # "none" => session[m] # "none"
        /\ \A w \in Worker : worker'[w] \in {"working", "stopped"} => worker[w] \in {"working", "stopped"}
  <2>1. ASSUME NEW m \in Mission, Think(m, cost)
        PROVE  /\ spent' = ChargedTo(m, cost) /\ UNCHANGED <<open, kept, disk, worker, asking>>
               /\ m \in open /\ m \notin Worker
               /\ \A n \in Mission : session'[n] # "none" => session[n] # "none"
    BY <1>1, <2>1, Accounts DEF Think, saved, aside, TypeOK, Accounted
  <2>2. ASSUME NEW w \in Worker, Work(w, cost) \/ WorkExtra(w, cost)
        PROVE  /\ spent' = ChargedTo(w, cost) /\ UNCHANGED <<open, kept, disk, session, asking>>
               /\ Of[w] \in open /\ w \notin Mission
               /\ \A v \in Worker : worker'[v] \in {"working", "stopped"} => worker[v] \in {"working", "stopped"}
    BY <1>1, <2>2, Accounts DEF Work, WorkExtra, saved, aside, TypeOK, Accounted
  <2>3. ASSUME NEW w \in Worker, ChiefAnswers(w, cost), spent' = ChargedTo(Of[w], cost)
        PROVE  /\ Of[w] \in Mission /\ Of[w] \notin Worker /\ Of[w] \in open
               /\ UNCHANGED <<open, kept, disk, session, worker>> /\ asking' \subseteq asking
    BY <1>1, <2>3, Accounts, BudgetAssumption DEF ChiefAnswers, saved, Accounted
  <2>4. CASE \E m \in Mission : Think(m, cost)
    BY <2>1, <2>4
  <2>5. CASE \E w \in Worker : Work(w, cost) \/ WorkExtra(w, cost)
    BY <2>2, <2>5
  <2>6. CASE \E w \in Worker : ChiefAnswers(w, cost) /\ spent' = ChargedTo(Of[w], cost)
    <3>1. PICK w \in Worker : ChiefAnswers(w, cost) /\ spent' = ChargedTo(Of[w], cost)
      BY <2>6
    <3> QED
      BY <2>3, <3>1
  <2> QED
    BY <2>4, <2>5, <2>6
<1>3. (a \in Mission => a \in open) /\ (a \in Worker => Of[a] \in open)
  BY <1>2
<1>4. Shared'
  BY <1>1, <1>2, <1>3, ChargeIsShared
<1>5. \A b \in Durable : b \notin open => spent'[b] = 0
  <2> SUFFICES ASSUME NEW b \in Durable, b \notin open PROVE spent'[b] = 0
    OBVIOUS
  <2>1. Pool \in open
    BY <1>1, <1>3, Accounts DEF Accounted
  <2>2. b \notin Chain(a) /\ b \in Account
    BY <1>3, <2>1, Accounts DEF Chain
  <2> QED
    BY <1>1, <1>2, <2>2 DEF ChargedTo, Accounted
<1>6. Accounted'
  BY <1>1, <1>2, <1>5 DEF Accounted
<1> QED
  BY <1>4, <1>6 DEF SpendInv

(* Steps that open nothing: a session that is delegated or ends, what is   *)
(* written down, and what does not touch the accounts.                     *)
LEMMA CalmSpends ==
    ASSUME SpendInv, BudgetInv', NEW o \in SUBSET Worker, NEW c \in SUBSET Worker,
           open' = (open \cup o) \ c,
           \A a \in Account : spent'[a] = IF a \in c THEN 0 ELSE spent[a],
           UNCHANGED <<kept, disk>> \/ PersistWith(open, grant, spent),
           \A m \in Mission : session'[m] # "none" => session[m] # "none",
           \A w \in Worker : worker'[w] \in {"working", "stopped"} \/ w \in asking' => Of[w] \in open
    PROVE  SpendInv'
<1>1. BudgetInv /\ TypeOK /\ TypeOK' /\ Accounted /\ Shared
  BY DEF SpendInv, BudgetInv
<1>2. \A a \in Durable : (a \in open' <=> a \in open) /\ spent'[a] = spent[a]
  BY Accounts
<1>3. /\ \/ \A a \in Durable : disk'[a].spent = disk[a].spent
         \/ \A a \in Durable : disk'[a].spent = Stands(a)
      /\ \A a \in Durable : a \notin open => disk'[a].spent = disk[a].spent
      /\ \A a \in Durable : a \notin kept' => disk'[a].spent = 0
  <2>1. CASE UNCHANGED <<kept, disk>>
    BY <1>1, <2>1 DEF Accounted
  <2>2. CASE PersistWith(open, grant, spent)
    <3>1. open \in SUBSET Account
      BY <1>1 DEF TypeOK
    <3> QED
      BY <1>1, <2>2, <3>1, WrittenDown DEF Stands
  <2> QED
    BY <2>1, <2>2
<1>4. \A a \in Durable : Stands(a)' = Stands(a)
  BY <1>2, <1>3 DEF Stands
<1>5. \A m \in Mission : spent'[m] >= spent[m]
  BY <1>1, <1>2, Accounts, Standing
<1>6. \A w \in Worker : spent'[w] = spent[w] \/ spent'[w] = 0
  BY Accounts
<1>7. Shared'
  BY <1>1, <1>3, <1>4, <1>5, <1>6, NoCharge
<1>8. Accounted'
  BY <1>1, <1>2, <1>3, Accounts DEF Accounted
<1> QED
  BY <1>7, <1>8 DEF SpendInv

LEMMA SessionsSpend ==
    ASSUME SpendInv, BudgetInv', NEW w \in Worker,
           (\E asked \in Ceilings : Delegate(w, asked)) \/ WorkEnds(w)
    PROVE  SpendInv'
<1>1. TypeOK /\ Accounted
  BY DEF SpendInv, BudgetInv
<1>2. CASE \E asked \in Ceilings : Delegate(w, asked)
  <2>1. PICK o \in SUBSET Worker : open' = open \cup o
    <3>1. open' = open \cup {} \/ open' = open \cup {w}
      BY <1>2 DEF Delegate
    <3> QED
      BY <3>1
  <2>2. UNCHANGED <<kept, disk, spent, session, asking>> /\ session[Of[w]] = "thinking"
    BY <1>2 DEF Delegate, saved, aside
  <2>3. \A v \in Worker : worker'[v] \in {"working", "stopped"} => v = w \/ worker[v] \in {"working", "stopped"}
    BY <1>1, <1>2 DEF Delegate, TypeOK
  <2>4. \A v \in Worker : worker'[v] \in {"working", "stopped"} \/ v \in asking' => Of[v] \in open
    BY <1>1, <2>2, <2>3, Accounts DEF Accounted
  <2>5. open' = (open \cup o) \ {} /\ \A a \in Account : spent'[a] = IF a \in {} THEN 0 ELSE spent[a]
    BY <2>1, <2>2
  <2> QED
    <3> DEFINE c == {}
    <3>1. c \in SUBSET Worker /\ open' = (open \cup o) \ c
          /\ \A a \in Account : spent'[a] = IF a \in c THEN 0 ELSE spent[a]
      BY <2>5
    <3>2. UNCHANGED <<kept, disk>> /\ \A m \in Mission : session'[m] # "none" => session[m] # "none"
      BY <2>2
    <3> HIDE DEF c
    <3> QED
      BY <2>4, <3>1, <3>2, CalmSpends
<1>3. CASE WorkEnds(w)
  <2>1. open' = (open \cup {}) \ {w} /\ PersistWith(open, grant, spent) /\ session' = session
    BY <1>3 DEF WorkEnds
  <2>2. \A a \in Account : spent'[a] = IF a \in {w} THEN 0 ELSE spent[a]
    BY <1>1, <1>3 DEF WorkEnds, TypeOK
  <2>3. \A v \in Worker : worker'[v] \in {"working", "stopped"} \/ v \in asking' => Of[v] \in open
    BY <1>1, <1>3 DEF WorkEnds, TypeOK, Accounted, aside
  <2> QED
    BY <2>1, <2>2, <2>3, CalmSpends
<1> QED
  BY <1>2, <1>3

LEMMA OthersSpend ==
    ASSUME SpendInv, BudgetInv',
           \/ \E m \in Mission : \/ Reply(m) \/ Cancel(m)
                                 \/ \E outcome \in {"running", "blocked", "failed", "done"} : SessionEnds(m, outcome)
           \/ \E w \in Worker : AskChief(w) \/ \E cost \in Cost : ChiefAnswers(w, cost) /\ spent' = spent
           \/ Tick \/ UNCHANGED vars
    PROVE  SpendInv'
<1>1. TypeOK /\ Accounted
  BY DEF SpendInv, BudgetInv
<1>2. UNCHANGED <<open, spent, worker>> /\ (UNCHANGED <<kept, disk>> \/ PersistWith(open, grant, spent))
  BY DEF Reply, Cancel, SessionEnds, AskChief, ChiefAnswers, Tick, vars, money, saved
<1>3. \A w \in Worker : w \in asking' => w \in asking \/ worker[w] = "working"
  BY DEF Reply, Cancel, SessionEnds, AskChief, ChiefAnswers, Tick, vars, aside
<1>4. \A m \in Mission : session'[m] # "none" => session[m] # "none"
  BY <1>1 DEF Reply, Cancel, SessionEnds, AskChief, ChiefAnswers, Tick, vars, TypeOK
<1>5. \A w \in Worker : worker'[w] \in {"working", "stopped"} \/ w \in asking' => Of[w] \in open
  BY <1>1, <1>2, <1>3 DEF Accounted
<1>6. open' = (open \cup {}) \ {} /\ \A a \in Account : spent'[a] = IF a \in {} THEN 0 ELSE spent[a]
  BY <1>2
<1> QED
  BY <1>2, <1>4, <1>5, <1>6, CalmSpends

(* A crash leaves what is written down. *)
LEMMA CrashSpends == ASSUME SpendInv, BudgetInv', Crash PROVE SpendInv'
<1>1. TypeOK /\ TypeOK' /\ Accounted /\ Shared
  BY DEF SpendInv, BudgetInv
<1>2. open' = {} /\ UNCHANGED <<kept, disk>> /\ \A a \in Account : spent'[a] = 0
  BY DEF Crash, saved
<1>3. [m \in Mission |-> Stands(m)]' = [m \in Mission |-> disk[m].spent] /\ Stands(Pool)' = disk[Pool].spent
  BY <1>2 DEF Stands
<1>4. ASSUME NEW m \in Mission PROVE SumFunction(OfMine(m, spent')) <= spent'[m]
  <2>1. OfMine(m, spent') \in [Worker -> Nat] /\ \A w \in Worker : OfMine(m, spent')[w] = 0
    BY <1>2, Accounts DEF OfMine
  <2>2. SumFunction(OfMine(m, spent')) = 0
    BY <2>1, Accounts, SumOfNothing
  <2> QED
    BY <1>2, <2>2, Accounts
<1>5. Shared'
  BY <1>1, <1>2, <1>3, <1>4 DEF Shared, OfMine
<1>6. Accounted'
  BY <1>1, <1>2, Accounts DEF Crash, Accounted
<1> QED
  BY <1>5, <1>6 DEF SpendInv

LEMMA SpendStep == SpendInv /\ [Next]_vars => SpendInv'
<1> SUFFICES ASSUME SpendInv, [Next]_vars PROVE SpendInv'
  OBVIOUS
<1>1. BudgetInv'
  BY BudgetStep DEF SpendInv
<1>2. ASSUME NEW m \in Mission, Wake(m) PROVE SpendInv'
  BY <1>1, <1>2, WakeSpends
<1>3. ASSUME NEW m \in Mission, NEW ceiling \in Ceilings, Raise(m, ceiling) PROVE SpendInv'
  BY <1>1, <1>3, RaiseSpends
<1>4. ASSUME NEW m \in Mission, NEW cost \in Cost, Think(m, cost) PROVE SpendInv'
  BY <1>1, <1>4, ChargeSpends
<1>5. ASSUME NEW w \in Worker, NEW cost \in Cost, Work(w, cost) \/ WorkExtra(w, cost) PROVE SpendInv'
  BY <1>1, <1>5, ChargeSpends
<1>6. ASSUME NEW w \in Worker, NEW cost \in Cost, ChiefAnswers(w, cost) PROVE SpendInv'
  <2>1. spent' = spent \/ spent' = ChargedTo(Of[w], cost)
    BY <1>6 DEF ChiefAnswers
  <2>2. CASE spent' = spent
    BY <1>1, <1>6, <2>2, OthersSpend
  <2>3. CASE spent' = ChargedTo(Of[w], cost)
    BY <1>1, <1>6, <2>3, ChargeSpends
  <2> QED
    BY <2>1, <2>2, <2>3
<1>7. ASSUME NEW w \in Worker, (\E asked \in Ceilings : Delegate(w, asked)) \/ WorkEnds(w) PROVE SpendInv'
  BY <1>1, <1>7, SessionsSpend
<1>8. CASE \/ \E m \in Mission : \/ Reply(m) \/ Cancel(m)
                                 \/ \E outcome \in {"running", "blocked", "failed", "done"} : SessionEnds(m, outcome)
           \/ \E w \in Worker : AskChief(w)
           \/ Tick \/ UNCHANGED vars
  BY <1>1, <1>8, OthersSpend
<1>9. CASE Crash
  BY <1>1, <1>9, CrashSpends
<1> QED
  BY <1>2, <1>3, <1>4, <1>5, <1>6, <1>7, <1>8, <1>9 DEF Next

LEMMA SpendInit == Init => SpendInv
<1> SUFFICES ASSUME Init PROVE SpendInv
  OBVIOUS
<1>1. BudgetInv
  BY BudgetInit
<1>2. Accounted
  BY Accounts DEF Init, Accounted
<1>3. \A f \in [Mission -> Nat] : (\A m \in Mission : f[m] = 0) => SumFunction(f) = 0
  BY Accounts, SumOfNothing
<1>4. \A f \in [Worker -> Nat] : (\A w \in Worker : f[w] = 0) => SumFunction(f) = 0
  BY Accounts, SumOfNothing
<1>5. \A a \in Durable : Stands(a) = 0 /\ disk[a].spent = 0 /\ spent[a] = 0
  BY Accounts DEF Init, Stands
<1>6. SumFunction([m \in Mission |-> Stands(m)]) = 0 /\ SumFunction([m \in Mission |-> disk[m].spent]) = 0
  BY <1>3, <1>5, Accounts
<1>7. ASSUME NEW m \in Mission PROVE SumFunction(OfMine(m, spent)) = 0
  <2>1. OfMine(m, spent) \in [Worker -> Nat] /\ \A w \in Worker : OfMine(m, spent)[w] = 0
    BY Accounts DEF Init, OfMine
  <2> QED
    BY <1>4, <2>1
<1>8. Shared
  BY <1>5, <1>6, <1>7, Accounts DEF Shared
<1> QED
  BY <1>1, <1>2, <1>8 DEF SpendInv

(* SpendIsShared, for any missions, sessions, grants, costs and crashes:   *)
(* what is spent below an account is spent from it, also when accounts     *)
(* are restored from records of different times (charge, persistBudgets).  *)
THEOREM SpendStaysShared == Spec => []SpendIsShared
<1>1. SpendInv => SpendIsShared
  <2> SUFFICES ASSUME SpendInv PROVE SpendIsShared
    OBVIOUS
  <2>1. Shared /\ Accounted
    BY DEF SpendInv
  <2>2. [m \in Mission |-> AccountFor(m).spent] = [m \in Mission |-> Stands(m)] /\ PoolFor.spent = Stands(Pool)
    BY <2>1, OpenedAtStanding
  <2> QED
    BY <2>1, <2>2 DEF Shared, SpendIsShared
<1> QED
  BY <1>1, SpendInit, SpendStep, PTL DEF Spec

=============================================================================
