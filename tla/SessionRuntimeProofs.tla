------------------------ MODULE SessionRuntimeProofs ------------------------
(***************************************************************************)
(* The requests of a delegated session and their cards agree, for any      *)
(* number of requests of any kinds.                                        *)
(*                                                                         *)
(* GateInv adds to the three properties what an action needs to find: a    *)
(* request nobody made has no history, a request that waits was settled by *)
(* nobody, the slot of a kind holds a request of it that waits, and the    *)
(* engine lives exactly while the run executes.                            *)
(***************************************************************************)
EXTENDS SessionRuntime, TLAPS

Fresh ==
    \A r \in Request :
        /\ gate[r] \in {"unasked", "pending"} => by[r] = "nobody"
        /\ gate[r] = "unasked" => ask[r] = "no"

SlotsPend == \A k \in Kinds : slot[k] # None => slot[k] \in Pending /\ Kind[slot[k]] = k

RunPhases == phase = "executing" <=> engine \in Live

Cards == CardsAreLive /\ CardTellsOutcome /\ ChiefClaimsItsOwn

GateInv == TypeOK /\ Cards /\ Fresh /\ SlotsPend /\ RunPhases

(* What the actions that settle or open requests leave of the invariant.   *)
Board ==
    /\ gate \in [Request -> {"unasked", "pending"} \cup Outcome]
    /\ by \in [Request -> {"nobody", "person", "chief", "setting", "timeout", "release"}]
    /\ slot \in [Kinds -> Request \cup {None}]
    /\ card \in [Request -> {"none", "open", "approved", "denied", "answered", "dismissed"}]
    /\ routed \in SUBSET Request
    /\ \A r \in Request : card[r] = "open" <=> r \in routed
    /\ routed = {r \in Pending : ask[r] # "asked"}
    /\ CardTellsOutcome /\ Fresh /\ SlotsPend

(* The chief is asked about no request outside R, and about none outside   *)
(* those that were made.                                                   *)
AsksWithin(R) ==
    \A r \in Request : r \notin R \/ gate[r] = "unasked" => ask'[r] = ask[r]

(* Exactly the requests R become settled, by who. *)
Settled(R, who) ==
    /\ Pending' = Pending \ R
    /\ \A r \in Request : by'[r] = IF r \in R THEN who ELSE by[r]

-----------------------------------------------------------------------------
LEMMA ShownCloses == \A o \in Outcome : Shown(o) \in {"approved", "denied", "answered"}
BY DEF Shown, Outcome

LEMMA BoardOfInv == GateInv => Board
BY DEF GateInv, TypeOK, Cards, CardsAreLive, Board

(* Settling requests that wait, in any way: their cards say how. *)
LEMMA Settling ==
    ASSUME Board, TypeOK, NEW R \in SUBSET Pending, NEW o \in [Request -> Outcome],
           NEW who \in {"person", "chief", "timeout", "release"},
           Settle(R, o, who), AsksWithin(R)
    PROVE  Board' /\ Settled(R, who)
<1>0. R \subseteq Request
  BY DEF Pending
<1>1. /\ gate' = [r \in Request |-> IF r \in R THEN o[r] ELSE gate[r]]
      /\ by' = [r \in Request |-> IF r \in R THEN who ELSE by[r]]
      /\ slot' = [k \in Kinds |-> IF slot[k] \in R THEN None ELSE slot[k]]
      /\ card' = [r \in Request |-> IF r \in R \cap routed THEN Shown(o[r]) ELSE card[r]]
      /\ routed' = routed \ R
  BY DEF Settle
<1>2. \A r \in Request : o[r] \in Outcome /\ o[r] \notin {"unasked", "pending"}
  BY DEF Outcome
<1>3. Pending' = Pending \ R
  BY <1>1, <1>2 DEF Pending
<1>4. gate' \in [Request -> {"unasked", "pending"} \cup Outcome]
  BY <1>1, <1>2 DEF Board
<1>5. /\ by' \in [Request -> {"nobody", "person", "chief", "setting", "timeout", "release"}]
      /\ slot' \in [Kinds -> Request \cup {None}]
      /\ routed' \in SUBSET Request
  BY <1>1 DEF Board
<1>6. card' \in [Request -> {"none", "open", "approved", "denied", "answered", "dismissed"}]
  BY <1>1, <1>2, ShownCloses DEF Board
<1>7. \A r \in Request : card'[r] = "open" <=> r \in routed'
  BY <1>1, <1>2, ShownCloses DEF Board
<1>8. routed' = {r \in Pending' : ask'[r] # "asked"}
  BY <1>0, <1>1, <1>3 DEF Board, Pending, AsksWithin
<1>9. CardTellsOutcome'
  <2> SUFFICES ASSUME NEW r \in Request, card'[r] \notin {"none", "open"}
               PROVE  gate'[r] \in Outcome /\ card'[r] = Shown(gate'[r])
    BY DEF CardTellsOutcome, Shown
  <2>1. CASE r \in R /\ r \in routed
    BY <1>1, <1>2, <2>1 DEF Shown
  <2>2. CASE r \in R /\ r \notin routed
    <3>1. card[r] # "open" /\ card'[r] = card[r]
      BY <1>1, <2>2 DEF Board
    <3>2. gate[r] = "pending"
      BY <2>2 DEF Pending
    <3> QED
      BY <3>1, <3>2 DEF Board, CardTellsOutcome, Outcome
  <2>3. CASE r \notin R
    BY <1>1, <2>3 DEF Board, CardTellsOutcome
  <2> QED
    BY <2>1, <2>2, <2>3
<1>10. Fresh'
  BY <1>1, <1>2 DEF Board, Fresh, AsksWithin
<1>11. SlotsPend'
  <2> SUFFICES ASSUME NEW k \in Kinds, slot'[k] # None
               PROVE  slot'[k] \in Pending' /\ Kind[slot'[k]] = k
    BY DEF SlotsPend
  <2>1. slot'[k] = slot[k] /\ slot[k] \notin R
    BY <1>1
  <2> QED
    BY <1>3, <2>1 DEF Board, SlotsPend
<1> QED
  BY <1>1, <1>3, <1>4, <1>5, <1>6, <1>7, <1>8, <1>9, <1>10, <1>11 DEF Board, Settled

(* The outcomes of a release and of a time limit, and of an answer. *)
LEMMA OutcomesAreOutcomes ==
    /\ [r \in Request |-> Closed(r)] \in [Request -> Outcome]
    /\ \A x \in Outcome : [q \in Request |-> x] \in [Request -> Outcome]
BY DEF Closed, Outcome

(* A settlement by anyone but the chief keeps the claims. *)
LEMMA ClaimsKept ==
    ASSUME ChiefClaimsItsOwn, Fresh, NEW R \in SUBSET Pending, NEW who, who # "chief",
           UNCHANGED consultation, Settled(R, who)
    PROVE  ChiefClaimsItsOwn'
<1>1. claim' = claim /\ ask' = ask
  BY DEF consultation
<1>2. \A r \in R : by[r] = "nobody" /\ claim[r] # "decided"
  BY DEF ChiefClaimsItsOwn, Fresh, Pending
<1> SUFFICES ASSUME NEW r \in Request
             PROVE  (claim'[r] = "decided" <=> by'[r] = "chief") /\ (ask'[r] # "over" => claim'[r] = "none")
  BY DEF ChiefClaimsItsOwn
<1>3. CASE r \in R
  BY <1>1, <1>2, <1>3 DEF ChiefClaimsItsOwn, Settled
<1>4. CASE r \notin R
  BY <1>1, <1>4 DEF ChiefClaimsItsOwn, Settled
<1> QED
  BY <1>3, <1>4

LEMMA Releasing ==
    ASSUME GateInv, ReleaseGates, UNCHANGED consultation
    PROVE  Board' /\ Pending' = {} /\ ChiefClaimsItsOwn'
<1>1. Board /\ TypeOK
  BY BoardOfInv DEF GateInv
<1>2. Settle(Pending, [r \in Request |-> Closed(r)], "release")
  BY DEF ReleaseGates
<1>3. AsksWithin(Pending)
  BY DEF consultation, AsksWithin
<1>4. Board' /\ Settled(Pending, "release")
  BY <1>1, <1>2, <1>3, OutcomesAreOutcomes, Settling
<1>5. ChiefClaimsItsOwn'
  BY <1>4, ClaimsKept DEF GateInv, Cards
<1> QED
  BY <1>4, <1>5 DEF Settled

(* The settlement of one request by somebody else than the chief. *)
LEMMA SettlingOne ==
    ASSUME GateInv, NEW r \in Pending, NEW o \in [Request -> Outcome], NEW who \in {"person", "timeout"},
           Settle({r}, o, who), UNCHANGED consultation
    PROVE  Board' /\ Pending' \subseteq Pending /\ ChiefClaimsItsOwn'
<1>1. Board /\ TypeOK
  BY BoardOfInv DEF GateInv
<1>2. AsksWithin({r})
  BY DEF consultation, AsksWithin
<1>3. {r} \in SUBSET Pending /\ who \in {"person", "chief", "timeout", "release"} /\ who # "chief"
  OBVIOUS
<1>4. Board' /\ Settled({r}, who)
  BY <1>1, <1>2, <1>3, Settling
<1>5. ChiefClaimsItsOwn /\ Fresh
  BY DEF GateInv, Cards
<1>6. ChiefClaimsItsOwn'
  BY <1>3, <1>4, <1>5, ClaimsKept
<1> QED
  BY <1>4, <1>6 DEF Settled

(* The invariant from its parts. *)
LEMMA Assembled ==
    ASSUME Board', ChiefClaimsItsOwn', RunPhases', Pending' # {} => engine' = "acting",
           consultation' \in BOOLEAN \X [Request -> {"no", "asked", "over"}] \X [Request -> {"none", "decided", "escalated"}],
           phase' \in {"saving", "executing", "sealing", "settled"}, engine' \in {"none"} \cup Live,
           stopped' \in BOOLEAN, cancelled' \in BOOLEAN, aborted' \in BOOLEAN, exhausted' \in BOOLEAN,
           budgetStop' \in BOOLEAN, status' \in {"running", "completed", "blocked", "failed"}
    PROVE  GateInv'
BY DEF GateInv, Board, TypeOK, Cards, CardsAreLive, consultation

-----------------------------------------------------------------------------
LEMMA GateInit == Init => GateInv
<1> SUFFICES ASSUME Init
             PROVE  GateInv
  OBVIOUS
<1>1. TypeOK
  BY DEF Init, TypeOK
<1>2. Pending = {} /\ routed = {}
  BY DEF Init, Pending
<1>3. CardsAreLive
  BY <1>2 DEF Init, CardsAreLive
<1>4. CardTellsOutcome /\ ChiefClaimsItsOwn /\ Fresh /\ SlotsPend
  BY DEF Init, CardTellsOutcome, ChiefClaimsItsOwn, Fresh, SlotsPend
<1>5. RunPhases
  BY DEF Init, RunPhases, Live
<1> QED
  BY <1>1, <1>3, <1>4, <1>5 DEF GateInv, Cards

(* A step that leaves the requests alone leaves their part of the invariant. *)
LEMMA Untouched ==
    ASSUME GateInv, UNCHANGED <<gates, consultation>>
    PROVE  Board' /\ Pending' = Pending /\ ChiefClaimsItsOwn'
BY BoardOfInv DEF GateInv, Cards, gates, consultation, Board, Pending, CardTellsOutcome, Fresh,
                  SlotsPend, ChiefClaimsItsOwn

LEMMA ConsultationKept ==
    ASSUME GateInv, UNCHANGED consultation
    PROVE  consultation' \in BOOLEAN \X [Request -> {"no", "asked", "over"}] \X [Request -> {"none", "decided", "escalated"}]
BY DEF GateInv, TypeOK, consultation

LEMMA WaitsWhileActing == GateInv /\ engine # "acting" => Pending = {}
BY DEF GateInv, Cards, CardsAreLive

LEMMA ExecuteKeeps == GateInv /\ (Execute \/ RefuseToExecute) => GateInv'
<1> SUFFICES ASSUME GateInv, Execute \/ RefuseToExecute
             PROVE  GateInv'
  OBVIOUS
<1>1. UNCHANGED <<gates, consultation>> /\ phase = "saving"
  BY DEF Execute, RefuseToExecute
<1>2. engine # "acting"
  BY <1>1 DEF GateInv, RunPhases, Live
<1>3. Pending' = {} /\ Board' /\ ChiefClaimsItsOwn'
  BY <1>1, <1>2, Untouched, WaitsWhileActing
<1>4. RunPhases' /\ phase' \in {"executing", "sealing"} /\ engine' \in {"none"} \cup Live
  BY <1>1 DEF Execute, RefuseToExecute, GateInv, TypeOK, RunPhases, Live
<1> QED
  BY <1>1, <1>3, <1>4, ConsultationKept, Assembled DEF Execute, RefuseToExecute, GateInv, TypeOK

LEMMA SpendKeeps == GateInv /\ Spend => GateInv'
<1> SUFFICES ASSUME GateInv, Spend
             PROVE  GateInv'
  OBVIOUS
<1>1. Pending' = Pending /\ Board' /\ ChiefClaimsItsOwn'
  BY Untouched DEF Spend
<1>2. RunPhases' /\ (Pending' # {} => engine' = "acting")
  BY <1>1, WaitsWhileActing DEF Spend, GateInv, RunPhases
<1> QED
  BY <1>1, <1>2, ConsultationKept, Assembled DEF Spend, GateInv, TypeOK

LEMMA ProceedKeeps == GateInv /\ Proceed => GateInv'
<1> SUFFICES ASSUME GateInv, Proceed
             PROVE  GateInv'
  OBVIOUS
<1>1. Pending' = {} /\ Board' /\ ChiefClaimsItsOwn'
  BY Untouched DEF Proceed
<1>2. engine' \in Live /\ RunPhases'
  BY DEF Proceed, GateInv, RunPhases, Live
<1> QED
  BY <1>1, <1>2, ConsultationKept, Assembled DEF Proceed, GateInv, TypeOK

(* The engine makes no call and ends no run while a request of it waits. *)
LEMMA EndKeeps == GateInv /\ (Report \/ Throw) => GateInv'
<1> SUFFICES ASSUME GateInv, Report \/ Throw
             PROVE  GateInv'
  OBVIOUS
<1>1. UNCHANGED <<gates, consultation>> /\ engine \in {"thinking", "ending"}
  BY DEF Report, Throw
<1>2. Pending' = {} /\ Board' /\ ChiefClaimsItsOwn'
  BY <1>1, Untouched, WaitsWhileActing
<1>3. RunPhases' /\ engine' = "none" /\ phase' = "sealing"
  BY DEF Report, Throw, RunPhases, Live
<1> QED
  BY <1>1, <1>2, <1>3, ConsultationKept, Assembled DEF Report, Throw, GateInv, TypeOK

LEMMA ReplyKeeps == GateInv /\ Reply => GateInv'
<1> SUFFICES ASSUME GateInv, Reply
             PROVE  GateInv'
  OBVIOUS
<1>1. UNCHANGED consultation /\ engine = "thinking"
  BY DEF Reply
<1>2. Pending' = {} /\ Board' /\ ChiefClaimsItsOwn'
  <2>1. CASE UNCHANGED gates
    BY <1>1, <2>1, Untouched, WaitsWhileActing
  <2>2. CASE ReleaseGates
    BY <1>1, <2>2, Releasing
  <2> QED
    BY <2>1, <2>2 DEF Reply
<1>3. engine' \in Live /\ RunPhases'
  BY <1>1 DEF Reply, GateInv, RunPhases, Live
<1>4. /\ phase' \in {"saving", "executing", "sealing", "settled"} /\ stopped' \in BOOLEAN
      /\ cancelled' \in BOOLEAN /\ aborted' \in BOOLEAN /\ exhausted' \in BOOLEAN
      /\ budgetStop' \in BOOLEAN /\ status' \in {"running", "completed", "blocked", "failed"}
  BY DEF Reply, GateInv, TypeOK
<1>5. consultation' \in BOOLEAN \X [Request -> {"no", "asked", "over"}] \X [Request -> {"none", "decided", "escalated"}]
  BY <1>1, ConsultationKept
<1> QED
  BY <1>2, <1>3, <1>4, <1>5, Assembled

LEMMA StopKeeps == GateInv /\ (Cancel \/ StopTask) => GateInv'
<1> SUFFICES ASSUME GateInv, Cancel \/ StopTask
             PROVE  GateInv'
  OBVIOUS
<1>1. UNCHANGED <<consultation, phase, engine>> /\ ReleaseGates
  BY DEF Cancel, StopTask
<1>2. Pending' = {} /\ Board' /\ ChiefClaimsItsOwn'
  BY <1>1, Releasing
<1>3. RunPhases' /\ stopped' \in BOOLEAN
  BY <1>1 DEF GateInv, RunPhases, Cancel, StopTask, StopEngine
<1>4. /\ phase' \in {"saving", "executing", "sealing", "settled"} /\ engine' \in {"none"} \cup Live
      /\ cancelled' \in BOOLEAN /\ aborted' \in BOOLEAN /\ exhausted' \in BOOLEAN
      /\ budgetStop' \in BOOLEAN /\ status' \in {"running", "completed", "blocked", "failed"}
  BY DEF Cancel, StopTask, GateInv, TypeOK
<1>5. consultation' \in BOOLEAN \X [Request -> {"no", "asked", "over"}] \X [Request -> {"none", "decided", "escalated"}]
  BY <1>1, ConsultationKept
<1> QED
  BY <1>2, <1>3, <1>4, <1>5, Assembled

(* A person answers a request, or its time limit does. *)
LEMMA AnswerKeeps ==
    ASSUME GateInv, NEW r \in Request, NEW o \in Outcome, AnswerCard(r, o) \/ AnswerInChat(r, o) \/ TimeOut(r)
    PROVE  GateInv'
<1>1. UNCHANGED <<consultation, work>>
  BY DEF AnswerCard, AnswerInChat, TimeOut
<1>2. r \in Pending
  <2>1. CASE AnswerCard(r, o)
    BY <2>1 DEF AnswerCard, GateInv, Cards, CardsAreLive
  <2>2. CASE AnswerInChat(r, o)
    <3>1. Kind[r] \in Kinds /\ slot[Kind[r]] = r /\ r # None
      BY <2>2, RequestAssumption DEF AnswerInChat
    <3> QED
      BY <3>1 DEF GateInv, SlotsPend
  <2>3. CASE TimeOut(r)
    BY <2>3 DEF TimeOut
  <2> QED
    BY <2>1, <2>2, <2>3
<1>3. Board' /\ Pending' \subseteq Pending /\ ChiefClaimsItsOwn'
  <2>1. \/ Settle({r}, [q \in Request |-> o], "person")
        \/ Settle({r}, [q \in Request |-> Closed(q)], "timeout")
    BY <1>2 DEF AnswerCard, AnswerInChat, TimeOut
  <2>2. CASE Settle({r}, [q \in Request |-> o], "person")
    BY <1>1, <1>2, <2>2, OutcomesAreOutcomes, SettlingOne
  <2>3. CASE Settle({r}, [q \in Request |-> Closed(q)], "timeout")
    BY <1>1, <1>2, <2>3, OutcomesAreOutcomes, SettlingOne
  <2> QED
    BY <2>1, <2>2, <2>3
<1>4. RunPhases' /\ (Pending' # {} => engine' = "acting")
  BY <1>1, <1>3, WaitsWhileActing DEF work, GateInv, RunPhases
<1> QED
  BY <1>1, <1>3, <1>4, ConsultationKept, Assembled DEF work, GateInv, TypeOK

(* A request that opens, or is approved on the spot. *)
LEMMA AskKeeps ==
    ASSUME GateInv, NEW r \in Request, AskAllowed(r) \/ AskChief(r) \/ AskPerson(r)
    PROVE  GateInv'
<1>1. /\ gate[r] = "unasked" /\ ask[r] = "no" /\ by[r] = "nobody" /\ claim[r] = "none"
      /\ r \notin Pending /\ r \notin routed /\ card[r] = "none" /\ engine = "acting"
  <2>1. gate[r] = "unasked" /\ engine = "acting"
    BY DEF AskAllowed, AskChief, AskPerson, MayAsk
  <2>2. ask[r] = "no" /\ by[r] = "nobody" /\ r \notin Pending
    BY <2>1 DEF GateInv, Fresh, Pending
  <2>3. r \notin routed /\ card[r] # "open"
    BY <2>2 DEF GateInv, Cards, CardsAreLive
  <2>4. card[r] = "none"
    BY <2>1, <2>3 DEF GateInv, Cards, CardTellsOutcome, Outcome
  <2>5. claim[r] = "none"
    BY <2>2 DEF GateInv, Cards, ChiefClaimsItsOwn
  <2> QED
    BY <2>1, <2>2, <2>3, <2>4, <2>5
<1>2. UNCHANGED work
  BY DEF AskAllowed, AskChief, AskPerson
<1>3. Kind[r] \in Kinds
  BY RequestAssumption
<1>4. Board /\ TypeOK
  BY BoardOfInv DEF GateInv
<1>5. RunPhases' /\ (Pending' # {} => engine' = "acting")
  BY <1>1, <1>2 DEF GateInv, RunPhases, work
<1>6. CASE AskAllowed(r)
  <2>1. Pending' = Pending
    BY <1>1, <1>4, <1>6 DEF AskAllowed, Pending, TypeOK
  <2>2. SlotsPend'
    BY <1>4, <1>6, <2>1 DEF AskAllowed, Board, SlotsPend, TypeOK
  <2>3. CardTellsOutcome' /\ Fresh' /\ ChiefClaimsItsOwn'
    BY <1>1, <1>4, <1>6 DEF AskAllowed, Board, CardTellsOutcome, Fresh, ChiefClaimsItsOwn, TypeOK,
                            consultation, GateInv, Cards
  <2>4. Board'
    BY <1>3, <1>4, <1>6, <2>1, <2>2, <2>3 DEF AskAllowed, Board, consultation, Outcome
  <2> QED
    BY <1>2, <1>4, <1>5, <1>6, <2>3, <2>4, ConsultationKept, Assembled DEF AskAllowed, TypeOK, work
<1>7. CASE AskChief(r) \/ AskPerson(r)
  <2>1. /\ gate' = [gate EXCEPT ![r] = "pending"] /\ slot' = [slot EXCEPT ![Kind[r]] = r]
        /\ UNCHANGED <<by, claim, chief>>
    BY <1>7 DEF AskChief, AskPerson, consultation
  <2>2. Pending' = Pending \cup {r}
    BY <1>1, <1>4, <2>1 DEF Pending, TypeOK
  <2>3. SlotsPend'
    BY <1>3, <1>4, <2>1, <2>2 DEF Board, SlotsPend, TypeOK
  <2>4. Fresh' /\ CardTellsOutcome' /\ ChiefClaimsItsOwn' /\ ask' \in [Request -> {"no", "asked", "over"}]
    <3>1. CASE AskChief(r)
      BY <1>1, <1>4, <2>1, <3>1 DEF AskChief, Board, CardTellsOutcome, Fresh, ChiefClaimsItsOwn, TypeOK, GateInv, Cards
    <3>2. CASE AskPerson(r)
      BY <1>1, <1>4, <2>1, <3>2 DEF AskPerson, Surface, Board, CardTellsOutcome, Fresh, ChiefClaimsItsOwn, TypeOK,
                                    GateInv, Cards, consultation
    <3> QED
      BY <1>7, <3>1, <3>2
  <2>5. /\ card' \in [Request -> {"none", "open", "approved", "denied", "answered", "dismissed"}]
        /\ routed' \in SUBSET Request
        /\ \A q \in Request : card'[q] = "open" <=> q \in routed'
        /\ routed' = {q \in Pending' : ask'[q] # "asked"}
    <3>1. CASE AskChief(r)
      BY <1>1, <1>4, <2>2, <3>1 DEF AskChief, Board, TypeOK, Pending
    <3>2. CASE AskPerson(r)
      BY <1>1, <1>4, <2>2, <3>2 DEF AskPerson, Surface, Board, TypeOK, Pending, consultation
    <3> QED
      BY <1>7, <3>1, <3>2
  <2>6. Board'
    BY <1>3, <1>4, <2>1, <2>3, <2>4, <2>5 DEF Board
  <2> QED
    BY <1>2, <1>4, <1>5, <2>1, <2>4, <2>6, Assembled DEF TypeOK, work, consultation
<1> QED
  BY <1>6, <1>7

(* The chief's reply, in time or late. *)
LEMMA ChiefKeeps ==
    ASSUME GateInv, NEW r \in Request, NEW d \in Replies, ChiefReplies(r, d)
    PROVE  GateInv'
<1> DEFINE e == Effect(Kind[r], d)
<1>1. /\ ask[r] = "asked" /\ ask' = [ask EXCEPT ![r] = "over"]
      /\ UNCHANGED <<chief, work>>
  BY DEF ChiefReplies
<1>2. Board /\ TypeOK
  BY BoardOfInv DEF GateInv
<1>3. r \notin routed /\ card[r] # "open" /\ claim[r] = "none" /\ gate[r] # "unasked"
  BY <1>1 DEF GateInv, Cards, CardsAreLive, ChiefClaimsItsOwn, Fresh
<1>4. ask' \in [Request -> {"no", "asked", "over"}]
  BY <1>1, <1>2 DEF TypeOK
<1>5. CASE r \notin Pending
  <2>1. UNCHANGED <<gates, claim>>
    BY <1>5 DEF ChiefReplies
  <2>2. Pending' = Pending
    BY <2>1 DEF Pending, gates
  <2>3. routed' = {q \in Pending' : ask'[q] # "asked"}
    BY <1>1, <1>2, <1>5, <2>1, <2>2 DEF Board, TypeOK, gates
  <2>4. CardTellsOutcome' /\ SlotsPend'
    BY <1>2, <2>1, <2>2 DEF Board, CardTellsOutcome, SlotsPend, gates
  <2>5. Fresh' /\ ChiefClaimsItsOwn'
    BY <1>1, <1>2, <1>3, <2>1 DEF Fresh, ChiefClaimsItsOwn, GateInv, Cards, gates, TypeOK
  <2>6. Board'
    BY <1>2, <2>1, <2>3, <2>4, <2>5 DEF Board, gates
  <2>7. RunPhases' /\ (Pending' # {} => engine' = "acting")
    BY <1>1, <2>2, WaitsWhileActing DEF GateInv, RunPhases, work
  <2> QED
    BY <1>1, <1>2, <1>4, <2>1, <2>5, <2>6, <2>7, Assembled DEF TypeOK, work, consultation, gates
<1>6. CASE r \in Pending /\ e = "escalated"
  <2>1. /\ claim' = [claim EXCEPT ![r] = "escalated"] /\ UNCHANGED <<gate, by, slot>>
        /\ card' = [card EXCEPT ![r] = "open"] /\ routed' = routed \cup {r}
    BY <1>6 DEF ChiefReplies, Surface
  <2>2. Pending' = Pending
    BY <2>1 DEF Pending
  <2>3. routed' = {q \in Pending' : ask'[q] # "asked"}
    BY <1>1, <1>2, <1>6, <2>1, <2>2 DEF Board, TypeOK, Pending
  <2>4. CardTellsOutcome' /\ SlotsPend'
    BY <1>2, <2>1, <2>2 DEF Board, CardTellsOutcome, SlotsPend, TypeOK
  <2>5. by[r] = "nobody"
    BY <1>6 DEF GateInv, Fresh, Pending
  <2>6. Fresh' /\ ChiefClaimsItsOwn'
    BY <1>1, <1>2, <1>3, <2>1, <2>5 DEF Fresh, ChiefClaimsItsOwn, GateInv, Cards, TypeOK
  <2>7. Board'
    BY <1>2, <2>1, <2>3, <2>4, <2>6 DEF Board, TypeOK
  <2>8. RunPhases' /\ (Pending' # {} => engine' = "acting")
    BY <1>1, <2>2, WaitsWhileActing DEF GateInv, RunPhases, work
  <2>9. claim' \in [Request -> {"none", "decided", "escalated"}]
    BY <1>2, <2>1 DEF TypeOK
  <2> QED
    BY <1>1, <1>2, <1>4, <2>6, <2>7, <2>8, <2>9, Assembled DEF TypeOK, work, consultation
<1>7. CASE r \in Pending /\ e # "escalated"
  <2>1. /\ claim' = [claim EXCEPT ![r] = "decided"]
        /\ Settle({r}, [q \in Request |-> e], "chief")
    BY <1>7 DEF ChiefReplies
  <2>2. e \in Outcome
    BY <1>7 DEF Effect, Outcome
  <2>3. [q \in Request |-> e] \in [Request -> Outcome] /\ {r} \in SUBSET Pending
    BY <1>7, <2>2
  <2>4. AsksWithin({r})
    BY <1>1, <1>2, <1>3 DEF AsksWithin, TypeOK
  <2> HIDE DEF e
  <2>5. Board' /\ Settled({r}, "chief")
    BY <1>2, <2>1, <2>3, <2>4, Settling
  <2>6. ChiefClaimsItsOwn'
    BY <1>1, <1>2, <2>1, <2>5 DEF Settled, ChiefClaimsItsOwn, GateInv, Cards, TypeOK
  <2>7. RunPhases' /\ (Pending' # {} => engine' = "acting")
    BY <1>1, <2>5, WaitsWhileActing DEF GateInv, RunPhases, work, Settled
  <2>8. claim' \in [Request -> {"none", "decided", "escalated"}]
    BY <1>2, <2>1 DEF TypeOK
  <2> QED
    BY <1>1, <1>2, <1>4, <2>5, <2>6, <2>7, <2>8, Assembled DEF TypeOK, work, consultation
<1> QED
  BY <1>5, <1>6, <1>7

LEMMA ReturnKeeps == GateInv /\ Return => GateInv'
<1> SUFFICES ASSUME GateInv, Return
             PROVE  GateInv'
  OBVIOUS
<1>1. engine # "acting"
  BY DEF Return, GateInv, RunPhases, Live
<1>2. Pending = {} /\ routed = {}
  BY <1>1, WaitsWhileActing DEF GateInv, Cards, CardsAreLive
<1>3. card' = card /\ routed' = routed
  BY <1>2 DEF Return, GateInv, TypeOK
<1>4. UNCHANGED <<gates, consultation>>
  BY <1>3 DEF Return, gates
<1>5. Pending' = {} /\ Board' /\ ChiefClaimsItsOwn'
  BY <1>2, <1>4, Untouched
<1>6. RunPhases'
  BY DEF Return, GateInv, RunPhases
<1> QED
  BY <1>4, <1>5, <1>6, ConsultationKept, Assembled DEF Return, GateInv, TypeOK

THEOREM GateInvariant == Spec => []GateInv
<1>1. GateInv /\ [Next]_vars => GateInv'
  <2> SUFFICES ASSUME GateInv, [Next]_vars
               PROVE  GateInv'
    OBVIOUS
  <2>1. CASE Execute \/ RefuseToExecute
    BY <2>1, ExecuteKeeps
  <2>2. CASE Reply
    BY <2>2, ReplyKeeps
  <2>3. CASE Spend
    BY <2>3, SpendKeeps
  <2>4. CASE Cancel \/ StopTask
    BY <2>4, StopKeeps
  <2>5. CASE Proceed
    BY <2>5, ProceedKeeps
  <2>6. CASE Report \/ Throw
    BY <2>6, EndKeeps
  <2>7. CASE Return
    BY <2>7, ReturnKeeps
  <2>8. ASSUME NEW r \in Request, AskAllowed(r) \/ AskChief(r) \/ AskPerson(r)
        PROVE  GateInv'
    BY <2>8, AskKeeps
  <2>9. ASSUME NEW r \in Request, TimeOut(r)
        PROVE  GateInv'
    BY <2>9, AnswerKeeps DEF Outcome
  <2>10. ASSUME NEW r \in Request, NEW o \in Outcome, AnswerCard(r, o) \/ AnswerInChat(r, o)
         PROVE  GateInv'
    BY <2>10, AnswerKeeps
  <2>11. ASSUME NEW r \in Request, NEW d \in Replies, ChiefReplies(r, d)
         PROVE  GateInv'
    BY <2>11, ChiefKeeps
  <2>12. CASE UNCHANGED vars
    <3>1. UNCHANGED <<gates, consultation, work>>
      BY <2>12 DEF vars
    <3>2. Pending' = Pending /\ Board' /\ ChiefClaimsItsOwn'
      BY <3>1, Untouched
    <3>3. RunPhases' /\ (Pending' # {} => engine' = "acting")
      BY <3>1, <3>2, WaitsWhileActing DEF GateInv, RunPhases, work
    <3> QED
      BY <3>1, <3>2, <3>3, ConsultationKept, Assembled DEF GateInv, TypeOK, work
  <2> QED
    BY <2>1, <2>2, <2>3, <2>4, <2>5, <2>6, <2>7, <2>8, <2>9, <2>10, <2>11, <2>12 DEF Next
<1> QED
  BY <1>1, GateInit, PTL DEF Spec

(* The types of the session's state and of its requests. *)
THEOREM GateTypes == Spec => []TypeOK
BY GateInvariant, PTL DEF GateInv

(* A request that waits is with the chief or on an open card that answers  *)
(* it, and every open card answers one: for any number of requests.        *)
THEOREM LiveCards == Spec => []CardsAreLive
BY GateInvariant, PTL DEF GateInv, Cards

(* A closed card tells what became of its request. *)
THEOREM TrueCards == Spec => []CardTellsOutcome
BY GateInvariant, PTL DEF GateInv, Cards

(* The chief claims exactly the requests it settled. *)
THEOREM HonestChief == Spec => []ChiefClaimsItsOwn
BY GateInvariant, PTL DEF GateInv, Cards
=============================================================================
