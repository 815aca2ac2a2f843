----------------------- MODULE ProviderCircuitProofs -----------------------
(***************************************************************************)
(* For any number of requests of any kind, the slot of the probe is freed  *)
(* by whoever took it.                                                     *)
(***************************************************************************)
EXTENDS ProviderCircuit, TLAPS

(* A taken slot belongs to an attempt in progress, which TypeOK says of    *)
(* every member of probing; a call that backs off has an attempt left.     *)
RetriesLeft == \A c \in Calls : pc[c] = "backoff" => attempt[c] < MaxRetries

CircuitInv == TypeOK /\ SlotIsUsed /\ RetriesLeft

LEMMA InitCircuit == Init => CircuitInv
BY CircuitAssumption DEF Init, CircuitInv, TypeOK, SlotIsUsed, RetriesLeft, Closed

LEMMA MarkedFree ==
    ASSUME TypeOK, NEW error
    PROVE  /\ Marked(error) \in [kind : {"none", "cooling", "half open"}, probe : BOOLEAN]
           /\ ~Marked(error).probe
BY DEF Marked, Cooling, TypeOK

LEMMA AttemptLeft ==
    ASSUME NEW n \in 0..MaxRetries, n # MaxRetries PROVE n < MaxRetries
<1>1. MaxRetries \in Nat /\ n \in Nat /\ n <= MaxRetries
  BY CircuitAssumption
<1> QED
  BY <1>1

LEMMA StepCircuit == CircuitInv /\ [Next]_vars => CircuitInv'
<1> SUFFICES ASSUME CircuitInv, [Next]_vars PROVE CircuitInv'
  OBVIOUS
<1> USE CircuitAssumption DEF CircuitInv, RetriesLeft
<1>1. CASE Elapse
  BY <1>1 DEF Elapse, TypeOK, SlotIsUsed
<1>2. ASSUME NEW c \in Calls, Request(c) PROVE CircuitInv'
  BY <1>2 DEF Request, TypeOK, SlotIsUsed
<1>3. ASSUME NEW c \in Calls, Proceed(c) PROVE CircuitInv'
  <2>1. /\ pc[c] = "waiting" /\ pc' = [pc EXCEPT ![c] = "calling"]
        /\ UNCHANGED <<attempt, aborted, partial>>
    BY <1>3 DEF Proceed
  <2>2. \/ UNCHANGED <<circuit, probing>>
        \/ circuit' = [circuit EXCEPT !.probe = TRUE] /\ probing' = probing \cup {c}
    BY <1>3 DEF Proceed
  <2>3. /\ circuit' \in [kind : {"none", "cooling", "half open"}, probe : BOOLEAN]
        /\ circuit'.probe => probing' # {}
    BY <2>2 DEF TypeOK, SlotIsUsed
  <2>4. pc' \in [Calls -> {"idle", "waiting", "calling", "backoff", "done", "failed"}]
    BY <2>1 DEF TypeOK
  <2>5. probing' \subseteq probing \cup {c} /\ probing \subseteq Calls
    BY <2>2 DEF TypeOK
  <2>6. \A d \in probing' : d \in Calls /\ pc'[d] = "calling"
    <3>1. \A d \in probing : d \in Calls /\ pc[d] = "calling"
      BY DEF TypeOK
    <3>2. pc'[c] = "calling" /\ \A d \in Calls \ {c} : pc'[d] = pc[d]
      BY <2>1 DEF TypeOK
    <3> QED
      BY <2>5, <3>1, <3>2
  <2> QED
    BY <2>1, <2>3, <2>4, <2>6 DEF TypeOK, SlotIsUsed
<1>4. ASSUME NEW c \in Calls, Succeed(c) PROVE CircuitInv'
  BY <1>4 DEF Succeed, Closed, TypeOK, SlotIsUsed
<1>5. ASSUME NEW c \in Calls, Fail(c) PROVE CircuitInv'
  <2>1. PICK error \in {"rate limit", "transient", "fatal"}, text \in {partial, partial \cup {c}} :
            /\ text \subseteq Streams \cup TurnStreams
            /\ circuit' = Marked(error)
            /\ partial' \in {text, AfterReset(c, text)}
            /\ \/ pc' = [pc EXCEPT ![c] = "failed"]
               \/ pc' = [pc EXCEPT ![c] = "backoff"] /\ attempt[c] # MaxRetries
    BY <1>5 DEF Fail, LastAttempt
  <2>2. circuit' \in [kind : {"none", "cooling", "half open"}, probe : BOOLEAN] /\ ~circuit'.probe
    BY <2>1, MarkedFree
  <2>3. probing' = probing \ {c} /\ UNCHANGED <<attempt, aborted>>
    BY <1>5 DEF Fail
  <2>4. partial' \in SUBSET (Streams \cup TurnStreams)
    BY <2>1 DEF AfterReset
  <2>5. pc' \in [Calls -> {"idle", "waiting", "calling", "backoff", "done", "failed"}]
    BY <2>1 DEF TypeOK
  <2>6. \A d \in Calls \ {c} : pc'[d] = pc[d]
    BY <2>1 DEF TypeOK
  <2>7. \A d \in probing' : d \in Calls /\ pc'[d] = "calling"
    BY <2>3, <2>6 DEF TypeOK
  <2>8. attempt[c] \in 0..MaxRetries /\ (pc'[c] = "backoff" => attempt[c] # MaxRetries)
    BY <2>1 DEF TypeOK
  <2>9. ASSUME NEW d \in Calls, pc'[d] = "backoff" PROVE attempt'[d] < MaxRetries
    <3>1. CASE d = c
      <4>1. pc'[c] = "backoff" /\ attempt' = attempt
        BY <2>3, <2>9, <3>1
      <4>2. attempt[c] \in 0..MaxRetries /\ attempt[c] # MaxRetries
        BY <2>8, <4>1
      <4>3. attempt[c] < MaxRetries
        BY <4>2, AttemptLeft
      <4> QED
        BY <3>1, <4>1, <4>3
    <3>2. CASE d # c
      BY <2>3, <2>6, <2>9, <3>2
    <3> QED
      BY <3>1, <3>2
  <2> QED
    BY <2>2, <2>3, <2>4, <2>5, <2>7, <2>9 DEF TypeOK, SlotIsUsed
<1>6. ASSUME NEW c \in Calls, Retry(c) PROVE CircuitInv'
  <2>1. attempt[c] \in 0..MaxRetries /\ attempt[c] < MaxRetries
    BY <1>6 DEF Retry, TypeOK
  <2>2. attempt' = [attempt EXCEPT ![c] = attempt[c] + 1] /\ attempt[c] + 1 \in 0..MaxRetries
    BY <1>6, <2>1 DEF Retry
  <2>3. attempt' \in [Calls -> 0..MaxRetries]
    BY <2>2 DEF TypeOK
  <2>4. pc' = [pc EXCEPT ![c] = "waiting"] /\ pc[c] = "backoff" /\ UNCHANGED <<circuit, aborted, probing, partial>>
    BY <1>6 DEF Retry
  <2>5. \A d \in Calls \ {c} : attempt'[d] = attempt[d] /\ pc'[d] = pc[d]
    BY <2>2, <2>4 DEF TypeOK
  <2>6. RetriesLeft'
    BY <2>4, <2>5 DEF TypeOK
  <2>7. TypeOK' /\ SlotIsUsed'
    BY <2>3, <2>4 DEF TypeOK, SlotIsUsed
  <2> QED
    BY <2>6, <2>7
<1>7. ASSUME NEW c \in Calls, Abort(c) PROVE CircuitInv'
  BY <1>7, MarkedFree DEF Abort, TypeOK, SlotIsUsed
<1>8. CASE UNCHANGED vars
  BY <1>8 DEF vars, TypeOK, SlotIsUsed
<1> QED
  BY <1>1, <1>2, <1>3, <1>4, <1>5, <1>6, <1>7, <1>8 DEF Next

(* markTransientFailure, markSuccess: the slot is never taken for ever.    *)
THEOREM SlotIsFreed == Spec => []SlotIsUsed
<1>1. CircuitInv => SlotIsUsed
  BY DEF CircuitInv
<1> QED
  BY <1>1, InitCircuit, StepCircuit, PTL DEF Spec

-----------------------------------------------------------------------------
(* Text of a failed attempt stays only with requests that have failed.     *)
TextGone == \A c \in partial : pc[c] = "failed"

LEMMA StepText ==
    ASSUME TurnStreams = {}, CircuitInv, TextGone, [Next]_vars
    PROVE  TextGone'
<1> USE DEF CircuitInv
<1>1. CASE Elapse \/ UNCHANGED vars
  BY <1>1 DEF Elapse, vars, TextGone
<1>2. ASSUME NEW c \in Calls, Request(c) \/ Proceed(c) \/ Succeed(c) \/ Retry(c) PROVE TextGone'
  <2>1. pc[c] # "failed" /\ partial' = partial
    BY <1>2 DEF Request, Proceed, Succeed, Retry
  <2>2. \A d \in Calls \ {c} : pc'[d] = pc[d]
    BY <1>2 DEF Request, Proceed, Succeed, Retry, TypeOK
  <2> QED
    BY <2>1, <2>2, CircuitAssumption DEF TextGone, TypeOK
<1>3. ASSUME NEW c \in Calls, Fail(c) PROVE TextGone'
  <2>1. PICK error \in {"rate limit", "transient", "fatal"}, text \in {partial, partial \cup {c}} :
            /\ text \subseteq Streams
            /\ partial' \in {text, text \ {c}}
            /\ \/ pc' = [pc EXCEPT ![c] = "failed"]
               \/ partial' = AfterReset(c, text)
    BY <1>3 DEF Fail, AfterReset
  <2>2. pc[c] = "calling" /\ c \notin partial /\ \A d \in Calls \ {c} : pc'[d] = pc[d]
    BY <1>3 DEF Fail, TextGone, TypeOK
  <2>3. \A d \in partial' \ {c} : d \in Calls /\ pc'[d] = "failed"
    BY <2>1, <2>2, CircuitAssumption DEF TextGone
  <2>4. pc'[c] = "failed" \/ c \notin partial'
    BY <2>1 DEF AfterReset, TypeOK
  <2> QED
    BY <2>3, <2>4 DEF TextGone
<1>4. ASSUME NEW c \in Calls, Abort(c) PROVE TextGone'
  <2>1. partial' = partial /\ (pc' = pc \/ pc' = [pc EXCEPT ![c] = "failed"])
    BY <1>4 DEF Abort
  <2>2. \A d \in Calls : pc[d] = "failed" => pc'[d] = "failed"
    BY <2>1 DEF TypeOK
  <2>3. \A d \in partial : d \in Calls
    BY CircuitAssumption DEF TypeOK
  <2> QED
    BY <2>1, <2>2, <2>3 DEF TextGone
<1> QED
  BY <1>1, <1>2, <1>3, <1>4 DEF Next

(* completeStream: a retry never streams on top of the text of an earlier  *)
(* attempt, when no request streams through completeTurnStream.            *)
THEOREM StreamsRestart == ASSUME TurnStreams = {} PROVE Spec => []RetriesStartClean
<1>1. Init => TextGone
  BY DEF Init, TextGone
<1>2. CircuitInv /\ TextGone /\ [Next]_vars => TextGone'
  BY StepText
<1>3. TextGone => RetriesStartClean
  BY DEF TextGone, RetriesStartClean
<1> QED
  BY <1>1, <1>2, <1>3, InitCircuit, StepCircuit, PTL DEF Spec
=============================================================================
