-------------------------- MODULE ProviderCircuit --------------------------
(***************************************************************************)
(* The requests that share one credential of a model provider, each        *)
(* wrapped by resilientLlm: transient failures are tried again after a     *)
(* delay, and a temporary rate limit opens a circuit for all of them.      *)
(* Once its cooldown has passed, one request probes while others wait.     *)
(*                                                                         *)
(* complete, completeTurn and completeTurnStream run in guard();           *)
(* completeStream has a loop of its own.                                   *)
(***************************************************************************)
EXTENDS Naturals

CONSTANTS
    Calls,
    Streams,        \* the calls of completeStream
    TurnStreams,    \* the calls of completeTurnStream
    MaxRetries

ASSUME CircuitAssumption ==
    Streams \subseteq Calls /\ TurnStreams \subseteq Calls /\ MaxRetries \in Nat

VARIABLES
    circuit,    \* the entry of the map cooldowns: closed when there is none
    pc, attempt,
    aborted,    \* the calls whose signal is aborted
    probing,    \* the calls in the attempt for which they took the probe's slot
    partial     \* the calls whose caller holds text of a failed attempt

vars == <<circuit, pc, attempt, aborted, probing, partial>>

Closed == [kind |-> "none", probe |-> FALSE]
Cooling == [kind |-> "cooling", probe |-> FALSE]

TypeOK ==
    /\ circuit \in [kind : {"none", "cooling", "half open"}, probe : BOOLEAN]
    /\ pc \in [Calls -> {"idle", "waiting", "calling", "backoff", "done", "failed"}]
    /\ attempt \in [Calls -> 0..MaxRetries]
    /\ aborted \in SUBSET Calls
    /\ probing \in SUBSET {c \in Calls : pc[c] = "calling"}
    /\ partial \in SUBSET (Streams \cup TurnStreams)

Init ==
    /\ circuit = Closed
    /\ pc = [c \in Calls |-> "idle"]
    /\ attempt = [c \in Calls |-> 0]
    /\ aborted = {} /\ probing = {} /\ partial = {}

-----------------------------------------------------------------------------
(* openUntil passes. *)
Elapse ==
    /\ circuit.kind = "cooling"
    /\ circuit' = [circuit EXCEPT !.kind = "half open"]
    /\ UNCHANGED <<pc, attempt, aborted, probing, partial>>

Request(c) ==
    /\ pc[c] = "idle"
    /\ pc' = [pc EXCEPT ![c] = "waiting"]
    /\ UNCHANGED <<circuit, attempt, aborted, probing, partial>>

(* waitForCircuit: a call that may not proceed sleeps and looks again. *)
Proceed(c) ==
    /\ pc[c] = "waiting"
    /\ \/ circuit.kind = "none" /\ UNCHANGED <<circuit, probing>>
       \/ /\ circuit.kind = "half open" /\ ~circuit.probe
          /\ circuit' = [circuit EXCEPT !.probe = TRUE]
          /\ probing' = probing \cup {c}
    /\ pc' = [pc EXCEPT ![c] = "calling"]
    /\ UNCHANGED <<attempt, aborted, partial>>

(* MUTANT of Succeed: the entry is kept. *)
SucceedKeeping(c) ==
    /\ pc[c] = "calling"
    /\ pc' = [pc EXCEPT ![c] = "done"]
    /\ probing' = probing \ {c}
    /\ UNCHANGED <<circuit, attempt, aborted, partial>>

(* markSuccess deletes the entry, whoever made it. *)
Succeed(c) ==
    /\ pc[c] = "calling"
    /\ pc' = [pc EXCEPT ![c] = "done"]
    /\ circuit' = Closed
    /\ probing' = probing \ {c}
    /\ UNCHANGED <<attempt, aborted, partial>>

(* MUTANT of Marked: other failures leave the slot taken. *)
MarkedByRateLimit(error) == IF error = "rate limit" THEN Cooling ELSE circuit

(* markTransientFailure, which the loops call for every error they catch. *)
Marked(error) == IF error = "rate limit" THEN Cooling ELSE [circuit EXCEPT !.probe = FALSE]

LastAttempt(c) == attempt[c] = MaxRetries

(* MUTANT of AfterReset: no reset before the retry. *)
AfterNoReset(c, text) == text

(* onStreamReset before the retry, in the loop of completeStream only. *)
AfterReset(c, text) == IF c \in Streams THEN text \ {c} ELSE text

(* An attempt fails, perhaps with text already handed to the caller; an    *)
(* aborted request fails for good.                                         *)
Fail(c) ==
    /\ pc[c] = "calling"
    /\ \E error \in {"rate limit", "transient", "fatal"}, text \in {partial, partial \cup {c}} :
        LET ends == LastAttempt(c) \/ error = "fatal"
        IN  /\ text \subseteq Streams \cup TurnStreams
            /\ circuit' = Marked(error)
            /\ partial' = IF ends THEN text ELSE AfterReset(c, text)
            /\ pc' = [pc EXCEPT ![c] = IF ends \/ c \in aborted THEN "failed" ELSE "backoff"]
    /\ probing' = probing \ {c}
    /\ UNCHANGED <<attempt, aborted>>

Retry(c) ==
    /\ pc[c] = "backoff"
    /\ pc' = [pc EXCEPT ![c] = "waiting"]
    /\ attempt' = [attempt EXCEPT ![c] = @ + 1]
    /\ UNCHANGED <<circuit, aborted, probing, partial>>

(* The caller aborts.  A sleeping call rejects at once; in completeStream  *)
(* the wait for the circuit is inside the try, so its rejection is marked  *)
(* as a failure like any other.                                            *)
Abort(c) ==
    /\ c \notin aborted /\ pc[c] \in {"waiting", "calling", "backoff"}
    /\ aborted' = aborted \cup {c}
    /\ pc' = IF pc[c] = "calling" THEN pc ELSE [pc EXCEPT ![c] = "failed"]
    /\ circuit' = IF pc[c] = "waiting" /\ c \in Streams THEN Marked("fatal") ELSE circuit
    /\ UNCHANGED <<attempt, probing, partial>>

-----------------------------------------------------------------------------
Next ==
    \/ Elapse
    \/ \E c \in Calls : Request(c) \/ Proceed(c) \/ Succeed(c) \/ Fail(c) \/ Retry(c) \/ Abort(c)

Spec == Init /\ [][Next]_vars

(* Timers fire, and the transport answers or times out. *)
FairSpec ==
    /\ Spec /\ WF_vars(Elapse)
    /\ \A c \in Calls : WF_vars(Proceed(c)) /\ WF_vars(Succeed(c) \/ Fail(c)) /\ WF_vars(Retry(c))

-----------------------------------------------------------------------------
(* The slot of the probe is never taken by nobody: somebody's attempt will *)
(* free it, and no caller spins in waitForCircuit for ever.                *)
SlotIsUsed == circuit.probe => probing # {}

(* Before an attempt the caller has discarded the text of a failed one.    *)
RetriesStartClean == \A c \in Calls : pc[c] \in {"waiting", "backoff"} => c \notin partial

(* One request at a time probes a credential after a cooldown.             *)
OneProbe == \A c, d \in probing : c = d

(* Every request ends: retries are bounded and the circuit lets it pass.   *)
RequestsEnd == \A c \in Calls : pc[c] = "waiting" ~> pc[c] \in {"done", "failed"}
=============================================================================
