------------------------------ MODULE Session ------------------------------
(***************************************************************************)
(* The live game of one run: application/session.py with the observation   *)
(* history and the request contract.  Actors observe and submit through    *)
(* ports bound to them; the session decides what may reach the engine,     *)
(* gives every request identity at most one execution, answers repeated    *)
(* submissions from its cache and keeps a trace of every attempt.          *)
(*                                                                         *)
(* The engine is used through the contract of Engine.tla, which Kernel.tla *)
(* implements.  One action is the code between two callbacks: observation  *)
(* contributors, knowledge projectors, and whatever the engine calls.      *)
(***************************************************************************)
EXTENDS Engine, FiniteSets

CONSTANTS Actors,           \* entities with a port
          OwnRun,           \* manifest.run_id
          MaxObservations,  \* how many observations the run records
          MaxAttempts       \* how many submissions the run traces

\* A request: its identity and what authority and routing look at.
\* run_id, actor_id and based_on are what the request claims.
Kinds == {"DOMAIN", "ASK", "INFORM"}

ASSUME SessionAssumption ==
    /\ MaxTime \in Nat /\ StartTime \in 0..MaxTime
    /\ MaxObservations \in Nat /\ MaxAttempts \in Nat
    /\ NoRequest \notin Requests
    /\ "nobody" \notin Actors
    /\ \A r \in Requests :
        /\ DOMAIN r = {"id", "run", "actor", "based_on", "submitted_at", "kind"}
        /\ r.actor \in Actors /\ r.based_on \in Nat /\ r.kind \in Kinds
        /\ r.submitted_at \in 0..MaxTime

VARIABLES requests,         \* _requests: the entry of every reserved identity
          traces,           \* _traces
          observations,     \* ObservationHistory._records
          busy              \* _busy

\* The Python stack of the port call in progress.
VARIABLES pc,               \* where control is
          caller,           \* the actor the port is bound to
          request,          \* the request being executed
          moment,           \* context.simulation_time of the running observe
          offset            \* result_offset of the running _execute

\* What the outside has seen; the code does not keep it.
VARIABLES shown             \* the last receipt each port returned to its actor

session == <<requests, traces, observations, busy, shown>>
stack == <<pc, caller, request, moment, offset>>
vars == <<engine, session, stack>>

Ids == {r.id : r \in Requests}
NoActor == "nobody"
NoEntry == [actor |-> NoActor]
NoReceipt == [status |-> "NONE"]
NoResult == [status |-> "NONE"]

Original == 0               \* retry_of_attempt of a first attempt

DenialReasons == {"WRONG_RUN", "WRONG_ACTOR", "UNKNOWN_OBSERVATION",
                  "UNAUTHORIZED_OBSERVATION", "INVALID_SUBMISSION_TIME",
                  "CONTENT_DENIED"}
Reasons == DenialReasons \union {"REQUEST_ID_CONFLICT", "UNKNOWN_ACTION", "RESOLVED"}
-----------------------------------------------------------------------------
Init ==
    /\ EngineInit
    /\ requests = [id \in Ids |-> NoEntry]
    /\ traces = <<>> /\ observations = <<>>
    /\ busy = FALSE
    /\ shown = [a \in Actors |-> NoReceipt]
    /\ pc = "idle" /\ caller = NoActor /\ request = NoRequest
    /\ moment = 0 /\ offset = 0

Enter == ~busy /\ phase = "RUNNING"

\* The port call ends and its frame is popped.
Leave ==
    /\ busy' = FALSE
    /\ pc' = "idle" /\ caller' = NoActor /\ request' = NoRequest
    /\ moment' = 0 /\ offset' = 0

Receipt(a, r, status, reason, resolved) ==
    [id |-> r.id, actor |-> a, status |-> status, reason |-> reason,
     resolved |-> resolved]

\* _receipt: a denial, at the present time.
Denial(a, r, reason) == Receipt(a, r, "REJECTED", reason, time)

\* _public_result: the actor-visible part of an engine result.
PublicResult(a, r, result) == Receipt(a, r, result.status, "RESOLVED", result.resolved)

Trace(r, result, receipt, submitted, retryOf) ==
    [request |-> r, result |-> result, receipt |-> receipt,
     engine_submitted |-> submitted, retry_of |-> retryOf]

Traced(trace) == traces' = Append(traces, trace)

Show(a, receipt) == shown' = [shown EXCEPT ![a] = receipt]

Entry(a, r, attempt, receipt) ==
    [actor |-> a, fingerprint |-> r, attempt |-> attempt, receipt |-> receipt]

SetEntry(id, entry) == requests' = [requests EXCEPT ![id] = entry]
-----------------------------------------------------------------------------
(* _observe                                                                *)

\* Fault: whose receipt it is goes unchecked.
LastReceiptOfAnyone(a) ==
    LET given == {i \in DOMAIN traces : traces[i].receipt # NoReceipt}
    IN  IF given = {} THEN NoReceipt
        ELSE traces[CHOOSE i \in given : \A j \in given : j <= i].receipt

\* include_last_receipt: the receipt of the latest trace that gave the actor one.
LastReceipt(a) ==
    LET own == {i \in DOMAIN traces : /\ traces[i].receipt # NoReceipt
                                      /\ traces[i].receipt.actor = a}
    IN  IF own = {} THEN NoReceipt
        ELSE traces[CHOOSE i \in own : \A j \in own : j <= i].receipt

BeginObserve(a) ==
    /\ Enter
    /\ Len(observations) < MaxObservations
    /\ busy' = TRUE
    /\ pc' = "observe"
    /\ caller' = a
    /\ moment' = time
    /\ UNCHANGED <<engine, requests, traces, observations, shown, request, offset>>

FinishObserve ==
    /\ pc = "observe"
    /\ observations' = Append(observations,
           [actor |-> caller, time |-> moment, last |-> LastReceipt(caller)])
    /\ Leave
    /\ UNCHANGED <<engine, requests, traces, shown>>

\* Perception, a projector or a contributor raised: OBSERVATION_UNAVAILABLE.
FailObserve ==
    /\ pc = "observe"
    /\ Leave
    /\ UNCHANGED <<engine, requests, traces, observations, shown>>
-----------------------------------------------------------------------------
(* _submit and _execute                                                    *)

\* Fault: whose observation the request cites is not looked at.
AuthorityReasonUnscoped(a, r) ==
    CASE r.run # OwnRun -> "WRONG_RUN"
      [] r.run = OwnRun /\ r.actor # a -> "WRONG_ACTOR"
      [] r.run = OwnRun /\ r.actor = a /\ r.based_on \notin DOMAIN observations ->
            "UNKNOWN_OBSERVATION"
      [] OTHER -> IF r.submitted_at # time THEN "INVALID_SUBMISSION_TIME" ELSE "NONE"

AuthorityReason(a, r) ==
    IF r.run # OwnRun THEN "WRONG_RUN"
    ELSE IF r.actor # a THEN "WRONG_ACTOR"
    ELSE IF r.based_on \notin DOMAIN observations THEN "UNKNOWN_OBSERVATION"
    ELSE IF observations[r.based_on].actor # a THEN "UNAUTHORIZED_OBSERVATION"
    ELSE IF r.submitted_at # time THEN "INVALID_SUBMISSION_TIME"
    ELSE "NONE"

Submission == Enter /\ Len(traces) < MaxAttempts

Matches(a, r) ==
    requests[r.id].actor = a /\ requests[r.id].fingerprint = r

SubmitConflicting(a, r) ==
    /\ Submission
    /\ requests[r.id] # NoEntry
    /\ ~Matches(a, r)
    /\ LET visible == Denial(a, r, "REQUEST_ID_CONFLICT") IN
        /\ Traced(Trace(r, NoResult, visible, FALSE, requests[r.id].attempt))
        /\ Show(a, visible)
    /\ UNCHANGED <<engine, requests, observations, busy, stack>>

\* An exact retry: the cached receipt, or the stored error code again.
SubmitAgain(a, r) ==
    /\ Submission
    /\ requests[r.id] # NoEntry
    /\ Matches(a, r)
    /\ LET previous == requests[r.id] IN
        /\ Traced(Trace(r, NoResult, previous.receipt, FALSE, previous.attempt))
        /\ IF previous.receipt # NoReceipt
           THEN Show(a, previous.receipt)
           ELSE UNCHANGED shown
    /\ UNCHANGED <<engine, requests, observations, busy, stack>>

SubmitDenied(a, r) ==
    /\ Submission
    /\ requests[r.id] = NoEntry
    /\ AuthorityReason(a, r) # "NONE"
    /\ LET visible == Denial(a, r, AuthorityReason(a, r)) IN
        /\ SetEntry(r.id, Entry(a, r, Len(traces) + 1, visible))
        /\ Traced(Trace(r, NoResult, visible, FALSE, Original))
        /\ Show(a, visible)
    /\ UNCHANGED <<engine, observations, busy, stack>>

\* The identity is reserved before knowledge is read or the engine entered.
SubmitFresh(a, r) ==
    /\ Submission
    /\ requests[r.id] = NoEntry
    /\ AuthorityReason(a, r) = "NONE"
    /\ SetEntry(r.id, Entry(a, r, Len(traces) + 1, NoReceipt))
    /\ busy' = TRUE
    /\ pc' = "check" /\ caller' = a /\ request' = r
    /\ UNCHANGED <<engine, traces, observations, shown, moment, offset>>

\* The submission ends with a receipt, which the entry keeps.
Answer(result, visible, submitted) ==
    /\ Traced(Trace(request, result, visible, submitted, Original))
    /\ requests' = [requests EXCEPT ![request.id].receipt = visible]
    /\ Show(caller, visible)
    /\ Leave
    /\ UNCHANGED observations

\* A social payload, or the claim of an INFORM, is denied.
DenyContent ==
    /\ pc = "check"
    /\ request.kind # "DOMAIN"
    /\ Answer(NoResult, Denial(caller, request, "CONTENT_DENIED"), FALSE)
    /\ UNCHANGED engine

\* Fault: the guard of the port stays taken when the submission raises.
FailKnowledgeBusy ==
    /\ pc = "check"
    /\ request.kind = "INFORM"
    /\ Traced(Trace(request, NoResult, NoReceipt, FALSE, Original))
    /\ SetEntry(request.id, NoEntry)
    /\ pc' = "idle" /\ caller' = NoActor /\ request' = NoRequest
    /\ moment' = 0 /\ offset' = 0
    /\ UNCHANGED <<engine, observations, busy, shown>>

\* Knowledge or the claim cannot be read: KNOWLEDGE_UNAVAILABLE, and the
\* reservation is given up, since the engine was never entered.
FailKnowledge ==
    /\ pc = "check"
    /\ request.kind = "INFORM"
    /\ Traced(Trace(request, NoResult, NoReceipt, FALSE, Original))
    /\ SetEntry(request.id, NoEntry)
    /\ Leave
    /\ UNCHANGED <<engine, observations, shown>>

EnterEngine ==
    /\ pc = "check"
    /\ offset' = Len(record)
    /\ Accept(request)
    /\ pc' = "engine"
    /\ UNCHANGED <<session, caller, request, moment>>

RunEngine ==
    /\ pc = "engine"
    /\ Elapse \/ Settle
    /\ UNCHANGED <<session, stack>>

EngineReturns ==
    /\ pc = "engine"
    /\ Finish \/ Decline
    /\ LET result == record'[Len(record')] IN
        Answer(result, PublicResult(caller, request, result), TRUE)

\* ActionHandlerNotFoundError: no handler for the type and version.
UnknownAction ==
    /\ pc = "engine"
    /\ ~settled
    /\ Raise
    /\ Answer(NoResult, Denial(caller, request, "UNKNOWN_ACTION"), TRUE)

\* Fault: the receipt of a committed action is not kept for a retry.
EngineFailsForgetting ==
    /\ pc = "engine"
    /\ Raise
    /\ LET committed == IF Len(record) > offset THEN record[offset + 1] ELSE NoResult IN
        Traced(Trace(request, committed, NoReceipt, TRUE, Original))
    /\ Leave
    /\ UNCHANGED <<requests, observations, shown>>

\* Fault: the reservation is given up although the engine was entered.
EngineFailsReleasing ==
    /\ pc = "engine"
    /\ Raise
    /\ LET committed == IF Len(record) > offset THEN record[offset + 1] ELSE NoResult IN
        /\ Traced(Trace(request, committed, NoReceipt, TRUE, Original))
        /\ IF committed # NoResult
           THEN requests' = [requests EXCEPT ![request.id].receipt =
                                 PublicResult(caller, request, committed)]
           ELSE SetEntry(request.id, NoEntry)
    /\ Leave
    /\ UNCHANGED <<observations, shown>>

\* ENGINE_ERROR: a result recorded since the offset was committed by this call
\* and becomes the receipt of a later retry; without one the identity stays
\* reserved with no receipt, and is never executed again.
EngineFails ==
    /\ pc = "engine"
    /\ Raise
    /\ LET committed == IF Len(record) > offset THEN record[offset + 1] ELSE NoResult IN
        /\ Traced(Trace(request, committed, NoReceipt, TRUE, Original))
        /\ IF committed # NoResult
           THEN requests' = [requests EXCEPT ![request.id].receipt =
                                 PublicResult(caller, request, committed)]
           ELSE UNCHANGED requests
    /\ Leave
    /\ UNCHANGED <<observations, shown>>
-----------------------------------------------------------------------------
\* The owner of the kernel boots, advances and closes it between port calls.
Owner ==
    /\ pc = "idle"
    /\ Boot \/ Close \/ Advance
    /\ UNCHANGED <<session, stack>>

Ports ==
    \/ \E a \in Actors : BeginObserve(a)
    \/ \E a \in Actors, r \in Requests :
        \/ SubmitConflicting(a, r) \/ SubmitAgain(a, r)
        \/ SubmitDenied(a, r) \/ SubmitFresh(a, r)

Observing == FinishObserve \/ FailObserve

Executing ==
    \/ DenyContent \/ FailKnowledge \/ EnterEngine
    \/ RunEngine \/ EngineReturns \/ UnknownAction \/ EngineFails

Next == Owner \/ Ports \/ Observing \/ Executing

Spec == Init /\ [][Next]_vars

\* Callbacks return or raise, and so does the engine: a call of the kernel
\* ends (Kernel.tla, CallsReturn).
FairSpec ==
    /\ Spec
    /\ WF_vars(Observing)
    /\ WF_vars(DenyContent \/ FailKnowledge \/ EnterEngine)
    /\ WF_vars(EngineReturns \/ UnknownAction \/ EngineFails)
-----------------------------------------------------------------------------
(* Properties                                                              *)

Receipts ==
    [id : Ids, actor : Actors, status : Statuses, reason : Reasons, resolved : 0..MaxTime]
Results == [request : Requests, status : Statuses, resolved : 0..MaxTime]
Traces ==
    [request : Requests, result : Results \union {NoResult},
     receipt : Receipts \union {NoReceipt}, engine_submitted : BOOLEAN, retry_of : Nat]
Entries ==
    [actor : Actors, fingerprint : Requests, attempt : Nat,
     receipt : Receipts \union {NoReceipt}]
Observations ==
    [actor : Actors, time : 0..MaxTime, last : Receipts \union {NoReceipt}]

\* The types of the engine's, the session's and the running call's state.
TypeOK ==
    /\ phase \in {"CREATED", "RUNNING", "CLOSED"} /\ time \in 0..MaxTime
    /\ record \in Seq(Results) /\ call \in Requests \union {NoRequest}
    /\ settled \in BOOLEAN /\ answer \in {"none", "returned", "raised"}
    /\ requests \in [Ids -> Entries \union {NoEntry}]
    /\ traces \in Seq(Traces)
    /\ observations \in Seq(Observations)
    /\ busy \in BOOLEAN
    /\ shown \in [Actors -> Receipts \union {NoReceipt}]
    /\ pc \in {"idle", "observe", "check", "engine"}
    /\ caller \in Actors \union {NoActor}
    /\ request \in Requests \union {NoRequest}
    /\ moment \in 0..MaxTime /\ offset \in Nat

\* A request identity reaches the engine at most once, whatever is retried,
\* raised or released on the way: at most one traced attempt entered it, and
\* no two results carry one identity.
ExecutedOnce ==
    /\ \A i, j \in DOMAIN traces :
        /\ traces[i].engine_submitted /\ traces[j].engine_submitted
        /\ traces[i].request.id = traces[j].request.id
        => i = j
    /\ \A i, j \in DOMAIN record :
        record[i].request.id = record[j].request.id => i = j

\* The i-th attempt is the one that entered the engine for its k-th result.
Shows(i, k) ==
    /\ traces[i].engine_submitted
    /\ traces[i].result = record[k] /\ traces[i].request = record[k].request

\* The attempts that entered the engine and have a result are the engine's
\* action stream, one by one and in its order: what a replay is fed with.
EngineStreamTraced ==
    pc = "idle" =>
        /\ \A k \in DOMAIN record : \E i \in DOMAIN traces : Shows(i, k)
        /\ \A i \in DOMAIN traces :
            traces[i].engine_submitted /\ traces[i].result # NoResult =>
                \E k \in DOMAIN record : Shows(i, k)
        /\ \A i, j \in DOMAIN traces, k, l \in DOMAIN record :
            Shows(i, k) /\ Shows(j, l) => (i < j <=> k < l)

\* Every result of the engine can be asked for: once the call is over, also one
\* that raised after its action committed, an exact retry returns its receipt.
ResultsRecoverable ==
    pc = "idle" =>
        \A i \in DOMAIN record :
            LET entry == requests[record[i].request.id] IN
            /\ entry # NoEntry
            /\ entry.fingerprint = record[i].request
            /\ entry.receipt = PublicResult(entry.actor, record[i].request, record[i])

\* Nothing that committed is forgotten by the calls that raised around it: it
\* is in the trace for a replay and in the reservation for a retry.
CommitsKept == EngineStreamTraced /\ ResultsRecoverable

\* A request that was answered is answered alike ever after, whatever else was
\* submitted under its identity in between and from whichever port; only being
\* told of a conflict is not an answer, since the reservation may be given up.
AnsweredAlike ==
    \A i, j \in DOMAIN traces :
        LET p == traces[i].receipt
            q == traces[j].receipt
        IN  /\ i < j /\ traces[i].request = traces[j].request
            /\ p # NoReceipt /\ q # NoReceipt
            /\ p.actor = q.actor
            /\ p.reason # "REQUEST_ID_CONFLICT"
            => p = q

\* A retry or a conflict names the earlier attempt that reserved the identity,
\* itself neither a retry nor a conflict.
RetriesLinked ==
    \A i \in DOMAIN traces :
        LET k == traces[i].retry_of IN
        k # Original => /\ k \in 1..(i - 1)
                        /\ traces[k].retry_of = Original
                        /\ traces[k].request.id = traces[i].request.id

\* What was said under an identity stays said, and it stays known by which attempt.
AnswersKept == AnsweredAlike /\ RetriesLinked

\* Neither what was done nor what was said is forgotten or told differently.
NothingForgotten == CommitsKept /\ AnswersKept

\* What enters the engine is the actor's own request of this run, based on
\* what the same actor observed no later than it submitted.
EngineAuthorised ==
    \A i \in DOMAIN traces :
        traces[i].engine_submitted =>
            LET r == traces[i].request IN
            /\ r.run = OwnRun
            /\ r.based_on \in DOMAIN observations
            /\ observations[r.based_on].actor = r.actor
            /\ observations[r.based_on].time <= r.submitted_at

\* Observations are recorded in the order of their times, none in the future.
ObservationsInOrder ==
    \A i \in DOMAIN observations :
        /\ observations[i].time <= time
        /\ \A j \in 1..i : observations[j].time <= observations[i].time

\* The engine is entered on the evidence of observations, which are all made by
\* then and in the order of time, also when dispatches failed in between.
EvidenceFirst == EngineAuthorised /\ ObservationsInOrder

\* The receipt an observation repeats is the last one its actor was given, not
\* another actor's and not that of an action nobody was answered for.
LastReceiptShown ==
    [][Len(observations') > Len(observations) =>
         LET latest == observations'[Len(observations')] IN
         latest.last = shown[latest.actor]]_vars

\* Every port call ends, with its guard released on every path out of it.
PortsReturn == busy ~> ~busy
=============================================================================
