----------------------------- MODULE PilotAudit -----------------------------
(***************************************************************************)
(* What the readers of a pilot trial's directory conclude from what is on  *)
(* disk, at any moment and after any crash: inspect_trial, which diagnoses *)
(* a prefix of the journal, and audit_export, which plays the exported     *)
(* record through an engine of its own and compares.  Neither writes.      *)
(***************************************************************************)
EXTENDS Pilot, SequencesExt

(* inspect_trial                                                           *)

Allowed ==
    [none |-> {"trial_started"},
     trial_started |-> {"provider_intent", "observation_error", "trial_finished"},
     provider_intent |-> {"provider_result"},
     provider_result |-> {"engine_intent", "decision_finished"},
     engine_intent |-> {"engine_receipt", "engine_error"},
     engine_receipt |-> {"decision_finished"},
     engine_error |-> {"decision_finished"},
     observation_error |-> {"decision_finished"},
     decision_finished |-> {"provider_intent", "observation_error", "trial_finished"},
     trial_finished |-> {}]

KindBefore(i) == IF i = 1 THEN "none" ELSE journal[i - 1].kind

InPhaseOrder == \A i \in DOMAIN journal : journal[i].kind \in Allowed[KindBefore(i)]

\* Established by the rows, whatever became of the rest.
InfrastructureFailure ==
    \E i \in DOMAIN journal :
        \/ journal[i].kind \in {"observation_error", "engine_error"}
        \/ journal[i].kind = "provider_result" /\ journal[i].failure = "INFRASTRUCTURE_FAILURE"

LastKind == IF journal = <<>> THEN "none" ELSE journal[Len(journal)].kind

\* snapshot_linked, and a journal read to its end.
Linked ==
    /\ snapshot.status = "PRESENT"
    /\ InPhaseOrder
    /\ LastKind = "trial_finished"
    /\ journal[Len(journal)].record = snapshot.record

InspectedInterrupted == ~(Linked /\ ~torn)
-----------------------------------------------------------------------------
(* reconstruct                                                             *)

NoStop == "NONE"

\* Where the reconstruction begins.
Begun ==
    [ok |-> TRUE, stop |-> NoStop, time |-> 0, failures |-> 0, calls |-> 0, decided |-> 0,
     journal |-> <<[kind |-> "trial_started"]>>]

\* The refusal of the decision's action, an action there is.
Refusal(s, d) ==
    IF d.outcome.failure # NoFailure THEN NoFailure
    ELSE IF d.protocol_failure = "WALL_TIMEOUT" THEN "WALL_TIMEOUT"
    ELSE Precheck(s.time, d.outcome)

Executes(s, d) == d.outcome.failure = NoFailure /\ Refusal(s, d) = NoFailure

TimeAfter(s, d) == IF Executes(s, d) THEN s.time + d.outcome.duration ELSE s.time

StalledAfter(s, d) == IF TimeAfter(s, d) = s.time THEN s.failures + 1 ELSE 0

\* What the decision must say, when the auditor's engine has had its action.  An
\* observation error does not match the auditor's observation, and only a
\* ValueError of strict_json is a failure to the auditor.
Agrees(s, d) ==
    /\ s.stop = NoStop /\ s.time < EndTick
    /\ s.decided < MaxDecisions /\ s.calls < MaxCalls
    /\ d.tick = s.time
    /\ d.outcome # NoOutcome /\ d.outcome.failure # "PARSER_ERROR"
    /\ d.failure = d.outcome.failure
    /\ d.protocol_failure = Refusal(s, d)
    /\ d.turn_failure = IF d.outcome.failure # NoFailure THEN "CONTROLLER_ERROR"
                        ELSE IF Refusal(s, d) # NoFailure THEN "SUBMISSION_ERROR"
                        ELSE NoFailure
    /\ d.receipt = IF Executes(s, d) THEN d.outcome.status ELSE NoReceipt

StopsAt(s, d) ==
    IF d.outcome.failure = "INFRASTRUCTURE_FAILURE" THEN "INFRASTRUCTURE_FAILURE"
    ELSE IF Refusal(s, d) # NoFailure THEN Refusal(s, d)
    ELSE IF StalledAfter(s, d) >= MaxFailures THEN "CONSECUTIVE_FAILURES"
    ELSE NoStop

\* The rows the journal must hold for the decision.
RowsOf(s, d) ==
    <<[kind |-> "provider_intent"],
      [kind |-> "provider_result", failure |-> d.outcome.failure]>>
    \o (IF Executes(s, d)
        THEN <<[kind |-> "engine_intent", action |-> d.outcome],
               [kind |-> "engine_receipt", receipt |-> d.outcome.status]>>
        ELSE <<>>)
    \o <<[kind |-> "decision_finished", decision |-> d, tick |-> TimeAfter(s, d)]>>

Replayed(s, d) ==
    [ok |-> s.ok /\ Agrees(s, d), stop |-> StopsAt(s, d), time |-> TimeAfter(s, d),
     failures |-> StalledAfter(s, d), calls |-> s.calls + 1, decided |-> s.decided + 1,
     journal |-> s.journal \o RowsOf(s, d)]

\* The stop reason of a loop that no decision ended.
LoopStop(s) ==
    IF s.time = EndTick THEN "HORIZON"
    ELSE IF s.decided >= MaxDecisions THEN "MAX_DECISIONS"
    ELSE IF s.calls >= MaxCalls THEN "MAX_PROVIDER_CALLS"
    ELSE "WALL_TIMEOUT"

\* The clock cannot be replayed: a claimed timeout needs evidence, and then
\* stands in for any bound it may have preceded.
StopAgrees(stopped, record) ==
    IF record.stop_reason = "WALL_TIMEOUT"
    THEN record.late /\ stopped \in {"WALL_TIMEOUT", "MAX_DECISIONS", "MAX_PROVIDER_CALLS"}
    ELSE stopped # "WALL_TIMEOUT" /\ stopped = record.stop_reason

Reconstructs(record, rows) ==
    LET s == FoldLeft(Replayed, Begun, record.decisions)
        stopped == IF s.stop = NoStop THEN LoopStop(s) ELSE s.stop
    IN  /\ s.ok
        /\ StopAgrees(stopped, record)
        /\ record.simulation_end = s.time
        /\ rows = s.journal \o <<[kind |-> "trial_finished", record |-> record]>>

\* audit_export: integrity_status is VERIFIED.
Verified ==
    /\ snapshot.status = "PRESENT"
    /\ ~torn
    /\ Reconstructs(snapshot.record, journal)

SystemFailure(d) ==
    d.failure \in {"INFRASTRUCTURE_FAILURE", "OBSERVATION_UNAVAILABLE", "ENGINE_ERROR"}

Responded(d) == d.outcome.failure \notin {"OBSERVATION_UNAVAILABLE", "INFRASTRUCTURE_FAILURE"}

\* Fault: an infrastructure failure takes the whole trial out.
InDenominatorUnlessSystem(record) ==
    /\ Verified
    /\ \A i \in DOMAIN record.decisions : ~SystemFailure(record.decisions[i])

\* admission: behavioral_denominator of a record.
InDenominator(record) ==
    /\ Verified
    /\ \/ \A i \in DOMAIN record.decisions : ~SystemFailure(record.decisions[i])
       \/ \E i \in DOMAIN record.decisions : Responded(record.decisions[i])
-----------------------------------------------------------------------------
(* Properties                                                              *)

Failures == Behavioural \union {NoFailure, "INFRASTRUCTURE_FAILURE", "OBSERVATION_UNAVAILABLE",
                                "ENGINE_ERROR"}
Results == Transported \union {"OBSERVATION_UNAVAILABLE"}
Refusals == {NoFailure, "WALL_TIMEOUT", "HORIZON_ACTION"}
TurnFailures == {NoFailure, "OBSERVATION_UNAVAILABLE", "CONTROLLER_ERROR", "SUBMISSION_ERROR"}
Stops == {NoStop, "HORIZON", "WALL_TIMEOUT", "MAX_DECISIONS", "MAX_PROVIDER_CALLS",
          "OBSERVATION_UNAVAILABLE", "HORIZON_ACTION", "ENGINE_ERROR",
          "INFRASTRUCTURE_FAILURE", "CONSECUTIVE_FAILURES"}
Answers == Outcomes \union {NoOutcome}

Decisions ==
    [tick : 0..EndTick, outcome : Answers, failure : Failures, turn_failure : TurnFailures,
     protocol_failure : Refusals, receipt : Statuses \union {NoReceipt}]

Records ==
    [stop_reason : Stops, decisions : Seq(Decisions), simulation_end : 0..EndTick,
     late : BOOLEAN] \union {NoData}

Rows ==
    [kind : {"trial_started", "observation_error", "provider_intent", "engine_error"}]
    \union [kind : {"provider_result"}, failure : Results]
    \union [kind : {"engine_intent"}, action : Answers]
    \union [kind : {"engine_receipt"}, receipt : Statuses \union {NoReceipt}]
    \union [kind : {"decision_finished"}, decision : Decisions, tick : 0..EndTick]
    \union [kind : {"trial_finished"}, record : Records]

Steps == {"head", "send", "parse", "submit", "engine", "conclude", "seal", "snapshot"}

\* The bounds of the policy hold for what is counted, also in the turn that
\* reaches them.
TypeOK ==
    /\ journal \in Seq(Rows) /\ torn \in BOOLEAN
    /\ snapshot \in [status : {"MISSING", "INVALID"}]
                    \union [status : {"PRESENT"}, record : Records]
    /\ failed \in BOOLEAN /\ late \in BOOLEAN
    /\ time \in 0..EndTick /\ before \in 0..EndTick
    /\ decisions \in Seq(Decisions) /\ Len(decisions) <= MaxDecisions
    /\ calls \in 0..MaxCalls /\ failures \in 0..MaxFailures
    /\ stop \in Stops
    /\ turn \in [outcome : Answers, failure_code : TurnFailures, refusal : Refusals,
                 receipt : Statuses \union {NoReceipt}]
    /\ data \in Records
    /\ pc \in Kinds \union Steps \union {"done", "raised", "crashed"}
    /\ sent \in Nat /\ entered \in Nat

Count(rows, kind) == Cardinality({i \in DOMAIN rows : rows[i].kind = kind})

\* Whatever is interrupted where, inspect_trial accepts the phase order of what
\* the runner left on disk: a failure or a crash is never taken for corruption.
PrefixAccepted == InPhaseOrder

\* The journal is written ahead.  On disk there is an intent for every request
\* that went out and for every action the engine was given, and at most one of
\* each without its answer: an intent without a result is indeterminate, a
\* result or a receipt without its intent is impossible.
IntentsCoverEffects ==
    /\ sent <= Count(journal, "provider_intent") /\ Count(journal, "provider_intent") <= sent + 1
    /\ entered <= Count(journal, "engine_intent") /\ Count(journal, "engine_intent") <= entered + 1
    /\ Count(journal, "provider_result") \in (sent - 1)..sent
    /\ Count(journal, "engine_receipt") + Count(journal, "engine_error") \in (entered - 1)..entered

\* At every moment, and so after every crash, the disk holds a legal prefix that
\* tells of everything that went out.
WriteAhead == PrefixAccepted /\ IntentsCoverEffects

\* "A sticky persistence failure prevents another decision": once an append has
\* failed nothing is sent, executed or appended, not even by the turn that is
\* under way in the controller.
NothingAfterLoss == [][failed => UNCHANGED <<journal, sent, entered, time>>]_vars

\* "Recording failure stops execution"; apart from that and a crash, evidence of
\* a failed observation, engine or transport is on disk when the decision is
\* made, and there is no such evidence without one.
EvidenceKept ==
    /\ (\E i \in DOMAIN decisions : SystemFailure(decisions[i])) => InfrastructureFailure
    /\ InfrastructureFailure =>
        \/ SystemFailure(Decision)
        \/ \E i \in DOMAIN decisions : SystemFailure(decisions[i])

\* The horizon is where the protocol ends: no action passes it, though its
\* handler's duration is not known to the model that asks for it, and a trial
\* says HORIZON exactly when its time is up, unless the engine failed then.
HorizonRespected ==
    /\ time <= EndTick
    /\ data # NoData =>
        (data.stop_reason = "HORIZON") =
            (data.simulation_end = EndTick /\ data.stop_reason # "ENGINE_ERROR")

\* The runner decides with several stop conditions true at once and from live
\* state; the auditor repeats it from the record, where the clock and the
\* failures of the system cannot be replayed.  A finished trial without a
\* failed observation or engine is verified, whatever stopped it and whatever
\* the model answered that the parser can take or refuse.
AuditAgrees ==
    pc = "done" /\ (\A i \in DOMAIN decisions :
                        /\ decisions[i].failure \notin {"OBSERVATION_UNAVAILABLE", "ENGINE_ERROR"}
                        /\ decisions[i].outcome.failure # "PARSER_ERROR")
        => Verified

\* "Refusal, incomplete output, parser/schema failure, invalid actions ... are
\* behavioral outcomes.  They remain in the denominator when their evidence is
\* verified", and the evidence of an undisturbed trial is complete.  So a trial
\* that ends with nothing but behaviour in it counts.
BehaviourCounts ==
    pc = "done" /\ (\A i \in DOMAIN decisions :
                        decisions[i].failure \in Behavioural \union {NoFailure})
        => InDenominator(snapshot.record)

\* What is verified is all that happened: as many requests went out as the
\* record has decisions, as many actions were executed as it has receipts, none
\* of them by a failing engine, and the inspection agrees that nothing was
\* interrupted.
VerifiedIsAll ==
    Verified =>
        LET recorded == snapshot.record.decisions IN
        /\ recorded = decisions
        /\ sent = Len(recorded)
        /\ entered = Cardinality({i \in DOMAIN recorded : recorded[i].receipt # NoReceipt})
        /\ snapshot.record.simulation_end = time
        /\ \A i \in DOMAIN recorded :
            recorded[i].failure \notin {"OBSERVATION_UNAVAILABLE", "ENGINE_ERROR"}

\* The evidence on disk is neither less than what happened, so that a failure
\* could pass for none, nor, once verified, anything else than all of it.
EvidenceIsWhole == EvidenceKept /\ VerifiedIsAll

\* inspect_trial says that a trial was interrupted exactly when its record is
\* not certainly complete; the audit is never more trusting.
InterruptionTold ==
    /\ pc = "done" => ~InspectedInterrupted
    /\ ~InspectedInterrupted => snapshot.record = data
    /\ Verified => ~InspectedInterrupted

\* How a trial came to its end is told as it was: cut off or complete, and at the
\* horizon or before it.
EndIsTold == InterruptionTold /\ HorizonRespected

\* "If an earlier response was obtained, even refusal or invalid JSON, a later
\* transport failure does not remove that verified responded trial from the
\* denominator": out are only those that asked and were never answered.
Answered == \E i \in DOMAIN journal :
    journal[i].kind = "provider_result" /\ journal[i].failure # "INFRASTRUCTURE_FAILURE"

DenominatorKeepsAnswered ==
    Verified => InDenominator(snapshot.record) = (Answered \/ sent = 0)
=============================================================================
