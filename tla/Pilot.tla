------------------------------- MODULE Pilot -------------------------------
(***************************************************************************)
(* One trial of the memory-horizon pilot: run_mock_trial with the journal  *)
(* it writes ahead, the mock provider and the pilot controller.  Every     *)
(* append may fail, before, in the middle of or after its line; the        *)
(* process may die anywhere; observations and the engine may fail; the     *)
(* wall clock may run out between any two steps.                           *)
(*                                                                         *)
(* The disk is journal, torn and snapshot; everything else is the runner's *)
(* memory and is gone when it dies.  One action is the code between two    *)
(* calls that can fail.  What readers make of the disk is PilotAudit.tla.  *)
(***************************************************************************)
EXTENDS Integers, Sequences

CONSTANTS EndTick,          \* END_TICK
          MaxDecisions,     \* max_decisions of the termination policy
          MaxCalls,         \* max_provider_calls
          MaxFailures,      \* max_consecutive_failures
          Outcomes          \* what the model may answer

\* An answer either is a failure or asks for an action, which takes a duration
\* and ends in a status: the world, and so the engine, is deterministic.  For a
\* PARSER_ERROR strict_json does not raise ValueError: RecursionError, for text
\* nested too deeply.
Behavioural == {"REFUSAL", "INCOMPLETE_OUTPUT", "PARSER_FAILURE", "SCHEMA_INVALID"}
Transported == Behavioural \union {"NONE", "PARSER_ERROR", "INFRASTRUCTURE_FAILURE"}
Statuses == {"SUCCEEDED", "FAILED", "REJECTED"}
NoFailure == "NONE"
NoReceipt == "NONE"

ASSUME PilotAssumption ==
    /\ EndTick \in Nat
    /\ MaxDecisions \in Nat \ {0} /\ MaxCalls \in Nat \ {0} /\ MaxFailures \in Nat \ {0}
    /\ \A o \in Outcomes :
        /\ o \in [failure : Transported, duration : Nat, status : Statuses]
        /\ o.status = "REJECTED" <=> o.duration = 0

VARIABLES journal,     \* the durable complete rows of attempts.jsonl
          torn,        \* whether an unterminated record follows them
          snapshot     \* trial.json

VARIABLES failed,      \* AttemptJournal.failed
          time,        \* kernel.simulation_time
          late,        \* whether the wall clock has passed wall_timeout_seconds
          decisions, calls, failures,
          stop,        \* the stop reason, once there is one
          before,      \* the tick at which the turn began
          turn,        \* the controller turn in progress
          data,        \* the exported record, once it is sealed
          pc           \* where control is

\* What the outside has seen; the code keeps neither.
VARIABLES sent,        \* requests handed to the transport
          entered      \* actions handed to the engine

disk == <<journal, torn, snapshot>>
loop == <<decisions, calls, failures, stop>>
ghosts == <<sent, entered>>
vars == <<disk, failed, time, late, loop, before, turn, data, pc, ghosts>>

Missing == [status |-> "MISSING"]
Invalid == [status |-> "INVALID"]
Present(record) == [status |-> "PRESENT", record |-> record]

NoData == [stop_reason |-> "NONE"]
NoOutcome == [failure |-> "OBSERVATION_UNAVAILABLE", duration |-> 0, status |-> "REJECTED"]
NoTurn == [outcome |-> NoOutcome, failure_code |-> NoFailure, refusal |-> NoFailure,
           receipt |-> NoReceipt]

Init ==
    /\ journal = <<>> /\ torn = FALSE /\ snapshot = Missing
    /\ failed = FALSE /\ time = 0 /\ late = FALSE
    /\ decisions = <<>> /\ calls = 0 /\ failures = 0 /\ stop = "NONE"
    /\ before = 0 /\ turn = NoTurn /\ data = NoData
    /\ pc = "trial_started"
    /\ sent = 0 /\ entered = 0
-----------------------------------------------------------------------------
(* The journal.  While control is at a row's kind, that row is next.       *)

Kinds == {"trial_started", "observation_error", "provider_intent", "provider_result",
          "engine_intent", "engine_receipt", "engine_error", "decision_finished",
          "trial_finished"}

\* The decision record of the turn.  data["failure"] is set before strict_json is
\* called, so that it is right whatever that raises.
Failure ==
    IF turn.failure_code = "SUBMISSION_ERROR" /\ turn.refusal = NoFailure THEN "ENGINE_ERROR"
    ELSE IF turn.outcome.failure = "PARSER_ERROR" THEN "PARSER_FAILURE"
    ELSE turn.outcome.failure

Decision ==
    [tick |-> before, outcome |-> turn.outcome, failure |-> Failure,
     turn_failure |-> turn.failure_code, protocol_failure |-> turn.refusal,
     receipt |-> turn.receipt]

\* Fault: the last row's digest is taken before the record is complete.
FinishedRowEarly == [kind |-> "trial_finished", record |-> NoData]

FinishedRow == [kind |-> "trial_finished", record |-> data]

Row ==
    CASE pc = "provider_result" -> [kind |-> pc, failure |-> turn.outcome.failure]
      [] pc = "engine_intent" -> [kind |-> pc, action |-> turn.outcome]
      [] pc = "engine_receipt" -> [kind |-> pc, receipt |-> turn.receipt]
      [] pc = "decision_finished" -> [kind |-> pc, decision |-> Decision, tick |-> time]
      [] pc = "trial_finished" -> FinishedRow
      [] OTHER -> [kind |-> pc]

\* Where control goes when the row is durable.
After ==
    [trial_started |-> "head", observation_error |-> "decision_finished",
     provider_intent |-> "send", provider_result |-> "parse",
     engine_intent |-> "engine", engine_receipt |-> "decision_finished",
     engine_error |-> "decision_finished", decision_finished |-> "conclude",
     trial_finished |-> "snapshot"]

\* append: written, flushed and synced.
Record ==
    /\ pc \in Kinds
    /\ journal' = Append(journal, Row)
    /\ pc' = After[pc]
    /\ UNCHANGED <<torn, snapshot, failed, time, late, loop, before, turn, data, ghosts>>

\* What an append that does not return may leave: nothing, a part of its line
\* or all of it.
Interrupted ==
    \/ UNCHANGED <<journal, torn>>
    \/ torn' = TRUE /\ UNCHANGED journal
    \/ journal' = Append(journal, Row) /\ UNCHANGED torn

\* Fault: losing a row is taken for a failure of the controller.
RecordFailsQuietly ==
    /\ pc \in Kinds
    /\ Interrupted
    /\ failed' = TRUE
    /\ pc' = IF pc = "provider_intent" THEN "send" ELSE "raised"
    /\ UNCHANGED <<snapshot, time, late, loop, before, turn, data, ghosts>>

\* OSError.  It ends the trial at once, or, from inside the controller, when
\* the turn is over and journal.failed is found set.
RecordFails ==
    /\ pc \in Kinds
    /\ Interrupted
    /\ failed' = TRUE
    /\ pc' = "raised"
    /\ UNCHANGED <<snapshot, time, late, loop, before, turn, data, ghosts>>
-----------------------------------------------------------------------------
(* The loop                                                                *)

Bound ==
    IF late THEN "WALL_TIMEOUT"
    ELSE IF Len(decisions) >= MaxDecisions THEN "MAX_DECISIONS"
    ELSE IF calls >= MaxCalls THEN "MAX_PROVIDER_CALLS"
    ELSE "NONE"

\* The loop ends at the horizon or at a bound.
Leave ==
    /\ pc = "head"
    /\ time >= EndTick \/ Bound # "NONE"
    /\ stop' = IF time >= EndTick THEN "HORIZON" ELSE Bound
    /\ pc' = "seal"
    /\ UNCHANGED <<disk, failed, time, late, decisions, calls, failures, before, turn,
                   data, ghosts>>

\* run_controller_turn: observe, and then decide as far as its first append.
BeginTurn ==
    /\ pc = "head"
    /\ time < EndTick /\ Bound = "NONE"
    /\ before' = time
    /\ \/ /\ turn' = [NoTurn EXCEPT !.failure_code = "OBSERVATION_UNAVAILABLE"]
          /\ pc' = "observation_error"
       \/ /\ turn' = NoTurn
          /\ pc' = "provider_intent"
    /\ UNCHANGED <<disk, failed, time, late, loop, data, ghosts>>

\* The transport answers, or fails before any response.
Send ==
    /\ pc = "send"
    /\ sent' = sent + 1
    /\ \E o \in Outcomes : turn' = [turn EXCEPT !.outcome = o]
    /\ pc' = "provider_result"
    /\ UNCHANGED <<disk, failed, time, late, loop, before, data, entered>>

\* The controller classifies the answer: a failure or an action.
Parse ==
    /\ pc = "parse"
    /\ \/ /\ turn.outcome.failure # NoFailure
          /\ turn' = [turn EXCEPT !.failure_code = "CONTROLLER_ERROR"]
          /\ pc' = "decision_finished"
       \/ /\ turn.outcome.failure = NoFailure
          /\ pc' = "submit"
          /\ UNCHANGED turn
    /\ UNCHANGED <<disk, failed, time, late, loop, before, data, ghosts>>

\* Fault: an action may begin as long as there is time left.
PrecheckAtStart(tick, outcome) == IF tick >= EndTick THEN "HORIZON_ACTION" ELSE NoFailure

\* protocol_precheck, for what validate_candidate lets through: MOVE and a WAIT
\* of one tick.
Precheck(tick, outcome) ==
    IF tick + outcome.duration > EndTick THEN "HORIZON_ACTION" ELSE NoFailure

\* Fault: the action is handed to the engine before its intent is durable.
SubmitUnannounced ==
    /\ pc = "submit"
    /\ LET refusal == IF late THEN "WALL_TIMEOUT" ELSE Precheck(time, turn.outcome) IN
        IF refusal # NoFailure
        THEN /\ turn' = [turn EXCEPT !.refusal = refusal, !.failure_code = "SUBMISSION_ERROR"]
             /\ pc' = "decision_finished"
        ELSE /\ pc' = "engine"
             /\ UNCHANGED turn
    /\ UNCHANGED <<disk, failed, time, late, loop, before, data, ghosts>>

\* submit, up to the intent.
Submit ==
    /\ pc = "submit"
    /\ LET refusal == IF late THEN "WALL_TIMEOUT" ELSE Precheck(time, turn.outcome) IN
        IF refusal # NoFailure
        THEN /\ turn' = [turn EXCEPT !.refusal = refusal, !.failure_code = "SUBMISSION_ERROR"]
             /\ pc' = "decision_finished"
        ELSE /\ pc' = "engine_intent"
             /\ UNCHANGED turn
    /\ UNCHANGED <<disk, failed, time, late, loop, before, data, ghosts>>

\* game.submit returns the receipt of a resolved action.
Engine ==
    /\ pc = "engine"
    /\ entered' = entered + 1
    /\ time' = time + turn.outcome.duration
    /\ turn' = [turn EXCEPT !.receipt = turn.outcome.status]
    /\ pc' = "engine_receipt"
    /\ UNCHANGED <<disk, failed, late, loop, before, data, sent>>

\* Fault: the except clause raises without a row of its own.
EngineFailsUnrecorded ==
    /\ pc = "engine"
    /\ entered' = entered + 1
    /\ time' \in time..(time + turn.outcome.duration)
    /\ turn' = [turn EXCEPT !.failure_code = "SUBMISSION_ERROR"]
    /\ pc' = "decision_finished"
    /\ UNCHANGED <<disk, failed, late, loop, before, data, sent>>

\* game.submit raises: any part of the action's time may have passed.
EngineFails ==
    /\ pc = "engine"
    /\ entered' = entered + 1
    /\ time' \in time..(time + turn.outcome.duration)
    /\ turn' = [turn EXCEPT !.failure_code = "SUBMISSION_ERROR"]
    /\ pc' = "engine_error"
    /\ UNCHANGED <<disk, failed, late, loop, before, data, sent>>

\* The stop reason a decision gives, if any, with the failures counted so far.
StopAfter(count) ==
    IF turn.failure_code = "OBSERVATION_UNAVAILABLE" THEN "OBSERVATION_UNAVAILABLE"
    ELSE IF turn.failure_code = "SUBMISSION_ERROR"
         THEN IF turn.refusal # NoFailure THEN turn.refusal ELSE "ENGINE_ERROR"
    ELSE IF Failure = "INFRASTRUCTURE_FAILURE" THEN "INFRASTRUCTURE_FAILURE"
    ELSE IF count >= MaxFailures THEN "CONSECUTIVE_FAILURES"
    ELSE "NONE"

\* Fault: a rejected action is an answer, not a failure.
StalledUnanswered ==
    IF time = before /\ turn.receipt = NoReceipt THEN failures + 1 ELSE 0

\* The decisions in a row that did not move time.
Stalled == IF time = before THEN failures + 1 ELSE 0

Conclude ==
    /\ pc = "conclude"
    /\ decisions' = Append(decisions, Decision)
    /\ calls' = IF turn.failure_code = "OBSERVATION_UNAVAILABLE" THEN calls ELSE calls + 1
    /\ stop' = StopAfter(Stalled)
    /\ failures' = IF StopAfter(0) = "NONE" THEN Stalled ELSE failures
    /\ pc' = IF StopAfter(Stalled) = "NONE" THEN "head" ELSE "seal"
    /\ UNCHANGED <<disk, failed, time, late, before, turn, data, ghosts>>

\* The export, with the seal over all of it.
Seal ==
    /\ pc = "seal"
    /\ data' = [stop_reason |-> stop, decisions |-> decisions, simulation_end |-> time,
                late |-> late]
    /\ pc' = "trial_finished"
    /\ UNCHANGED <<disk, failed, time, late, loop, before, turn, ghosts>>

WriteSnapshot ==
    /\ pc = "snapshot"
    /\ snapshot' = Present(data)
    /\ pc' = "done"
    /\ UNCHANGED <<journal, torn, failed, time, late, loop, before, turn, data, ghosts>>

WriteSnapshotFails ==
    /\ pc = "snapshot"
    /\ snapshot' \in {Missing, Invalid, Present(data)}
    /\ pc' = "raised"
    /\ UNCHANGED <<journal, torn, failed, time, late, loop, before, turn, data, ghosts>>
-----------------------------------------------------------------------------
Ended == pc \in {"done", "raised", "crashed"}

\* The process dies; what it was writing may be on disk in part or in full.
Crash ==
    /\ ~Ended
    /\ IF pc \in Kinds THEN Interrupted ELSE UNCHANGED <<journal, torn>>
    /\ snapshot' \in IF pc = "snapshot" THEN {Missing, Invalid, Present(data)} ELSE {snapshot}
    /\ pc' = "crashed"
    /\ UNCHANGED <<failed, time, late, loop, before, turn, data, ghosts>>

\* The wall clock runs out.
WallPasses ==
    /\ ~Ended /\ ~late
    /\ late' = TRUE
    /\ UNCHANGED <<disk, failed, time, loop, before, turn, data, pc, ghosts>>

Runner ==
    \/ Record \/ RecordFails
    \/ Leave \/ BeginTurn \/ Send \/ Parse \/ Submit \/ Engine \/ EngineFails
    \/ Conclude \/ Seal \/ WriteSnapshot \/ WriteSnapshotFails

Next == Runner \/ Crash \/ WallPasses

Spec == Init /\ [][Next]_vars
=============================================================================
