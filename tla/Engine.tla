------------------------------- MODULE Engine -------------------------------
(***************************************************************************)
(* What a caller of SimulationKernel.submit_action may rely on, and all    *)
(* the game session knows of the engine: calls do not overlap, a call      *)
(* records at most one result, its own, and records it before it returns;  *)
(* a call may raise with or without having recorded a result; logical time *)
(* may pass while a call runs, and never moves back.                       *)
(*                                                                         *)
(* Kernel.tla implements this specification; Session.tla is built on it.   *)
(***************************************************************************)
EXTENDS Integers, Sequences

CONSTANTS StartTime,     \* the logical time a run starts at
          MaxTime,       \* the horizon of the modelled runs
          Requests,      \* action requests
          NoRequest      \* stands for no request

VARIABLES phase,         \* RunStatus: CREATED, RUNNING or CLOSED
          time,          \* the committed logical time
          record,        \* the results recorded so far
          call,          \* the request of the call in progress
          settled,       \* that call has recorded its result
          answer         \* how the last call ended

engine == <<phase, time, record, call, settled, answer>>

Statuses == {"SUCCEEDED", "REJECTED", "FAILED"}

EngineInit ==
    /\ phase = "CREATED"
    /\ time = StartTime
    /\ record = <<>>
    /\ call = NoRequest
    /\ settled = FALSE
    /\ answer = "none"

Boot ==
    /\ phase = "CREATED"
    /\ phase' = "RUNNING"
    /\ UNCHANGED <<time, record, call, settled, answer>>

Close ==
    /\ phase = "RUNNING"
    /\ call = NoRequest
    /\ phase' = "CLOSED"
    /\ UNCHANGED <<time, record, call, settled, answer>>

Ticks ==
    /\ phase = "RUNNING"
    /\ \E t \in 0..MaxTime :
        /\ time <= t
        /\ time' = t
    /\ UNCHANGED <<phase, record, call, settled>>

\* Scheduled inputs commit and the duration of the action passes.
Elapse ==
    /\ call # NoRequest
    /\ ~settled
    /\ Ticks
    /\ UNCHANGED answer

\* An advance_to between calls, which may return or raise as well.
Advance ==
    /\ call = NoRequest
    /\ Ticks
    /\ answer' \in {answer, "returned", "raised"}

Accept(r) ==
    /\ phase = "RUNNING"
    /\ call = NoRequest
    /\ call' = r
    /\ UNCHANGED <<phase, time, record, settled, answer>>

Recorded(outcome) ==
    record' = Append(record, [request |-> call, status |-> outcome, resolved |-> time])

\* The action commits; its events are still to be published.
Settle ==
    /\ call # NoRequest
    /\ ~settled
    /\ Recorded("SUCCEEDED")
    /\ settled' = TRUE
    /\ UNCHANGED <<phase, time, call, answer>>

\* A rejected or failed action has nothing to publish.
Decline ==
    /\ call # NoRequest
    /\ ~settled
    /\ \E outcome \in {"REJECTED", "FAILED"} : Recorded(outcome)
    /\ call' = NoRequest
    /\ answer' = "returned"
    /\ UNCHANGED <<phase, time, settled>>

Finish ==
    /\ call # NoRequest
    /\ settled
    /\ call' = NoRequest
    /\ settled' = FALSE
    /\ answer' = "returned"
    /\ UNCHANGED <<phase, time, record>>

\* The call raises: before a result is recorded, or while it is published.
Raise ==
    /\ call # NoRequest
    /\ call' = NoRequest
    /\ settled' = FALSE
    /\ answer' = "raised"
    /\ UNCHANGED <<phase, time, record>>

EngineNext ==
    \/ Boot \/ Close \/ Elapse \/ Advance
    \/ \E r \in Requests : Accept(r)
    \/ Settle \/ Decline \/ Finish \/ Raise

EngineSpec == EngineInit /\ [][EngineNext]_engine
=============================================================================
