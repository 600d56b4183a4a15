------------------------------ MODULE MCPilot ------------------------------
(***************************************************************************)
(* Instances of the pilot trial for TLC: one answer of each kind that the  *)
(* loop, the journal or the audit tells apart.                             *)
(***************************************************************************)
EXTENDS PilotAudit

Reply(failure) == [failure |-> failure, duration |-> 0, status |-> "REJECTED"]
Action(duration, status) == [failure |-> NoFailure, duration |-> duration, status |-> status]

\* A refusal stands for the behavioural failures; a start-invalid MOVE, a unit
\* WAIT, a MOVE of two ticks and one that fails when it is completed.
MCOutcomes ==
    {Reply("REFUSAL"), Reply("PARSER_ERROR"), Reply("INFRASTRUCTURE_FAILURE"),
     Action(0, "REJECTED"), Action(1, "SUCCEEDED"), Action(2, "SUCCEEDED"), Action(1, "FAILED")}
=============================================================================
