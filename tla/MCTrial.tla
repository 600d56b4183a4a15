------------------------------ MODULE MCTrial ------------------------------
(* A small instance of the trial with event memory for TLC. *)
EXTENDS TrialAudit

MCNpcs == <<"hugh", "thomas">>

\* A move that cannot start, one over a long route, a short social request.
MCActions ==
    {[kind |-> "MOVE", lasts |-> 0], [kind |-> "MOVE", lasts |-> 2], [kind |-> "SOCIAL", lasts |-> 1]}
=============================================================================
