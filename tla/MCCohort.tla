------------------------------ MODULE MCCohort ------------------------------
(***************************************************************************)
(* Instances of the cohort for TLC: what the audit may say of a trial.      *)
(***************************************************************************)
EXTENDS Cohort

Says(integrity, denominator, infrastructure) ==
    [integrity |-> integrity, denominator |-> denominator,
     infrastructure |-> infrastructure, success |-> denominator]

Counted == Says("VERIFIED", "true", "false")
Failed == Says("VERIFIED", "false", "true")
Disturbed == Says("EXCLUDED", "false", "true")
Undecided == Says("EXCLUDED", "false", "null")

MCAll == {Counted, Failed, Disturbed, Undecided}

\* A trial that may be replaced and one that may not: to the batches and the
\* manifests Counted is like Disturbed, to the audit like Failed.
MCFailing == {Failed, Disturbed}
=============================================================================
