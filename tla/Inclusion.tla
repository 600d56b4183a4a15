----------------------------- MODULE Inclusion -----------------------------
(***************************************************************************)
(* The admission of a trial without event memory: assess_inclusion of      *)
(* experiments/inclusion.py judges the quality of the record, whatever the *)
(* model did in the trial.  What the program says of itself in a record,   *)
(* its versions, configuration, digests and seal, is as it wrote it.       *)
(***************************************************************************)
EXTENDS Trial, FiniteSets

\* What the policy takes for a failure of the infrastructure; an answer that
\* cannot be read is the model's own.
InfrastructurePhases ==
    {"PROVIDER_ERROR", "PROVIDER_IDENTITY_MISMATCH", "MEMORY_ERROR", "PROMPT_ERROR",
     "OBSERVATION_UNAVAILABLE"}

\* The transport has answered, and the answer came from another model.
Misattributed(d) == d.phase = "PROVIDER_IDENTITY_MISMATCH"

HorizonReached == stop = Horizon /\ time = EndTick

\* No session call raised, so that every request of the engine has its result,
\* and every request rests on an observation of the run.
TracesWhole ==
    \A i \in DOMAIN attempts :
        attempts[i].receipt # NoReceipt /\ attempts[i].request.based_on \in 1..observed

\* The decision has its activation, and remembers nothing.
Configured(d) ==
    /\ d.activation \in DOMAIN activations
    /\ activations[d.activation] = Activation("stranger", d.tick)
    /\ d.memory = <<>>

\* What the game traced in the turn is the decision's request and its answer,
\* and nothing is submitted for a model that was not asked.
LinkedWhole(d) ==
    /\ d.receipt # NoReceipt => d.traces # {}
    /\ \A i \in d.traces :
        /\ i \in DOMAIN attempts
        /\ attempts[i].request = d.request /\ attempts[i].receipt = d.receipt
    /\ Misattributed(d) => d.request = NoRequest /\ d.traces = {} /\ d.receipt = NoReceipt

\* The decisions divide the stranger's traces among them.
TracesDivided ==
    \A i \in DOMAIN attempts :
        Cardinality({n \in DOMAIN decisions : i \in decisions[n].traces})
            = IF attempts[i].request.actor = "stranger" THEN 1 ELSE 0

\* assess_inclusion finds no reason to exclude the record.
Admitted ==
    /\ HorizonReached /\ TracesWhole /\ TracesDivided
    /\ \A n \in DOMAIN decisions :
        LET d == decisions[n] IN
        Configured(d) /\ LinkedWhole(d) /\ d.phase \notin InfrastructurePhases
=============================================================================
