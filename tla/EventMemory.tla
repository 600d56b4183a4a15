---------------------------- MODULE EventMemory ----------------------------
(***************************************************************************)
(* The archive of one actor's closed experiences and the memory that is    *)
(* selected from it for a decision.  An archive is a value: the controller *)
(* of a trial has one, and the audit builds another from the record.       *)
(***************************************************************************)
EXTENDS Naturals, Sequences

\* An observation of the actor: its number in the run, its time, and what the
\* actor perceives, which stands for the content and its digest.
Seen(sequence, time, content) == [sequence |-> sequence, time |-> time, content |-> content]

NoContext == [open |-> FALSE]

EmptyArchive == [traces |-> <<>>, context |-> NoContext, closed |-> FALSE]

\* EventMemoryContext refuses experiences that are not the past of the decision.
IsPast(traces, observation, opportunity) ==
    \A i \in DOMAIN traces :
        /\ traces[i].opportunity < opportunity
        /\ traces[i].observation.sequence < observation.sequence
        /\ traces[i].closed_at <= observation.time
        /\ i > 1 => /\ traces[i - 1].sequence < traces[i].sequence
                    /\ traces[i - 1].closed_at <= traces[i].closed_at

\* EventTraceArchive.begin takes a step forward only.
Forward(archive, observation) ==
    LET old == archive.context.observation IN
    archive.context.open =>
        /\ old.sequence <= observation.sequence
        /\ old.time <= observation.time
        /\ archive.traces # <<>> => archive.traces[Len(archive.traces)].closed_at <= observation.time
        /\ archive.closed => old.sequence < observation.sequence

\* Fault: a change of what the actor perceives is not noticed within a tick.
OpensByTime(archive, observation) ==
    LET old == archive.context.observation IN
    archive.context.open => archive.closed \/ old.time # observation.time

\* Whether an observation opens another opportunity.
Opens(archive, observation) ==
    LET old == archive.context.observation IN
    archive.context.open =>
        \/ archive.closed
        \/ old.time # observation.time
        \/ old.content # observation.content

NextContext(archive, observation) ==
    LET old == archive.context
        new == Opens(archive, observation)
        opportunity == (IF old.open THEN old.opportunity ELSE 0) + (IF new THEN 1 ELSE 0)
    IN  [open |-> TRUE, observation |-> observation, opportunity |-> opportunity,
         attempt |-> IF new THEN 1 ELSE old.attempt + 1]

Begins(archive, observation) ==
    /\ Forward(archive, observation)
    /\ IsPast(archive.traces, observation, NextContext(archive, observation).opportunity)

Begun(archive, observation) ==
    [archive EXCEPT !.context = NextContext(archive, observation), !.closed = FALSE]

\* RecencyEventMemory, or NoMemory when the window is 0.
Selected(archive, window) ==
    LET n == Len(archive.traces) IN
    SubSeq(archive.traces, IF n < window THEN 1 ELSE n - window + 1, n)

\* A receipt of the engine for the request that the observation led to.
BoundTo(observation, receipt) ==
    /\ receipt.status \in {"SUCCEEDED", "REJECTED", "FAILED"}
    /\ receipt.started_at = observation.time
    /\ receipt.started_at <= receipt.resolved_at
    /\ receipt.status = "REJECTED" => receipt.resolved_at = receipt.started_at

\* EventTraceArchive.close: a request is named after its observation.
Recorded(archive, observation) ==
    {i \in DOMAIN archive.traces : archive.traces[i].observation.sequence = observation.sequence}

Closes(archive, observation, receipt) ==
    /\ BoundTo(observation, receipt)
    /\ IF Recorded(archive, observation) # {}
       THEN \A i \in Recorded(archive, observation) :
                /\ archive.traces[i].observation = observation
                /\ archive.traces[i].receipt = receipt
       ELSE /\ archive.context.open /\ ~archive.closed
            /\ archive.context.observation = observation

\* The trace of an observation that was closed.
TraceOf(archive, observation) == CHOOSE i \in Recorded(archive, observation) : TRUE

Closed(archive, observation, receipt) ==
    IF Recorded(archive, observation) # {} THEN archive
    ELSE [archive EXCEPT
            !.closed = TRUE,
            !.traces = Append(@, [sequence |-> Len(@) + 1,
                                  opportunity |-> archive.context.opportunity,
                                  attempt |-> archive.context.attempt,
                                  observation |-> observation,
                                  receipt |-> receipt,
                                  closed_at |-> receipt.resolved_at])]
=============================================================================
