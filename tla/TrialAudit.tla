----------------------------- MODULE TrialAudit -----------------------------
(***************************************************************************)
(* The audit of a trial with event memory: assess_event_memory of          *)
(* experiments/event_memory.py recomputes from the record which            *)
(* opportunity each decision had, what it remembered and what it closed.   *)
(* The properties of the trial are stated here, with the audit at hand.    *)
(***************************************************************************)
EXTENDS Inclusion, SequencesExt

\* The audit's own archive, and whether all was right so far.
Reading(kept, right) == [archive |-> kept, right |-> right]

\* Every trace of the decision tells its request and its answer.
TracesAgree(d) ==
    \A i \in d.traces : /\ i \in DOMAIN attempts
                        /\ attempts[i].request = d.request
                        /\ attempts[i].receipt = d.receipt

Provenance(d, begun, memory) ==
    /\ d.opportunity = begun.context.opportunity /\ d.attempt = begun.context.attempt
    /\ d.memory = memory
    /\ d.called

\* What the decision closed, by the traces linked to it.
Entries(d) == {i \in d.traces : attempts[i].engine_submitted}

Assessed(reading, d) ==
    IF d.observation = NoObservation
    THEN Reading(reading.archive, reading.right /\ d.closed = 0 /\ d.receipt = NoReceipt)
    ELSE
    LET begun == Begun(reading.archive, d.observation)
        right == /\ reading.right
                 /\ Begins(reading.archive, d.observation)
                 /\ Provenance(d, begun, Selected(reading.archive, Window))
                 /\ TracesAgree(d)
    IN  IF ~right THEN Reading(reading.archive, FALSE)
        ELSE IF d.receipt = NoReceipt \/ Entries(d) = {} THEN Reading(begun, d.closed = 0)
        ELSE LET closed == Closed(begun, d.observation, d.receipt) IN
             Reading(closed, /\ Cardinality(Entries(d)) = 1
                             /\ d.failure = "NONE"
                             /\ Closes(begun, d.observation, d.receipt)
                             /\ d.closed = TraceOf(closed, d.observation))

\* INCLUDED: the record is correct, whatever became of the trial.
Included ==
    LET reading == FoldLeft(Assessed, Reading(EmptyArchive, TRUE), decisions)
    IN  reading.right /\ reading.archive.traces = archive.traces
-----------------------------------------------------------------------------
(* Properties                                                              *)

\* Types, the bounds of the policy, and one activation for every turn.
TypeOK ==
    /\ time \in 0..EndTick /\ late \in BOOLEAN /\ observed \in Nat
    /\ Len(decisions) \in 0..MaxDecisions
    /\ failures \in 0..MaxFailures /\ served \in Nat
    /\ Len(activations) = Len(decisions) + served
    /\ pc \in {"loop", "provider", "submit", "close", "conclude", "npc", "end"}
    /\ pc = "end" <=> stop # "NONE"

Observed(d) == d.observation # NoObservation

\* The engine was given the decision's request and answered it.
Experienced(d) == d.receipt # NoReceipt /\ Entries(d) # {}

\* How many experiences the actor had had by its n-th decision.
Experiences(n) == Cardinality({i \in 1..n : Experienced(decisions[i])})

\* A decision is delivered exactly the latest Window experiences that the
\* actor had before it, oldest first: nothing of a denial, of a failed or
\* raised attempt, of an NPC or of itself, and never one that closed later
\* than the decision's own observation.
DeliveredIsPast ==
    \A i \in DOMAIN decisions :
        event_mode /\ Observed(decisions[i]) =>
            LET had == Experiences(i - 1)
                memory == decisions[i].memory
            IN  /\ Len(memory) = IF had < Window THEN had ELSE Window
                /\ \A k \in DOMAIN memory : \E j \in 1..(i - 1) :
                    LET d == decisions[j] IN
                    /\ Experienced(d) /\ Experiences(j) = had - Len(memory) + k
                    /\ memory[k].observation = d.observation
                    /\ memory[k].receipt = d.receipt
                    /\ memory[k].closed_at <= decisions[i].tick

\* Two decisions are attempts of one opportunity exactly when the actor saw the
\* same both times, a receipt of a denial included, and experienced nothing in
\* between; their attempts are then numbered without a gap.
Lineage ==
    \A i, j \in DOMAIN decisions :
        LET p == decisions[i]
            q == decisions[j]
        IN  event_mode /\ i < j /\ Observed(p) /\ Observed(q) =>
            /\ p.opportunity = q.opportunity <=>
                   /\ p.tick = q.tick /\ p.observation.content = q.observation.content
                   /\ \A k \in i..(j - 1) : ~Experienced(decisions[k])
            /\ p.opportunity = q.opportunity => q.attempt = p.attempt + (j - i)

\* What a decision is told of the past, and of itself, is what happened.
MemoryIsFaithful == DeliveredIsPast /\ Lineage

\* The record of every trial that comes to an end is found correct, also of one
\* that failed or was cut short, and no trial is lost to its own archive.
RecordIsCorrect ==
    /\ stop # "LOST"
    /\ event_mode /\ stop # "NONE" => Included

\* The admission keeps what the model did apart from what failed around it: a
\* trial without event memory is admitted exactly when it got to the horizon and
\* no transport, identity or observation failed on the way, recovered or not,
\* whatever the model answered and the game denied or rejected.
AdmittedIsClean ==
    ~event_mode /\ stop # "NONE" =>
        (Admitted <=> /\ stop = Horizon
                      /\ \A n \in DOMAIN decisions : decisions[n].phase \in {"NONE", "INVALID_OUTPUT"})

\* Time never passes the horizon, a trial is completed exactly when it got
\* there in good order, and any other stop has its reason in the record.
StopExplained ==
    LET n == Len(decisions)
        last == decisions[n]
    IN  /\ time <= EndTick
        /\ stop = Horizon => time = EndTick
        /\ stop \in {"MAX_DECISIONS", "MAX_PROVIDER_CALLS", "CONSECUTIVE_FAILURES"} => time < EndTick
        /\ stop = "WALL_TIMEOUT" => late
        /\ stop = "HORIZON_ACTION" => time + ActionDuration(last.request.action) > EndTick
        /\ stop = "CONSECUTIVE_FAILURES" =>
            \A i \in (n - MaxFailures + 1)..n :
                /\ decisions[i].tick = time
                /\ decisions[i].receipt = NoReceipt \/ decisions[i].receipt.status = "REJECTED"

\* How many of the first n turns were taken by an NPC.
NpcTurns(n) == Cardinality({i \in 1..n : activations[i].actor # "stranger"})

\* The NPCs take their turns in the order of their cycle, one after every turn
\* of the stranger that moved the clock and none after a turn that did not.
TurnsAlternate ==
    \A i \in DOMAIN activations :
        LET a == activations[i]
            last == activations[i - 1]
        IN  IF a.actor = "stranger"
            THEN i > 1 /\ last.actor = "stranger" => last.tick = a.tick
            ELSE /\ i > 1 /\ last.actor = "stranger" /\ last.tick < a.tick
                 /\ a.actor = Npcs[(NpcTurns(i - 1) % Len(Npcs)) + 1]

\* The record is found correct, it is admitted for the right reasons, and it tells
\* of turns taken in their order.
RecordIsSound == RecordIsCorrect /\ AdmittedIsClean /\ TurnsAlternate
=============================================================================
