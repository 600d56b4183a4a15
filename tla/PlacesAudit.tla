---------------------------- MODULE PlacesAudit ----------------------------
(***************************************************************************)
(* What becomes of the record of a Distinct Places trial: summarize of     *)
(* experiments/memory_horizon.py measures it, and assess_trial of          *)
(* memory_horizon_audit.py runs it again, without a provider, and includes *)
(* the trial or excludes it.  The properties are stated here.              *)
(***************************************************************************)
EXTENDS Places, SequencesExt

-----------------------------------------------------------------------------
(* summarize: one pass over the committed moves.  pending is the target    *)
(* the stranger has not come back from, if any; completion the decision    *)
(* that completed the task, or 0; after counts the repeats after it.       *)

Unmeasured == [counts |-> [t \in Targets |-> 0], completed |-> {}, pending |-> {},
               completion |-> 0, after |-> 0]

Counted(m, t) ==
    [m EXCEPT !.counts[t] = @ + 1,
              !.after = IF m.counts[t] > 0 /\ m.completion # 0 THEN @ + 1 ELSE @]

Completes(m, e) ==
    [m EXCEPT !.completed = @ \union m.pending,
              !.pending = {},
              !.completion = IF m.completed \union m.pending = Targets /\ @ = 0
                             THEN e.source ELSE @]

\* Fault: to arrive is to complete; the way back is forgotten.
MeasureOnArrival(m, e) ==
    IF e.to \in Targets THEN Completes([Counted(m, e.to) EXCEPT !.pending = {e.to}], e) ELSE m

Measure(m, e) ==
    IF e.to \in Targets THEN [Counted(m, e.to) EXCEPT !.pending = {e.to}]
    ELSE IF e.to = Square /\ m.pending # {} THEN Completes(m, e)
    ELSE m

Summary ==
    LET m == FoldLeft(Measure, Unmeasured, events)
        repeats == MapThenSumSet(LAMBDA t : IF m.counts[t] > 1 THEN m.counts[t] - 1 ELSE 0, Targets)
    IN  [unique_destination_coverage |-> Cardinality({t \in Targets : m.counts[t] > 0}),
         repeat_destination_count |-> repeats,
         decisions_to_completion |-> m.completion,
         strict_no_repeat_success |-> m.completion # 0 /\ repeats = 0,
         post_completion_repeat_count |-> m.after]
-----------------------------------------------------------------------------
(* The audit                                                               *)

\* The submitted actions, executed again from the start.
Resubmitted(w, d) == IF d.submitted THEN Executed(w, d.action, d.sequence) ELSE w

Replayed == FoldLeft(Resubmitted, Start, decisions)

\* replay_record: they give the same world; the clock may have to be advanced
\* to where it was.
ReplayEqual ==
    /\ Replayed.time <= time
    /\ Replayed.position = position /\ Replayed.events = events

\* What _attempts has reconstructed, and whether a requirement failed (WRONG)
\* or the decoder raised what nobody catches (LOST).
Reading(w, ids, calls, failed, ending, verdict) ==
    [world |-> w, ids |-> ids, calls |-> calls, failures |-> failed, ending |-> ending,
     verdict |-> verdict]

Unread == Reading(Start, {}, 0, 0, "NONE", "RIGHT")

Continues(r, d) ==
    /\ r.ending = "NONE" /\ r.world.time < EndTick
    /\ d.sequence <= MaxDecisions /\ r.calls < MaxCalls
    /\ d.tick = r.world.time

\* Here any string is an id and any text uses it up, genuine or not.
AuditIds(r, d) == r.ids \union {i \in {d.answer.id} : d.answer.text /\ i # Anonymous}

Decodes(r, d) == d.answer.text /\ d.answer.genuine /\ d.answer.id \notin r.ids

AuditRefusal(r, d, action) ==
    IF d.protocol_failure = "WALL_TIMEOUT" THEN "WALL_TIMEOUT"
    ELSE Precheck(r.world.time, r.world.position, action)

\* The decision had the outcome that it has here.
Outcome(d, failure, refusal, receipt) ==
    d.turn_failure = failure /\ d.protocol_failure = refusal /\ d.receipt = receipt

\* Only the clock tells the audit what failed.
CountedFailures(r, w) == IF w.time = r.world.time THEN r.failures + 1 ELSE 0

\* The reading after a decision that ran as recorded.
Read(r, d, w, ending) ==
    LET failed == CountedFailures(r, w) IN
    Reading(w, AuditIds(r, d), r.calls + 1, failed,
            IF ending = "NONE" /\ failed >= MaxFailures THEN "CONSECUTIVE_FAILURES" ELSE ending,
            "RIGHT")

Wrong(r) == [r EXCEPT !.verdict = "WRONG"]
Lost(r) == [r EXCEPT !.verdict = "LOST"]

Attempted(r, d, action) ==
    LET refusal == AuditRefusal(r, d, action)
        w == Executed(r.world, action, d.sequence)
    IN  IF refusal # "NONE"
        THEN IF Outcome(d, "SUBMISSION_ERROR", refusal, "NONE")
             THEN Read(r, d, r.world, refusal) ELSE Wrong(r)
        ELSE IF Outcome(d, "NONE", "NONE", Receipt(r.world, action))
             THEN Read(r, d, w, "NONE") ELSE Wrong(r)

Assessed(whole, r, d) ==
    IF r.verdict # "RIGHT" THEN r
    ELSE IF ~Continues(r, d) THEN Wrong(r)
    ELSE IF ~Observes(whole, r.world.position)
    THEN IF Outcome(d, "OBSERVATION_UNAVAILABLE", "NONE", "NONE") /\ ~d.called
         THEN [r EXCEPT !.ending = "OBSERVATION_UNAVAILABLE"] ELSE Wrong(r)
    ELSE IF Decodes(r, d) /\ d.answer.deep THEN Lost(r)
    ELSE LET action == IF Decodes(r, d) THEN d.answer.says ELSE NoAction IN
         IF ~d.called \/ d.action # action THEN Wrong(r)
         ELSE IF action # NoAction THEN Attempted(r, d, action)
         ELSE IF Outcome(d, "CONTROLLER_ERROR", "NONE", "NONE")
         THEN Read(r, d, r.world, "NONE") ELSE Wrong(r)

\* How the trial must have ended; a wall timeout is taken from the record,
\* which must show the time it took.
Ending(r) ==
    LET ending == IF r.ending # "NONE" THEN r.ending
                  ELSE IF r.world.time = EndTick THEN Horizon
                  ELSE IF Len(decisions) >= MaxDecisions THEN "MAX_DECISIONS"
                  ELSE IF r.calls >= MaxCalls THEN "MAX_PROVIDER_CALLS"
                  ELSE "WALL_TIMEOUT"
    IN  IF stop = "WALL_TIMEOUT" /\ ending \in {"MAX_DECISIONS", "MAX_PROVIDER_CALLS"}
        THEN "WALL_TIMEOUT" ELSE ending

\* assess_trial; LOST is an exception out of it, and out of run_trial.
Inclusion ==
    LET r == FoldLeft(LAMBDA x, d : Assessed(fits, x, d), Unread, decisions) IN
    IF ~ReplayEqual THEN "EXCLUDED"
    ELSE IF r.verdict = "LOST" THEN "LOST"
    ELSE IF /\ r.verdict = "RIGHT"
            /\ r.calls = Calls
            /\ stop = "WALL_TIMEOUT" => late
            /\ stop = Ending(r)
            /\ r.world = Now
    THEN "INCLUDED" ELSE "EXCLUDED"
-----------------------------------------------------------------------------
(* Properties                                                              *)

\* Types, and the bounds of the policy.
TypeOK ==
    /\ time \in 0..EndTick /\ late \in BOOLEAN /\ fits \in BOOLEAN
    /\ Len(events) <= Len(decisions) /\ Len(decisions) \in 0..MaxDecisions
    /\ failures \in 0..MaxFailures
    /\ pc \in {"loop", "submit", "end"}
    /\ pc = "end" <=> stop # "NONE"

\* An earlier answer, whoever sent it, had the id of the i-th.
Repeated(i) ==
    /\ decisions[i].answer.id # Anonymous
    /\ \E j \in 1..(i - 1) : decisions[j].answer.text /\ decisions[j].answer.id = decisions[i].answer.id

\* The trial acted on an answer that the audit takes for one given before.
Disowned(i) == decisions[i].action # NoAction /\ Repeated(i)

\* The audit descends into an answer that is nested too deep.
Bottomless(i) ==
    LET a == decisions[i].answer IN a.text /\ a.genuine /\ a.deep /\ ~Repeated(i)

\* The audit's own run comes to the end that the trial came to, by whatever
\* refusals, failures and bounds: a finished trial is included exactly when the
\* engine did not raise and the two did not differ over an answer, and is lost
\* to its audit only over an answer nested too deep.
AuditFollowsTrial ==
    stop # "NONE" =>
        /\ Inclusion = "INCLUDED" <=>
               /\ stop # "ENGINE_ERROR"
               /\ \A i \in DOMAIN decisions : ~Disowned(i) /\ ~Bottomless(i)
        /\ Inclusion = "LOST" => \E i \in DOMAIN decisions : Bottomless(i)

\* docs/MEMORY_HORIZON_OFFLINE.md: INCLUDED includes valid failed trials, and
\* only interrupted engine calls are excluded.
ValidTrialsIncluded == stop \notin {"NONE", "ENGINE_ERROR"} => Inclusion = "INCLUDED"

Arrivals(t) == {i \in DOMAIN events : events[i].to = t}

\* The j-th arrival is the return to the square from the target t.
Returns(t, j) ==
    /\ j \in Arrivals(Square)
    /\ \E i \in Arrivals(t) :
        /\ i < j
        /\ \A k \in (i + 1)..(j - 1) : events[k].to \notin Targets \union {Square}

\* By the j-th arrival the stranger has been back from every target.
Complete(j) == \A t \in Targets : \E k \in 1..j : Returns(t, k)

\* The one pass of summarize measures what the task asks for: the decision by
\* which the stranger was first back from every target, how many targets it
\* reached, and every visit beyond the first, of which those after completion
\* do not undo it but do undo the strict success.
MetricsMeasure ==
    LET complete == {j \in DOMAIN events : Complete(j)}
        first == CHOOSE j \in complete : \A k \in complete : j <= k
        reached == {t \in Targets : Arrivals(t) # {}}
        visits == {i \in DOMAIN events : events[i].to \in Targets}
    IN  stop # "NONE" =>
            Summary = [unique_destination_coverage |-> Cardinality(reached),
                       repeat_destination_count |-> Cardinality(visits) - Cardinality(reached),
                       decisions_to_completion |-> IF complete = {} THEN 0 ELSE events[first].source,
                       strict_no_repeat_success |->
                           /\ complete # {}
                           /\ \A i, k \in visits : events[i].to = events[k].to => i = k,
                       post_completion_repeat_count |->
                           IF complete = {} THEN 0 ELSE Cardinality({i \in visits : i > first})]
=============================================================================
