------------------------------- MODULE Kernel -------------------------------
(***************************************************************************)
(* The deterministic simulation kernel: core/kernel.py with the scheduler, *)
(* the clock and sequences of a run, and the event bus it drives.          *)
(*                                                                         *)
(* The kernel is single threaded.  What interleaves is control: a timed    *)
(* action elapses its duration through the scheduled inputs that fall due  *)
(* meanwhile, and every handler or subscriber callback may raise, or call  *)
(* a mutation API of the kernel again.  One action of this module is the   *)
(* code between two such callbacks; pc says which callback is running.     *)
(***************************************************************************)
EXTENDS Integers, Sequences

CONSTANTS StartTime,      \* RunManifest.start_time
          MaxTime,        \* the horizon: no due or target time beyond it
          MaxScheduled,   \* how many inputs a run schedules
          MaxResults,     \* how many action results a run records
          MaxDuration,    \* the longest duration a timed handler prepares
          MaxDrafts,      \* the most events one plan emits
          MaxDraws,       \* how often the RNG is drawn in a run
          Priorities,     \* priorities of scheduled inputs
          Requests,       \* identities of action requests
          EventTypes,     \* types of domain events
          Wants           \* Wants[s]: the event types subscriber s matches;
                          \* subscribers are numbered in ordering-key order

ASSUME KernelAssumption ==
    /\ "none" \notin Requests
    /\ MaxTime \in Nat /\ StartTime \in 0..MaxTime
    /\ MaxScheduled \in Nat /\ MaxResults \in Nat
    /\ MaxDuration \in Nat /\ MaxDrafts \in Nat /\ MaxDraws \in Nat
    /\ Priorities \subseteq Int
    /\ Wants \in Seq(SUBSET EventTypes)

VARIABLES status,         \* RunStatus: CREATED, RUNNING or CLOSED
          clock,          \* SimulationClock.now
          queue,          \* the scheduler's heap, as the set of its items
          insertions,     \* _next_insertion_sequence
          transitions,    \* SimulationRun._transition_sequence
          eventSequence,  \* SimulationRun._event_sequence
          rng,            \* the committed RNG, as its draw count
          events,         \* the committed event log
          results,        \* _action_results
          outcomes,       \* _system_event_outcomes
          active          \* _transition_active

\* The Python stack of the call in progress.
VARIABLES pc,             \* where control is
          purpose,        \* what the innermost _advance_to, or publish, is for
          target,         \* target_time of the running _advance_to
          before,         \* time_before of the running dispatch
          current,        \* the scheduled input being dispatched
          candidate,      \* candidate_rng of the running resolve
          request,        \* the request of the running submit_action
          started,        \* its started_at
          duration,       \* its timing.duration, 0 when the handler is untimed
          outbox,         \* deliveries the running publish still owes
          reply           \* how the last mutation call ended

\* What the outside has seen; the code keeps neither.
VARIABLES delivered,      \* the deliveries subscribers completed, in order
          lost            \* deliveries dropped by a failing subscriber

run == <<status, clock, transitions, eventSequence, rng>>
schedule == <<queue, insertions>>
record == <<events, results, outcomes>>
frame == <<pc, purpose, target, before, current, candidate,
           request, started, duration, outbox, active, reply>>
seen == <<delivered, lost>>
vars == <<run, schedule, record, frame, seen>>

Times == 0..MaxTime
Subscribers == DOMAIN Wants

Items == [due : Times, priority : Priorities, insertion : Nat]
NoItem == [due |-> 0, priority |-> 0, insertion |-> -1]
NoRequest == "none"

SystemIdentities ==
    [sequence : Nat, time : Times, kind : {"SCHEDULED_EVENT"}, source : Nat]
ActionIdentities ==
    [sequence : Nat, time : Times, kind : {"ACTION"}, source : Requests]
NoTransition == [sequence |-> 0]

Envelopes == [sequence : Nat, time : Times, type : EventTypes, transition : Nat]
Outcomes == [insertion : Nat, transition : SystemIdentities]
Results == [request : Requests, status : {"SUCCEEDED", "REJECTED", "FAILED"},
            started : Times, resolved : Times,
            transition : ActionIdentities \union {NoTransition}]
Deliveries == Nat \X Subscribers

Drafts == UNION {[1..n -> EventTypes] : n \in 0..MaxDrafts}
-----------------------------------------------------------------------------
(* The scheduler's order, and the part of the queue an advance looks at.   *)

Before(a, b) ==
    \/ a.due < b.due
    \/ a.due = b.due /\ a.priority < b.priority
    \/ a.due = b.due /\ a.priority = b.priority /\ a.insertion < b.insertion

\* Fault: a heap key without the insertion number never settles a tie.
IsHeadWithoutInsertion(e) ==
    e \in queue /\ \A other \in queue \ {e} :
        e.due < other.due \/ (e.due = other.due /\ e.priority < other.priority)

IsHead(e) == e \in queue /\ \A other \in queue \ {e} : Before(e, other)

\* Fault: the item due exactly at the target is left for the next advance.
DueBefore(time) == {e \in queue : e.due < time}

Due(time) == {e \in queue : e.due <= time}
-----------------------------------------------------------------------------
Init ==
    /\ status = "CREATED"
    /\ clock = StartTime
    /\ queue = {} /\ insertions = 0
    /\ transitions = 0 /\ eventSequence = 0 /\ rng = 0
    /\ events = <<>> /\ results = <<>> /\ outcomes = <<>>
    /\ active = FALSE /\ pc = "idle" /\ purpose = "none"
    /\ target = 0 /\ before = 0 /\ current = NoItem /\ candidate = 0
    /\ request = NoRequest /\ started = 0 /\ duration = 0
    /\ outbox = {} /\ reply = "none"
    /\ delivered = <<>> /\ lost = {}

EnsureRunning == status = "RUNNING"
\* Fault: mutation APIs accept calls from handlers and subscribers.
EnsureNothing == TRUE

EnsureNotTransitioning == ~active

\* The call in progress ends: its frame is popped and the guard is released.
Return(how) ==
    /\ pc' = "idle" /\ purpose' = "none" /\ active' = FALSE /\ reply' = how
    /\ target' = 0 /\ before' = 0 /\ current' = NoItem /\ candidate' = 0
    /\ request' = NoRequest /\ started' = 0 /\ duration' = 0 /\ outbox' = {}

\* Enter _advance_to(time) on behalf of a purpose.
EnterAdvance(time, why) ==
    /\ pc' = "advance" /\ purpose' = why /\ target' = time /\ active' = TRUE

Boot ==
    /\ status = "CREATED"
    /\ status' = "RUNNING"
    /\ UNCHANGED <<clock, transitions, eventSequence, rng,
                   schedule, record, frame, seen>>

Close ==
    /\ EnsureNotTransitioning
    /\ status = "RUNNING"
    /\ status' = "CLOSED"
    /\ UNCHANGED <<clock, transitions, eventSequence, rng,
                   schedule, record, frame, seen>>

Schedule(due, priority) ==
    /\ EnsureRunning
    /\ EnsureNotTransitioning
    /\ clock <= due
    /\ insertions < MaxScheduled
    /\ queue' = queue \union
           {[due |-> due, priority |-> priority, insertion |-> insertions]}
    /\ insertions' = insertions + 1
    /\ UNCHANGED <<run, record, frame, seen>>

AdvanceTo(time) ==
    /\ EnsureRunning
    /\ EnsureNotTransitioning
    /\ clock <= time
    /\ EnterAdvance(time, "advance")
    /\ UNCHANGED <<before, current, candidate, request, started, duration,
                   outbox, reply, run, schedule, record, seen>>

\* submit_action enters advance_to(submitted_at) first: inputs due by the
\* submission are committed before the action is looked at.
SubmitAction(r, submittedAt) ==
    /\ EnsureRunning
    /\ EnsureNotTransitioning
    /\ clock <= submittedAt
    /\ Len(results) < MaxResults
    /\ request' = r
    /\ EnterAdvance(submittedAt, "arrival")
    /\ UNCHANGED <<before, current, candidate, started, duration,
                   outbox, reply, run, schedule, record, seen>>
-----------------------------------------------------------------------------
(* _commit_plan: sequences, RNG, log and the record of the transition       *)
(* change together or not at all.                                          *)

Identity(kind, source) ==
    [sequence |-> transitions + 1, time |-> clock, kind |-> kind, source |-> source]

Emitted(drafts) ==
    [i \in 1..Len(drafts) |->
        [sequence |-> eventSequence + i, time |-> clock, type |-> drafts[i],
         transition |-> transitions + 1]]

\* What EventBus.publish owes for a sequence of envelopes.
Owed(emitted) ==
    {d \in {emitted[i].sequence : i \in DOMAIN emitted} \X Subscribers :
        \E i \in DOMAIN emitted : emitted[i].sequence = d[1]
                                  /\ emitted[i].type \in Wants[d[2]]}

\* Fault: a plan without events does not consume a transition number.
CommitPlanUncounted(drafts) ==
    /\ transitions' = IF drafts = <<>> THEN transitions ELSE transitions + 1
    /\ eventSequence' = eventSequence + Len(drafts)
    /\ rng' = candidate
    /\ events' = events \o Emitted(drafts)
    /\ outbox' = Owed(Emitted(drafts))
    /\ pc' = "publish"

\* Fault: the whole log is published instead of the events just emitted.
CommitPlanRepublishing(drafts) ==
    /\ transitions' = transitions + 1
    /\ eventSequence' = eventSequence + Len(drafts)
    /\ rng' = candidate
    /\ events' = events \o Emitted(drafts)
    /\ outbox' = Owed(events \o Emitted(drafts))
    /\ pc' = "publish"

CommitPlan(drafts) ==
    /\ transitions' = transitions + 1
    /\ eventSequence' = eventSequence + Len(drafts)
    /\ rng' = candidate
    /\ events' = events \o Emitted(drafts)
    /\ outbox' = Owed(Emitted(drafts))
    /\ pc' = "publish"

\* Fault: the handler is given the run's RNG, not a clone.
DrawCommitted ==
    /\ pc \in {"dispatch", "resolve"}
    /\ candidate < MaxDraws
    /\ candidate' = candidate + 1
    /\ rng' = rng + 1
    /\ UNCHANGED <<pc, purpose, target, before, current, request, started,
                   duration, outbox, active, reply, status, clock, transitions,
                   eventSequence, schedule, record, seen>>

\* A handler's resolve draws from the clone it was given.
Draw ==
    /\ pc \in {"dispatch", "resolve"}
    /\ candidate < MaxDraws
    /\ candidate' = candidate + 1
    /\ UNCHANGED <<pc, purpose, target, before, current, request, started,
                   duration, outbox, active, reply, run, schedule, record, seen>>
-----------------------------------------------------------------------------
(* _advance_to                                                             *)

BeginDispatch ==
    /\ pc = "advance"
    /\ \E e \in Due(target) :
        /\ IsHead(e)
        /\ before' = clock
        /\ current' = e
        /\ clock' = e.due
    /\ candidate' = rng
    /\ pc' = "dispatch"
    /\ UNCHANGED <<status, transitions, eventSequence, rng, purpose, target,
                   request, started, duration, outbox, active, reply,
                   schedule, record, seen>>

\* Fault: a failed dispatch leaves the clock at the input's due time.
DispatchFailsUnrestored ==
    /\ pc = "dispatch"
    /\ Return("raised")
    /\ UNCHANGED <<run, schedule, record, seen>>

\* Fault: the input is popped before its handler runs, and lost with it.
DispatchFailsConsuming ==
    /\ pc = "dispatch"
    /\ clock' = before
    /\ queue' = queue \ {current}
    /\ Return("raised")
    /\ UNCHANGED <<status, transitions, eventSequence, rng, insertions, record, seen>>

\* The handler is missing, or validate, resolve or the plan raises before the
\* commit: the clock is restored and the exception ends the whole call, a
\* submit_action whose duration is elapsing included.
DispatchFails ==
    /\ pc = "dispatch"
    /\ clock' = before
    /\ Return("raised")
    /\ UNCHANGED <<status, transitions, eventSequence, rng, schedule, record, seen>>

CommitSystemEvent ==
    /\ pc = "dispatch"
    /\ \E drafts \in Drafts : CommitPlan(drafts)
    /\ queue' = queue \ {current}
    /\ outcomes' = Append(outcomes,
           [insertion |-> current.insertion,
            transition |-> Identity("SCHEDULED_EVENT", current.insertion)])
    /\ UNCHANGED <<status, clock, insertions, results, purpose, target, before,
                   current, candidate, request, started, duration, active,
                   reply, seen>>

\* The loop is over: the clock reaches the target and control goes back to
\* where the advance was asked for.
ReachTarget(why) ==
    /\ pc = "advance"
    /\ purpose = why
    /\ Due(target) = {}
    /\ clock' = target
    /\ UNCHANGED <<status, transitions, eventSequence, rng, schedule, record, seen>>

FinishAdvance == ReachTarget("advance") /\ Return("returned")

FinishArrival ==
    /\ ReachTarget("arrival")
    /\ started' = target
    /\ pc' = "validate"
    /\ UNCHANGED <<purpose, target, before, current, candidate, request,
                   duration, outbox, active, reply>>

FinishElapse ==
    /\ ReachTarget("elapse")
    /\ pc' = "completion"
    /\ UNCHANGED <<purpose, target, before, current, candidate, request,
                   started, duration, outbox, active, reply>>
-----------------------------------------------------------------------------
(* submit_action after the arrival                                         *)

RecordResult(outcome, identity) ==
    results' = Append(results,
        [request |-> request, status |-> outcome, started |-> started,
         resolved |-> clock, transition |-> identity])

\* ActionValidationError from validate or prepare.
RejectAction ==
    /\ pc = "validate"
    /\ RecordResult("REJECTED", NoTransition)
    /\ Return("returned")
    /\ UNCHANGED <<events, outcomes, run, schedule, seen>>

\* Fault: a completion failure returns without recording its result.
FailActionUnrecorded ==
    /\ pc = "completion"
    /\ Return("returned")
    /\ UNCHANGED <<record, run, schedule, seen>>

\* ActionValidationError from validate_completion.
FailAction ==
    /\ pc = "completion"
    /\ RecordResult("FAILED", NoTransition)
    /\ Return("returned")
    /\ UNCHANGED <<events, outcomes, run, schedule, seen>>

\* No handler for the request, or any other exception of its callbacks or of
\* its plan: no result is recorded, and what the arrival and the elapsed
\* duration committed stays.
AbortAction ==
    /\ pc \in {"validate", "completion", "resolve"}
    /\ Return("raised")
    /\ UNCHANGED <<run, schedule, record, seen>>

\* A timed handler: prepare gives the duration, which then elapses.
BeginElapse(d) ==
    /\ pc = "validate"
    /\ started + d <= MaxTime
    /\ duration' = d
    /\ EnterAdvance(started + d, "elapse")
    /\ UNCHANGED <<before, current, candidate, request, started, outbox, reply,
                   run, schedule, record, seen>>

\* An untimed handler resolves at once, a timed one after its completion check.
BeginResolve ==
    /\ pc \in {"validate", "completion"}
    /\ pc' = "resolve"
    /\ candidate' = rng
    /\ UNCHANGED <<purpose, target, before, current, request, started, duration,
                   outbox, active, reply, run, schedule, record, seen>>

CommitAction ==
    /\ pc = "resolve"
    /\ \E drafts \in Drafts : CommitPlan(drafts)
    /\ RecordResult("SUCCEEDED", Identity("ACTION", request))
    /\ purpose' = "commit"
    /\ UNCHANGED <<status, clock, outcomes, schedule, target, before, current,
                   candidate, request, started, duration, active, reply, seen>>
-----------------------------------------------------------------------------
(* _publish_events and EventBus.publish                                    *)

Precedes(c, d) == c[1] < d[1] \/ (c[1] = d[1] /\ c[2] < d[2])

IsNextDelivery(d) == d \in outbox /\ \A other \in outbox \ {d} : Precedes(d, other)

Deliver ==
    /\ pc = "publish"
    /\ \E d \in outbox :
        /\ IsNextDelivery(d)
        /\ outbox' = outbox \ {d}
        /\ delivered' = Append(delivered, d)
    /\ UNCHANGED <<pc, purpose, target, before, current, candidate, request,
                   started, duration, active, reply, run, schedule, record, lost>>

\* EventDeliveryError: the commit stands, the rest of the call does not happen.
DeliveryFails ==
    /\ pc = "publish"
    /\ outbox # {}
    /\ lost' = lost \union outbox
    /\ Return("raised")
    /\ UNCHANGED <<delivered, run, schedule, record>>

Published ==
    /\ pc = "publish"
    /\ outbox = {}
    /\ \/ /\ purpose = "commit"
          /\ Return("returned")
       \/ /\ purpose # "commit"
          /\ pc' = "advance"
          /\ UNCHANGED <<purpose, target, before, current, candidate, request,
                         started, duration, outbox, active, reply>>
    /\ UNCHANGED <<run, schedule, record, seen>>
-----------------------------------------------------------------------------
Calls ==
    \/ Boot
    \/ Close
    \/ \E due \in Times, p \in Priorities : Schedule(due, p)
    \/ \E t \in Times : AdvanceTo(t)
    \/ \E r \in Requests, t \in Times : SubmitAction(r, t)

Advancing ==
    \/ BeginDispatch \/ DispatchFails \/ CommitSystemEvent
    \/ FinishAdvance \/ FinishArrival \/ FinishElapse

Acting ==
    \/ RejectAction \/ FailAction \/ AbortAction
    \/ \E d \in 1..MaxDuration : BeginElapse(d)
    \/ BeginResolve \/ CommitAction

Publishing == Deliver \/ DeliveryFails \/ Published

\* What the kernel does inside a call; Calls are what its users do.
Internal == Draw \/ Advancing \/ Acting \/ Publishing

Next == Calls \/ Internal

Spec == Init /\ [][Next]_vars

\* A call runs to its end on one thread: its callbacks return or raise, and
\* nothing else runs meanwhile.
FairSpec == Spec /\ WF_vars(Internal)
-----------------------------------------------------------------------------
(* Properties                                                              *)

RunOK ==
    /\ status \in {"CREATED", "RUNNING", "CLOSED"}
    /\ clock \in Times
    /\ transitions \in Nat /\ eventSequence \in Nat /\ rng \in Nat

ScheduleOK == queue \subseteq Items /\ insertions \in Nat

RecordOK ==
    /\ events \in Seq(Envelopes)
    /\ results \in Seq(Results)
    /\ outcomes \in Seq(Outcomes)

FrameOK ==
    /\ pc \in {"idle", "advance", "dispatch", "publish",
               "validate", "completion", "resolve"}
    /\ purpose \in {"none", "advance", "arrival", "elapse", "commit"}
    /\ target \in Times /\ before \in Times /\ started \in Times
    /\ current \in Items \union {NoItem} /\ candidate \in Nat
    /\ request \in Requests \union {NoRequest}
    /\ duration \in 0..MaxDuration
    /\ outbox \subseteq Deliveries
    /\ reply \in {"none", "returned", "raised"}

SeenOK == delivered \in Seq(Deliveries) /\ lost \subseteq Deliveries

\* The types of the kernel's fields and of the call in progress.
TypeOK ==
    /\ RunOK /\ ScheduleOK /\ RecordOK /\ FrameOK /\ SeenOK
    /\ active \in BOOLEAN

Ledger == {outcomes[i].transition : i \in DOMAIN outcomes} \union
          {results[i].transition :
              i \in {j \in DOMAIN results : results[j].status = "SUCCEEDED"}}

\* The committed clock: a dispatch in progress has moved the clock to the due
\* time of its input, but nothing has happened at that time yet.
CommittedTime == IF pc = "dispatch" THEN before ELSE clock

\* A scheduled input is never left behind in the past: no failure, return or
\* end of an advance leaves the clock beyond an input still pending
\* (kernel.py _advance_to and its restoration of the clock).
NothingOverdue == \A e \in queue : clock <= e.due

\* Every scheduled input is either pending or has exactly one outcome: none is
\* dropped by a failing handler or subscriber, none is executed twice.
ScheduledOnce ==
    /\ \A n \in 0..(insertions - 1) :
        \/ \E e \in queue : e.insertion = n
        \/ \E i \in DOMAIN outcomes : outcomes[i].insertion = n
    /\ \A e \in queue, i \in DOMAIN outcomes : e.insertion # outcomes[i].insertion
    /\ \A e, f \in queue : e.insertion = f.insertion => e = f
    /\ \A i, j \in DOMAIN outcomes :
        outcomes[i].insertion = outcomes[j].insertion => i = j

\* What is scheduled is never lost: an input stays pending and ahead of the
\* clock until it is executed, once, whatever raises around it.
InputsKept == NothingOverdue /\ ScheduledOnce

\* The event log is numbered without gaps in the order it was committed, its
\* times never decrease, and no event is later than the committed clock: a
\* clock restored after a failed dispatch never undercuts the log.
LogInOrder ==
    /\ eventSequence = Len(events)
    /\ \A i \in DOMAIN events :
        /\ events[i].sequence = i
        /\ events[i].time <= CommittedTime
        /\ \A j \in 1..i : events[j].time <= events[i].time

\* Every transition number up to the last has exactly one identity, held by an
\* outcome or by a succeeded result, numbers follow time, and every event
\* carries the number and the time of the transition that emitted it.
TransitionsAccounted ==
    /\ {t.sequence : t \in Ledger} = 1..transitions
    /\ \A t, u \in Ledger : t.sequence < u.sequence => t.time <= u.time
    /\ \A t, u \in Ledger : t.sequence = u.sequence => t = u
    /\ \A i \in DOMAIN events : \E t \in Ledger :
        t.sequence = events[i].transition /\ t.time = events[i].time

\* The numbering of events and that of transitions, both without gaps and
\* ordered in time, also after plans without events and plans that failed.
LogAccounted == LogInOrder /\ TransitionsAccounted

\* Actions do not overlap in logical time, resolve no earlier than they start,
\* are rejected at their start and fail only after time has passed.
ActionsDisjoint ==
    /\ \A i \in DOMAIN results :
        LET r == results[i] IN
        /\ r.started <= r.resolved /\ r.resolved <= CommittedTime
        /\ r.status = "REJECTED" => r.resolved = r.started
        /\ r.status = "FAILED" => r.started < r.resolved
        /\ r.status = "SUCCEEDED" => r.transition.time = r.resolved
    /\ \A i, j \in DOMAIN results : i < j => results[i].resolved <= results[j].started

\* What the logs say of transitions, events and results fits together: a reader
\* of the logs, the replay among them, meets no gap and no overlap in time.
RecordsAccounted == LogAccounted /\ ActionsDisjoint

\* While a handler of a scheduled input runs, that input stays the head of the
\* queue and the run stays RUNNING, whatever the handler calls: the code's
\* "scheduler head changed" error is unreachable.
DispatchUndisturbed ==
    pc = "dispatch" => IsHead(current) /\ current.due <= target /\ status = "RUNNING"

\* Every delivery the committed log owes was made, is still owed by the call
\* in progress, or was dropped by a subscriber that raised; never two of them.
DeliveriesAccounted ==
    LET made == {delivered[i] : i \in DOMAIN delivered} IN
    /\ Owed(events) = made \union outbox \union lost
    /\ made \intersect outbox = {}
    /\ made \intersect lost = {}
    /\ outbox \intersect lost = {}

\* A subscriber sees the log in order, and no event twice: deliveries are made
\* in the order of the log and, for one event, of the subscribers' keys.
DeliveredInOrder ==
    /\ \A i, j \in DOMAIN delivered : i < j => Precedes(delivered[i], delivered[j])
    /\ \A i \in DOMAIN delivered, d \in outbox : Precedes(delivered[i], d)

\* EventBus.publish: what was committed reaches its subscribers once and in
\* order, or is dropped with the call in which a subscriber raised.
PublishedOnce == DeliveriesAccounted /\ DeliveredInOrder

\* Each input that executes comes before every input still pending.
EarliestFirst ==
    [][outcomes' # outcomes => \A e \in queue' : Before(current, e)]_vars

\* The committed RNG moves only with a committed transition: what a handler
\* drew before it raised is forgotten.
RngTransactional == [][rng' # rng => transitions' = transitions + 1]_vars

\* A call that raised may have committed inputs and its own action, but
\* the call that returns has left nothing due at its target.
ReturnedIsComplete ==
    [][purpose = "advance" /\ pc' = "idle" /\ reply' = "returned" =>
         clock' = target /\ \A e \in queue' : target < e.due]_vars

\* Every call returns or raises: the loop of _advance_to consumes an input on
\* every round and no callback can schedule another one.
CallsReturn == active ~> ~active

Abstract ==
    INSTANCE Timeline WITH time <- CommittedTime, pending <- queue,
                           inserted <- insertions, committed <- transitions,
                           ledger <- Ledger

\* The kernel implements the discrete-event timeline: a dispatch is invisible
\* until it commits, and every failure leaves time where it was.
ImplementsTimeline == Abstract!Spec

Port ==
    INSTANCE Engine WITH
        phase <- status, time <- CommittedTime, call <- request,
        settled <- purpose = "commit", answer <- reply,
        record <- [i \in DOMAIN results |->
                      [request |-> results[i].request, status |-> results[i].status,
                       resolved |-> results[i].resolved]]

\* The kernel keeps the contract the game session is built on: one result at
\* most for each submit_action, recorded before it returns.
ImplementsEngine == Port!EngineSpec
=============================================================================
