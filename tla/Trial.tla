------------------------------- MODULE Trial -------------------------------
(***************************************************************************)
(* The offline trial of one language model, with event memory or by the    *)
(* older protocol without any: run_trial of experiments/alderwick.py, the  *)
(* turn of application/turns.py and decide of adapters/llm.py.  The        *)
(* stranger is played by the model; after each of its turns that moved the *)
(* clock one NPC acts.  The provider may fail or answer anything, the game *)
(* may refuse, reject, fail or raise, and the wall clock may run out at    *)
(* any point.                                                              *)
(***************************************************************************)
EXTENDS EventMemory

CONSTANTS EndTick, MaxDecisions, MaxCalls, MaxFailures,
          Window,           \* k of RecencyEventMemory, 0 for NoMemory
          Npcs,             \* NPC_ACTIVATIONS
          Actions           \* what an actor may ask for

ASSUME TrialAssumption ==
    /\ EndTick \in Nat \ {0} /\ MaxDecisions \in Nat \ {0}
    /\ MaxCalls \in Nat \ {0} /\ MaxFailures \in Nat \ {0}
    /\ Window \in Nat
    /\ Npcs \in Seq(STRING) /\ Npcs # <<>> /\ \A i \in DOMAIN Npcs : Npcs[i] # "stranger"
    /\ Actions # {}
    /\ \A a \in Actions :
        /\ a \in [kind : {"MOVE", "WAIT", "SOCIAL"}, lasts : Nat]
        /\ a.lasts = 0 => a.kind = "MOVE"

VARIABLES time,             \* kernel.simulation_time
          late,             \* the wall timeout is over
          event_mode,       \* the protocol is one with event memory
          observed,         \* how many observations the run has
          attempts,         \* research.action_traces
          archive,          \* the controller's EventTraceArchive
          decisions, activations, failures,
          served,           \* npc_index
          turn,             \* the stranger's turn in progress
          pc, stop          \* where control is; stop_reason, once it is out of the loop

world == <<time, observed, attempts>>
book == <<decisions, activations, failures, served>>
vars == <<world, late, event_mode, archive, book, turn, pc, stop>>

NoObservation == [sequence |-> 0]
NoRequest == [actor |-> "nobody"]
NoReceipt == [status |-> "NONE"]

\* COMPLETED is the status of this stop reason, TERMINATED that of the others.
Horizon == "HORIZON"
-----------------------------------------------------------------------------
\* A MOVE that cannot start is handed on, as taking no time, to be rejected.  A
\* REST is a WAIT; social requests and those for resources take one tick.
ActionDuration(a) == IF a.kind \in {"MOVE", "WAIT"} THEN a.lasts ELSE 1

\* What is left of a submission: refused before the session, traced by it,
\* submitted to the engine, the status of the receipt, and the time after it.
Refused(reason) ==
    [refusal |-> reason, traced |-> FALSE, submitted |-> FALSE, status |-> "NONE", after |-> time]
Entered(submitted, status, after) ==
    [refusal |-> "NONE", traced |-> TRUE, submitted |-> submitted, status |-> status, after |-> after]

\* The session denies a social request or cannot read the knowledge for it.
Withheld(a) ==
    {s \in {Entered(FALSE, "REJECTED", time), Entered(FALSE, "NONE", time)} : a.kind = "SOCIAL"}

\* The engine: a result after no time or all of it, or an exception in between.
Executed(a) ==
    LET d == ActionDuration(a) IN
    {Entered(TRUE, "REJECTED", time)}
    \union {Entered(TRUE, "NONE", t) : t \in time..(time + d)}
    \union {s \in {Entered(TRUE, "SUCCEEDED", time + d), Entered(TRUE, "FAILED", time + d)} : d > 0}

\* Fault: only the start of an action is held against the horizon.
SubmissionsAnyLength(a) ==
    IF late THEN {Refused("WALL_TIMEOUT")}
    ELSE {Refused("TIMING_PRECHECK_ERROR")} \union Withheld(a) \union Executed(a)

\* submit of limited_port.
Submissions(a) ==
    IF late THEN {Refused("WALL_TIMEOUT")}
    ELSE {Refused("TIMING_PRECHECK_ERROR")}
         \union IF time + ActionDuration(a) > EndTick THEN {Refused("HORIZON_ACTION")}
                ELSE Withheld(a) \union Executed(a)

ReceiptOf(s) ==
    IF s.status = "NONE" THEN NoReceipt
    ELSE [status |-> s.status, started_at |-> time, resolved_at |-> s.after]

Submitted(request, s) ==
    /\ time' = s.after
    /\ attempts' = IF s.traced
                   THEN Append(attempts, [request |-> request, receipt |-> ReceiptOf(s),
                                          engine_submitted |-> s.submitted])
                   ELSE attempts

\* What the stranger perceives, within a tick: its last receipt.
LastReceipt ==
    LET given == {i \in DOMAIN attempts : /\ attempts[i].request.actor = "stranger"
                                          /\ attempts[i].receipt # NoReceipt}
    IN  IF given = {} THEN 0 ELSE CHOOSE i \in given : \A j \in given : j <= i
-----------------------------------------------------------------------------
NoTurn ==
    [tick |-> 0, offset |-> 0, observation |-> NoObservation, opportunity |-> 0, attempt |-> 0,
     memory |-> <<>>, called |-> FALSE, request |-> NoRequest, phase |-> "NONE", failure |-> "NONE",
     protocol_failure |-> "NONE", receipt |-> NoReceipt, closed |-> 0]

Init ==
    /\ time = 0 /\ late = FALSE /\ observed = 0 /\ attempts = <<>>
    /\ event_mode \in BOOLEAN /\ archive = EmptyArchive
    /\ decisions = <<>> /\ activations = <<>> /\ failures = 0 /\ served = 0
    /\ turn = NoTurn /\ pc = "loop" /\ stop = "NONE"

\* provider_called is summed over the decisions.
Calls == Len(SelectSeq(decisions, LAMBDA d : d.called))

Bound ==
    IF late THEN "WALL_TIMEOUT"
    ELSE IF Len(decisions) >= MaxDecisions THEN "MAX_DECISIONS"
    ELSE IF Calls >= MaxCalls THEN "MAX_PROVIDER_CALLS"
    ELSE "NONE"

Stops(reason) == pc' = "end" /\ stop' = reason
Goes(to) == pc' = to /\ UNCHANGED stop

\* The loop is over, at the horizon or at a bound.
Leave ==
    /\ pc = "loop"
    /\ \/ time >= EndTick /\ Stops(Horizon)
       \/ time < EndTick /\ Bound # "NONE" /\ Stops(Bound)
    /\ UNCHANGED <<world, late, event_mode, archive, book, turn>>

Opening == [NoTurn EXCEPT !.tick = time, !.offset = Len(attempts)]

\* The turn observes and the controller opens its opportunity and selects its
\* memory; an archive that refuses is MEMORY_ERROR, without a provider call.
\* Without event memory there is nothing to open and nothing is remembered.
BeginTurn ==
    /\ pc = "loop" /\ time < EndTick /\ Bound = "NONE"
    /\ observed' = observed + 1
    /\ LET observation == Seen(observed + 1, time, LastReceipt)
           begins == event_mode => Begins(archive, observation)
           opens == event_mode /\ begins
           begun == Begun(archive, observation)
       IN  /\ archive' = IF opens THEN begun ELSE archive
           /\ turn' = [Opening EXCEPT
                         !.observation = observation,
                         !.opportunity = IF opens THEN begun.context.opportunity ELSE 0,
                         !.attempt = IF opens THEN begun.context.attempt ELSE 0,
                         !.memory = IF opens THEN Selected(archive, Window) ELSE <<>>,
                         !.called = begins,
                         !.phase = IF begins THEN "NONE" ELSE "MEMORY_ERROR",
                         !.failure = IF begins THEN "NONE" ELSE "CONTROLLER_ERROR"]
           /\ Goes(IF begins THEN "provider" ELSE "conclude")
    /\ UNCHANGED <<time, attempts, late, event_mode, book>>

\* Nothing was observed, so nothing is decided.
ObserveFails ==
    /\ pc = "loop" /\ time < EndTick /\ Bound = "NONE"
    /\ turn' = [Opening EXCEPT !.phase = "OBSERVATION_UNAVAILABLE",
                               !.failure = "OBSERVATION_UNAVAILABLE"]
    /\ Goes("conclude")
    /\ UNCHANGED <<world, late, event_mode, archive, book>>

\* Transport, identity or parser failure, a refusal, a repeated response: the
\* phase that decide was in is recorded, the turn sees no difference.
DecideFails ==
    /\ pc = "provider"
    /\ \E phase \in {"PROVIDER_ERROR", "PROVIDER_IDENTITY_MISMATCH", "INVALID_OUTPUT"} :
        turn' = [turn EXCEPT !.phase = phase, !.failure = "CONTROLLER_ERROR"]
    /\ Goes("conclude")
    /\ UNCHANGED <<world, late, event_mode, archive, book>>

Request(actor, based_on, a) == [actor |-> actor, based_on |-> based_on, action |-> a]

Decide ==
    /\ pc = "provider"
    /\ \E a \in Actions :
        turn' = [turn EXCEPT !.request = Request("stranger", turn.observation.sequence, a)]
    /\ Goes("submit")
    /\ UNCHANGED <<world, late, event_mode, archive, book>>

Submit ==
    /\ pc = "submit"
    /\ \E s \in Submissions(turn.request.action) :
        /\ Submitted(turn.request, s)
        /\ turn' = [turn EXCEPT !.receipt = ReceiptOf(s), !.protocol_failure = s.refusal,
                                !.failure = IF s.status = "NONE" THEN "SUBMISSION_ERROR" ELSE "NONE"]
    /\ Goes("close")
    /\ UNCHANGED <<observed, late, event_mode, archive, book>>

\* The attempts of this turn.
Linked(t) == {i \in DOMAIN attempts : i > t.offset /\ attempts[i].request = t.request}

\* Only what the engine was given and answered is an experience.
Eligible(t) ==
    /\ t.receipt # NoReceipt
    /\ \E i \in Linked(t) : attempts[i].engine_submitted

\* A refusal by the archive is not caught: the trial and its record are lost.
CloseTrace ==
    /\ pc = "close"
    /\ IF ~(event_mode /\ Eligible(turn)) THEN UNCHANGED <<archive, turn>> /\ Goes("conclude")
       ELSE IF Closes(archive, turn.observation, turn.receipt)
       THEN LET closed == Closed(archive, turn.observation, turn.receipt) IN
            /\ archive' = closed
            /\ turn' = [turn EXCEPT !.closed = TraceOf(closed, turn.observation)]
            /\ Goes("conclude")
       ELSE UNCHANGED <<archive, turn>> /\ Stops("LOST")
    /\ UNCHANGED <<world, late, event_mode, book>>
-----------------------------------------------------------------------------
\* Fault: the decision is linked to everything the game ever traced.
SinceStart(offset) == 1..Len(attempts)

\* action_trace_sequences: what the game traced since the turn began.
Since(offset) == (offset + 1)..Len(attempts)

Decision(t) ==
    [tick |-> t.tick, observation |-> t.observation, opportunity |-> t.opportunity,
     attempt |-> t.attempt, memory |-> t.memory, called |-> t.called, request |-> t.request,
     phase |-> t.phase, failure |-> t.failure, protocol_failure |-> t.protocol_failure,
     receipt |-> t.receipt, closed |-> t.closed, traces |-> Since(t.offset),
     activation |-> Len(activations) + 1]

Activation(actor, tick) == [actor |-> actor, tick |-> tick]

\* Fault: an answer counts as progress although it took no time.
StalledUnanswered == turn.receipt = NoReceipt

\* No answer, or an answer that took no time.
Stalled == turn.receipt = NoReceipt \/ time = turn.tick

Conclude ==
    /\ pc = "conclude"
    /\ decisions' = Append(decisions, Decision(turn))
    /\ activations' = Append(activations, Activation("stranger", turn.tick))
    /\ turn' = NoTurn
    /\ IF turn.failure = "OBSERVATION_UNAVAILABLE"
       THEN UNCHANGED failures /\ Stops(turn.failure)
       ELSE IF turn.failure = "SUBMISSION_ERROR"
       THEN /\ UNCHANGED failures
            /\ Stops(IF turn.protocol_failure # "NONE" THEN turn.protocol_failure ELSE "ENGINE_ERROR")
       ELSE IF Stalled
       THEN /\ failures' = failures + 1
            /\ IF failures + 1 >= MaxFailures THEN Stops("CONSECUTIVE_FAILURES") ELSE Goes("loop")
       ELSE /\ failures' = 0
            /\ IF time >= EndTick THEN Stops(Horizon) ELSE Goes("npc")
    /\ UNCHANGED <<world, late, event_mode, archive, served>>

NextNpc == Npcs[(served % Len(Npcs)) + 1]

\* The turn of the next NPC, recorded whatever comes of it.
Activated(failed) ==
    /\ activations' = Append(activations, Activation(NextNpc, time))
    /\ served' = served + 1
    /\ IF failed THEN Stops("NPC_TURN_FAILURE") ELSE Goes("loop")
    /\ UNCHANGED <<late, event_mode, archive, decisions, failures, turn>>

ActNpc ==
    /\ pc = "npc"
    /\ observed' = observed + 1
    /\ \E a \in Actions : \E s \in Submissions(a) :
        /\ Submitted(Request(NextNpc, observed + 1, a), s)
        /\ Activated(s.status = "NONE")

NpcObserveFails ==
    /\ pc = "npc"
    /\ Activated(TRUE)
    /\ UNCHANGED world

WallPasses ==
    /\ ~late /\ stop = "NONE"
    /\ late' = TRUE
    /\ UNCHANGED <<world, event_mode, archive, book, turn, pc, stop>>

Turn ==
    \/ BeginTurn \/ ObserveFails \/ DecideFails \/ Decide \/ Submit \/ CloseTrace \/ Conclude

Next == Leave \/ Turn \/ ActNpc \/ NpcObserveFails \/ WallPasses

Spec == Init /\ [][Next]_vars
=============================================================================
