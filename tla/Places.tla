------------------------------- MODULE Places -------------------------------
(***************************************************************************)
(* The offline Distinct Places trial: run_trial of experiments/            *)
(* memory_horizon.py over decide of adapters/llm.py.  The model's stranger *)
(* is alone in the village, starts at the square, and is to visit every    *)
(* target and come back from it before the end tick.  It may MOVE along a  *)
(* route and WAIT one tick; the provider may fail or answer anything.  Its *)
(* archive is that of EventMemory and is modelled with Trial.              *)
(***************************************************************************)
EXTENDS Naturals, Sequences, FiniteSets

CONSTANTS Square, Targets,
          Routes,           \* pairs of origin and destination
          Cost,             \* traversal_cost, one for all routes of the fixture
          EndTick, MaxDecisions, MaxCalls, MaxFailures,
          Answers           \* what the provider may return

\* An action as the model words it; NoAction is what cannot be read as one.
Move(origin, destination) == [kind |-> "MOVE", route |-> <<origin, destination>>, duration |-> 0]
Wait(n) == [kind |-> "WAIT", route |-> <<>>, duration |-> n]
Social == [kind |-> "SOCIAL", route |-> <<>>, duration |-> 0]
NoAction == [kind |-> "NONE", route |-> <<>>, duration |-> 0]

\* A response: its response_id, with Anonymous for none that is a string and ""
\* for the empty string; whether provider, version and model are the configured
\* ones; what its text says; and whether that nests deeper than the decoder's
\* recursion.  Silence is a provider that raised.
Anonymous == "anonymous"
Answer(id, genuine, says, deep) == [text |-> TRUE, id |-> id, genuine |-> genuine,
                                    says |-> says, deep |-> deep]
Silence == [text |-> FALSE, id |-> Anonymous, genuine |-> FALSE, says |-> NoAction, deep |-> FALSE]

ASSUME PlacesAssumption ==
    /\ Cost \in Nat \ {0} /\ EndTick \in Nat \ {0}
    /\ MaxDecisions \in Nat \ {0} /\ MaxCalls \in Nat \ {0} /\ MaxFailures \in Nat \ {0}
    /\ Square \notin Targets /\ Targets # {} /\ IsFiniteSet(Targets)
    /\ \A a \in Answers : /\ a.text \in BOOLEAN /\ a.genuine \in BOOLEAN /\ a.deep \in BOOLEAN
                          /\ a.says.duration \in Nat
                          /\ a.deep => a.says = NoAction
                          /\ a.says.kind = "WAIT" => a.says.duration > 0

VARIABLES time, position,   \* the kernel's clock and where the stranger is
          late,             \* the wall timeout is over
          fits,             \* the square, seen with all its exits, is within the budget
          events,           \* committed ActorMoved
          decisions, failures,
          used,             \* the controller's _response_ids
          answer,           \* the answer that an action was read from
          pc, stop          \* where control is; stop_reason, once it is out of the loop

world == <<time, position, events>>
vars == <<world, late, fits, decisions, failures, used, answer, pc, stop>>

Horizon == "HORIZON"
-----------------------------------------------------------------------------
(* The village                                                             *)

CanMove(at, route) == route \in Routes /\ route[1] = at

\* A MOVE that cannot start takes no time; it is handed on, to be rejected.
ActionDuration(at, a) ==
    CASE a.kind = "MOVE" -> IF CanMove(at, a.route) THEN Cost ELSE 0
      [] a.kind = "WAIT" -> a.duration
      [] OTHER -> 1

\* protocol_precheck, the reason first that the code tests first.
Precheck(now, at, a) ==
    IF a.kind \notin {"MOVE", "WAIT"} THEN "UNSUPPORTED_ACTION"
    ELSE IF now + ActionDuration(at, a) > EndTick THEN "HORIZON_ACTION"
    ELSE IF a.kind = "WAIT" /\ a.duration # 1 THEN "WAIT_DURATION"
    ELSE "NONE"

\* The world with one more action executed for a decision; it does so the same
\* way in the trial, in its replay and in its audit.
World(now, at, moved) == [time |-> now, position |-> at, events |-> moved]

Executed(w, a, source) ==
    IF a.kind = "MOVE" /\ ~CanMove(w.position, a.route) THEN w
    ELSE [time |-> w.time + ActionDuration(w.position, a),
          position |-> IF a.kind = "MOVE" THEN a.route[2] ELSE w.position,
          events |-> IF a.kind = "MOVE"
                     THEN Append(w.events, [to |-> a.route[2], source |-> source])
                     ELSE w.events]

Receipt(w, a) ==
    IF a.kind = "MOVE" /\ ~CanMove(w.position, a.route) THEN "REJECTED" ELSE "SUCCEEDED"

Start == World(0, Square, <<>>)
Now == World(time, position, events)
Becomes(w) == time' = w.time /\ position' = w.position /\ events' = w.events
-----------------------------------------------------------------------------
(* The trial                                                               *)

Init ==
    /\ time = 0 /\ position = Square /\ events = <<>>
    /\ late = FALSE /\ fits \in BOOLEAN
    /\ decisions = <<>> /\ failures = 0 /\ used = {} /\ answer = Silence
    /\ pc = "loop" /\ stop = "NONE"

\* Whether the place can be observed; whole says that all of the square fits.
Observes(whole, at) == whole \/ at # Square

\* What a turn leaves in the record.
Decision(given, action, failure, refusal, receipt) ==
    [sequence |-> Len(decisions) + 1, tick |-> time, answer |-> given, action |-> action, turn_failure |-> failure,
     protocol_failure |-> refusal, receipt |-> receipt,
     called |-> failure # "OBSERVATION_UNAVAILABLE",
     submitted |-> receipt # "NONE" \/ (failure = "SUBMISSION_ERROR" /\ refusal = "NONE")]

Records(d) == decisions' = Append(decisions, d)

Calls == Cardinality({i \in DOMAIN decisions : decisions[i].called})

Bound ==
    IF late THEN "WALL_TIMEOUT"
    ELSE IF Len(decisions) >= MaxDecisions THEN "MAX_DECISIONS"
    ELSE IF Calls >= MaxCalls THEN "MAX_PROVIDER_CALLS"
    ELSE "NONE"

Stops(reason) == pc' = "end" /\ stop' = reason
Goes(to) == pc' = to /\ UNCHANGED stop

\* The loop is over, at the horizon or at a bound.
Leave ==
    /\ pc = "loop"
    /\ \/ time >= EndTick /\ Stops(Horizon)
       \/ time < EndTick /\ Bound # "NONE" /\ Stops(Bound)
    /\ UNCHANGED <<world, late, fits, decisions, failures, used, answer>>

Turns == pc = "loop" /\ time < EndTick /\ Bound = "NONE"

ObserveFails ==
    /\ Turns /\ ~Observes(fits, position)
    /\ Records(Decision(Silence, NoAction, "OBSERVATION_UNAVAILABLE", "NONE", "NONE"))
    /\ Stops("OBSERVATION_UNAVAILABLE")
    /\ UNCHANGED <<world, late, fits, failures, used, answer>>

\* decide: only a genuine answer uses up its id, and an empty id is no id.
UsesId(a) == a.text /\ a.genuine /\ a.id \notin {Anonymous, ""}

\* The answer is read as an action of the configured provider and model.
Accepted(a) ==
    /\ a.text /\ a.genuine
    /\ ~(UsesId(a) /\ a.id \in used)
    /\ a.says # NoAction

\* Fault: an answer counts as progress although it took no time.
StalledUnanswered(receipt, now) == receipt = "NONE"

\* No answer, or one that took no time.
Stalled(receipt, now) == receipt = "NONE" \/ now = time

Counts(receipt, now) ==
    IF Stalled(receipt, now)
    THEN /\ failures' = failures + 1
         /\ IF failures + 1 >= MaxFailures THEN Stops("CONSECUTIVE_FAILURES") ELSE Goes("loop")
    ELSE failures' = 0 /\ Goes("loop")

Ask(a) ==
    /\ Turns /\ Observes(fits, position)
    /\ used' = used \union {i \in {a.id} : UsesId(a)}
    /\ IF Accepted(a)
       THEN answer' = a /\ Goes("submit") /\ UNCHANGED <<decisions, failures>>
       ELSE /\ Records(Decision(a, NoAction, "CONTROLLER_ERROR", "NONE", "NONE"))
            /\ Counts("NONE", time)
            /\ UNCHANGED answer
    /\ UNCHANGED <<world, late, fits>>

\* submit of the trial's port, before the game is asked.
Refusal(a) == IF late THEN "WALL_TIMEOUT" ELSE Precheck(time, position, a)

Refuse ==
    /\ pc = "submit" /\ Refusal(answer.says) # "NONE"
    /\ Records(Decision(answer, answer.says, "SUBMISSION_ERROR", Refusal(answer.says), "NONE"))
    /\ Stops(Refusal(answer.says))
    /\ UNCHANGED <<world, late, fits, failures, used, answer>>

Submit ==
    LET w == Executed(Now, answer.says, Len(decisions) + 1)
        receipt == Receipt(Now, answer.says)
    IN  /\ pc = "submit" /\ Refusal(answer.says) = "NONE"
        /\ Becomes(w)
        /\ Records(Decision(answer, answer.says, "NONE", "NONE", receipt))
        /\ Counts(receipt, w.time)
        /\ UNCHANGED <<late, fits, used, answer>>

\* The engine raises, before the action ends or once it is done.
EngineFails ==
    /\ pc = "submit" /\ Refusal(answer.says) = "NONE"
    /\ \/ \E n \in 0..ActionDuration(position, answer.says) :
            Becomes([Now EXCEPT !.time = time + n])
       \/ Becomes(Executed(Now, answer.says, Len(decisions) + 1))
    /\ Records(Decision(answer, answer.says, "SUBMISSION_ERROR", "NONE", "NONE"))
    /\ Stops("ENGINE_ERROR")
    /\ UNCHANGED <<late, fits, failures, used, answer>>

WallPasses ==
    /\ ~late /\ stop = "NONE"
    /\ late' = TRUE
    /\ UNCHANGED <<world, fits, decisions, failures, used, answer, pc, stop>>

Next ==
    \/ Leave \/ ObserveFails
    \/ \E a \in Answers : Ask(a)
    \/ Refuse \/ Submit \/ EngineFails \/ WallPasses

Spec == Init /\ [][Next]_vars
=============================================================================
