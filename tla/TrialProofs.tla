---------------------------- MODULE TrialProofs ----------------------------
(***************************************************************************)
(* Theorems about the offline trial, for every policy, every actor cycle   *)
(* and every set of actions: how it ends, what its turns take, what the    *)
(* memory of it keeps and numbers, and that its record is sound.           *)
(***************************************************************************)
EXTENDS TrialAudit, TLAPS, WellFoundedInduction, FiniteSetTheorems

TurnFields ==
    {"tick", "offset", "observation", "opportunity", "attempt", "memory", "called", "request",
     "phase", "failure", "protocol_failure", "receipt", "closed"}

Elements(s) == {s[i] : i \in DOMAIN s}
IsSequence(s) == s \in Seq(Elements(s))

InTurn == pc \in {"provider", "submit", "close", "conclude"}

Counts ==
    /\ IsSequence(decisions) /\ IsSequence(activations)
    /\ TypeOK
    /\ InTurn => Len(decisions) < MaxDecisions

\* Nothing has been answered and no time has passed since the turn began.
Unanswered ==
    /\ turn.receipt = NoReceipt /\ turn.protocol_failure = "NONE" /\ time = turn.tick

\* What a turn that is over may look like.
NotSubmitted ==
    Unanswered /\ turn.failure \in {"OBSERVATION_UNAVAILABLE", "CONTROLLER_ERROR"}

SubmissionFailed ==
    /\ turn.failure = "SUBMISSION_ERROR" /\ turn.receipt = NoReceipt
    /\ turn.protocol_failure \in {"NONE", "WALL_TIMEOUT", "TIMING_PRECHECK_ERROR", "HORIZON_ACTION"}
    /\ turn.protocol_failure = "WALL_TIMEOUT" => late
    /\ turn.protocol_failure = "HORIZON_ACTION" =>
        time + ActionDuration(turn.request.action) > EndTick

Answered ==
    /\ turn.failure = "NONE" /\ turn.receipt # NoReceipt
    /\ time = turn.tick => turn.receipt.status = "REJECTED"

TurnInv ==
    /\ DOMAIN turn = TurnFields
    /\ InTurn => turn.tick \in Nat /\ turn.tick < EndTick
    /\ pc \in {"provider", "submit"} => Unanswered
    /\ pc = "submit" => turn.request.action \in Actions
    /\ pc = "close" => SubmissionFailed \/ Answered
    /\ pc = "conclude" => NotSubmitted \/ SubmissionFailed \/ Answered

\* When the decisions that stalled in a row were taken.
RowTick == IF InTurn THEN turn.tick ELSE time

StalledAt(d, tick) ==
    d.tick = tick /\ (d.receipt = NoReceipt \/ d.receipt.status = "REJECTED")

RowInv ==
    pc # "end" =>
        /\ failures < MaxFailures /\ failures <= Len(decisions)
        /\ pc = "npc" => failures = 0
        /\ \A i \in (Len(decisions) - failures + 1)..Len(decisions) :
            StalledAt(decisions[i], RowTick)

TrialInv == Counts /\ TurnInv /\ RowInv /\ StopExplained

-----------------------------------------------------------------------------
\* Appending to a sequence adds an element and keeps the others.
LEMMA Appended ==
    ASSUME NEW s, IsSequence(s), NEW e
    PROVE  /\ IsSequence(Append(s, e))
           /\ Len(s) \in Nat /\ Len(Append(s, e)) = Len(s) + 1
           /\ \A i \in 1..Len(s) : Append(s, e)[i] = s[i]
           /\ Append(s, e)[Len(s) + 1] = e
<1>. DEFINE S == Elements(s)
            a == Append(s, e)
            T == Elements(a)
<1>1. s \in Seq(S)
  BY DEF IsSequence
<1>. HIDE DEF S
<1>2. /\ Len(s) \in Nat /\ DOMAIN s = 1..Len(s)
      /\ Len(a) = Len(s) + 1 /\ DOMAIN a = 1..(Len(s) + 1)
      /\ \A i \in 1..Len(s) : a[i] = s[i]
      /\ a[Len(s) + 1] = e
      /\ a \in Seq(S \union {e})
  BY <1>1
<1>. HIDE DEF a
<1>3. S \union {e} \subseteq T
  BY <1>2 DEF S, Elements
<1>. HIDE DEF T
<1>4. a \in Seq(T)
  <2>1. \A i \in 1..Len(a) : a[i] \in T
    BY <1>2 DEF T, Elements
  <2>. QED  BY <1>2, <1>3, <2>1
<1>. QED  BY <1>2, <1>4 DEF IsSequence, a, T

\* An action lasts a number of ticks.
LEMMA DurationIsNat == ASSUME NEW a \in Actions  PROVE ActionDuration(a) \in Nat
BY TrialAssumption DEF ActionDuration

\* What limited_port lets become of a submission: within the horizon, and with
\* an answer that took no time only if it is a rejection.
LEMMA SubmissionsBounded ==
    ASSUME NEW a \in Actions, time \in 0..EndTick, NEW s \in Submissions(a)
    PROVE  /\ s.after \in time..EndTick
           /\ \/ /\ s.refusal \in {"WALL_TIMEOUT", "TIMING_PRECHECK_ERROR", "HORIZON_ACTION"}
                 /\ s.status = "NONE" /\ s.after = time
                 /\ s.refusal = "WALL_TIMEOUT" => late
                 /\ s.refusal = "HORIZON_ACTION" => time + ActionDuration(a) > EndTick
              \/ /\ s.refusal = "NONE"
                 /\ s.status \in {"NONE", "REJECTED", "SUCCEEDED", "FAILED"}
                 /\ s.after = time => s.status \in {"NONE", "REJECTED"}
<1>. DEFINE d == ActionDuration(a)
<1>1. d \in Nat /\ EndTick \in Nat
  BY DurationIsNat, TrialAssumption
<1>. HIDE DEF d
<1>2. CASE s \in {Refused("WALL_TIMEOUT")} /\ late
  BY <1>1, <1>2 DEF Refused
<1>3. CASE s = Refused("TIMING_PRECHECK_ERROR")
  BY <1>1, <1>3 DEF Refused
<1>4. CASE s = Refused("HORIZON_ACTION") /\ time + d > EndTick
  BY <1>1, <1>4 DEF Refused, d
<1>5. CASE s \in Withheld(a)
  BY <1>1, <1>5 DEF Withheld, Entered
<1>6. CASE s \in Executed(a) /\ ~(time + d > EndTick)
  <2>1. \/ s = Entered(TRUE, "REJECTED", time)
        \/ \E t \in time..(time + d) : s = Entered(TRUE, "NONE", t)
        \/ d > 0 /\ s \in {Entered(TRUE, "SUCCEEDED", time + d), Entered(TRUE, "FAILED", time + d)}
    BY <1>6 DEF Executed, d
  <2>. QED  BY <1>1, <1>6, <2>1 DEF Entered
<1>. QED  BY <1>2, <1>3, <1>4, <1>5, <1>6 DEF Submissions, d

\* A receipt tells its status.
LEMMA ReceiptTells ==
    ASSUME NEW s
    PROVE  /\ s.status = "NONE" => ReceiptOf(s) = NoReceipt
           /\ s.status # "NONE" => ReceiptOf(s) # NoReceipt /\ ReceiptOf(s).status = s.status
BY DEF ReceiptOf, NoReceipt

\* No turn is in progress at the start and after it is recorded.
LEMMA NoTurnFields == DOMAIN NoTurn = TurnFields
BY DEF NoTurn, TurnFields

\* The invariant of a trial that has just begun.
LEMMA TrialInit == Init => TrialInv
<1>. SUFFICES ASSUME Init  PROVE TrialInv
  OBVIOUS
<1>1. /\ EndTick \in Nat /\ MaxDecisions \in Nat /\ MaxFailures \in Nat /\ MaxFailures > 0
  BY TrialAssumption
<1>2. IsSequence(<<>>)
  BY DEF IsSequence
<1>3. Counts
  <2>1. IsSequence(decisions) /\ IsSequence(activations)
    BY <1>2 DEF Init
  <2>2. /\ Len(decisions) = 0 /\ Len(activations) = 0 /\ time = 0
        /\ observed = 0 /\ failures = 0 /\ served = 0 /\ pc = "loop" /\ stop = "NONE"
    BY DEF Init
  <2>3. late \in BOOLEAN
    BY Zenon DEF Init
  <2>4. TypeOK
    BY <1>1, <2>2, <2>3 DEF TypeOK
  <2>. QED  BY <2>1, <2>2, <2>4 DEF Counts, InTurn
<1>4. TurnInv
  BY NoTurnFields DEF TurnInv, InTurn, Init
<1>5. RowInv
  <2>1. pc = "loop" /\ failures = 0 /\ Len(decisions) = 0
    BY DEF Init
  <2>2. \A i \in (Len(decisions) - failures + 1)..Len(decisions) : FALSE
    BY <2>1
  <2>. QED  BY <1>1, <2>1, <2>2 DEF RowInv
<1>6. StopExplained
  BY <1>1 DEF StopExplained, Horizon, Init
<1>. QED  BY <1>3, <1>4, <1>5, <1>6 DEF TrialInv

\* Most steps record no decision, count no failure and stop nothing.
Quiet == UNCHANGED <<decisions, activations, failures, served, stop>> /\ pc # "end" /\ pc' # "end"

\* Such a step keeps the invariant if it keeps that of the turn.
LEMMA QuietStep ==
    ASSUME TrialInv, Quiet, TurnInv', time' \in 0..EndTick, late' \in BOOLEAN,
           observed' \in Nat, RowTick' = RowTick, pc' # "npc",
           pc' \in {"loop", "provider", "submit", "close", "conclude"},
           InTurn' => Len(decisions) < MaxDecisions
    PROVE  TrialInv'
<1>1. Counts'
  BY DEF TrialInv, Quiet, Counts, TypeOK
<1>2. RowInv'
  BY DEF TrialInv, Quiet, RowInv
<1>3. stop' = "NONE" /\ time' <= EndTick
  BY TrialAssumption DEF TrialInv, Quiet, Counts, TypeOK
<1>4. StopExplained'
  BY <1>3 DEF StopExplained, Horizon
<1>. QED  BY <1>1, <1>2, <1>4 DEF TrialInv

\* The loop is left at the horizon or at the bound that is true.
LEMMA LeaveStep == TrialInv /\ Leave => TrialInv'
<1>. SUFFICES ASSUME TrialInv, Leave  PROVE TrialInv'
  OBVIOUS
<1>1. /\ UNCHANGED <<world, late, archive, book, turn>> /\ pc' = "end"
      /\ \/ time >= EndTick /\ stop' = "HORIZON"
         \/ time < EndTick /\ stop' = Bound /\ Bound # "NONE"
  BY DEF Leave, Stops, Horizon
<1>2. /\ Bound \in {"NONE", "WALL_TIMEOUT", "MAX_DECISIONS", "MAX_PROVIDER_CALLS"}
      /\ Bound = "WALL_TIMEOUT" => late
  BY DEF Bound
<1>3. EndTick \in Nat /\ time \in 0..EndTick
  BY TrialAssumption DEF TrialInv, Counts, TypeOK
<1>4. Counts'
  BY <1>1, <1>2 DEF TrialInv, Counts, TypeOK, InTurn, world, book
<1>5. TurnInv' /\ RowInv'
  BY <1>1 DEF TrialInv, TurnInv, RowInv, InTurn
<1>6. StopExplained'
  BY <1>1, <1>2, <1>3 DEF StopExplained, Horizon, world
<1>. QED  BY <1>4, <1>5, <1>6 DEF TrialInv

\* A turn begins at the present, with nothing answered.
LEMMA TurnOpens ==
    ASSUME TrialInv, pc = "loop", time < EndTick, Bound = "NONE",
           UNCHANGED <<time, attempts, late, book, stop>>, observed' \in Nat,
           DOMAIN turn' = TurnFields, turn'.tick = time,
           turn'.receipt = NoReceipt, turn'.protocol_failure = "NONE",
           \/ pc' = "provider"
           \/ /\ pc' = "conclude"
              /\ turn'.failure \in {"OBSERVATION_UNAVAILABLE", "CONTROLLER_ERROR"}
    PROVE  TrialInv'
<1>1. EndTick \in Nat /\ MaxDecisions \in Nat /\ time \in 0..EndTick
      /\ Len(decisions) \in 0..MaxDecisions /\ late \in BOOLEAN
  BY TrialAssumption DEF TrialInv, Counts, TypeOK
<1>2. Len(decisions) < MaxDecisions
  BY <1>1 DEF Bound
<1>3. TurnInv'
  BY <1>1 DEF TurnInv, InTurn, Unanswered, NotSubmitted
<1>4. RowTick' = RowTick /\ Quiet
  BY DEF RowTick, InTurn, Quiet, book
<1>. QED  BY <1>1, <1>2, <1>3, <1>4, QuietStep

\* An archive that refuses ends the turn, one that begins leads to the provider.
LEMMA BeginTurnStep == TrialInv /\ BeginTurn => TrialInv'
<1>. SUFFICES ASSUME TrialInv, BeginTurn  PROVE TrialInv'
  OBVIOUS
<1>. DEFINE observation == Seen(observed + 1, time, LastReceipt)
            begins == event_mode => Begins(archive, observation)
<1>1. PICK o, n, a, m, p :
        turn' = [Opening EXCEPT
                   !.observation = o, !.opportunity = n, !.attempt = a, !.memory = m,
                   !.called = begins, !.phase = p,
                   !.failure = IF begins THEN "NONE" ELSE "CONTROLLER_ERROR"]
  BY Zenon DEF BeginTurn
<1>2. /\ pc' = IF begins THEN "provider" ELSE "conclude"
      /\ observed' = observed + 1
      /\ pc = "loop" /\ time < EndTick /\ Bound = "NONE"
      /\ UNCHANGED <<time, attempts, late, book, stop>>
  BY DEF BeginTurn, Goes
<1>. HIDE DEF begins
<1>3. /\ DOMAIN Opening = TurnFields /\ Opening.tick = time
      /\ Opening.receipt = NoReceipt /\ Opening.protocol_failure = "NONE"
  BY DEF Opening, NoTurn, TurnFields
<1>4. /\ DOMAIN turn' = TurnFields /\ turn'.tick = time
      /\ turn'.receipt = NoReceipt /\ turn'.protocol_failure = "NONE"
      /\ turn'.failure = IF begins THEN "NONE" ELSE "CONTROLLER_ERROR"
  BY <1>1, <1>3 DEF TurnFields
<1>5. observed' \in Nat
  BY <1>2 DEF TrialInv, Counts, TypeOK
<1>6. \/ pc' = "provider"
      \/ pc' = "conclude" /\ turn'.failure \in {"OBSERVATION_UNAVAILABLE", "CONTROLLER_ERROR"}
  BY <1>2, <1>4
<1>. QED  BY <1>2, <1>4, <1>5, <1>6, TurnOpens

\* A turn without an observation is over at once.
LEMMA ObserveFailsStep == TrialInv /\ ObserveFails => TrialInv'
<1>. SUFFICES ASSUME TrialInv, ObserveFails  PROVE TrialInv'
  OBVIOUS
<1>1. /\ DOMAIN Opening = TurnFields /\ Opening.tick = time
      /\ Opening.receipt = NoReceipt /\ Opening.protocol_failure = "NONE"
  BY DEF Opening, NoTurn, TurnFields
<1>2. /\ turn' = [Opening EXCEPT !.phase = "OBSERVATION_UNAVAILABLE",
                                 !.failure = "OBSERVATION_UNAVAILABLE"]
      /\ pc' = "conclude" /\ pc = "loop" /\ time < EndTick /\ Bound = "NONE"
      /\ UNCHANGED <<time, attempts, late, book, stop>> /\ observed' = observed
  BY DEF ObserveFails, Goes, world
<1>3. /\ DOMAIN turn' = TurnFields /\ turn'.tick = time
      /\ turn'.receipt = NoReceipt /\ turn'.protocol_failure = "NONE"
      /\ turn'.failure = "OBSERVATION_UNAVAILABLE"
  BY <1>1, <1>2 DEF TurnFields
<1>4. observed' \in Nat
  BY <1>2 DEF TrialInv, Counts, TypeOK
<1>. QED  BY <1>2, <1>3, <1>4, TurnOpens

\* The provider answers with an action or fails; no time passes.
LEMMA DecideStep == TrialInv /\ (Decide \/ DecideFails) => TrialInv'
<1>. SUFFICES ASSUME TrialInv, Decide \/ DecideFails  PROVE TrialInv'
  OBVIOUS
<1>1. /\ pc = "provider" /\ UNCHANGED <<world, late, archive, book, stop>>
      /\ pc' \in {"submit", "conclude"}
  BY DEF Decide, DecideFails, Goes
<1>2. DOMAIN turn = TurnFields /\ Unanswered /\ turn.tick \in Nat /\ turn.tick < EndTick
  BY <1>1 DEF TrialInv, TurnInv, InTurn
<1>3. TurnInv' /\ turn'.tick = turn.tick
  <2>1. CASE DecideFails
    <3>1. /\ \E phase : turn' = [turn EXCEPT !.phase = phase, !.failure = "CONTROLLER_ERROR"]
          /\ pc' = "conclude"
      BY <2>1 DEF DecideFails, Goes
    <3>2. /\ DOMAIN turn' = TurnFields /\ turn'.failure = "CONTROLLER_ERROR"
          /\ turn'.tick = turn.tick /\ turn'.receipt = turn.receipt
          /\ turn'.protocol_failure = turn.protocol_failure
      BY <1>2, <3>1 DEF TurnFields
    <3>. QED  BY <1>1, <1>2, <3>1, <3>2 DEF TurnInv, InTurn, Unanswered, NotSubmitted, world
  <2>2. CASE Decide
    <3>1. PICK a \in Actions :
            turn' = [turn EXCEPT !.request = Request("stranger", turn.observation.sequence, a)]
      BY <2>2 DEF Decide
    <3>2. pc' = "submit"
      BY <2>2 DEF Decide, Goes
    <3>3. Request("stranger", turn.observation.sequence, a).action = a
      BY DEF Request
    <3>4. /\ DOMAIN turn' = TurnFields /\ turn'.request.action = a
          /\ turn'.tick = turn.tick /\ turn'.receipt = turn.receipt
          /\ turn'.protocol_failure = turn.protocol_failure
      BY <1>2, <3>1, <3>3 DEF TurnFields
    <3>. QED  BY <1>1, <1>2, <3>2, <3>4 DEF TurnInv, InTurn, Unanswered, world
  <2>. QED  BY <2>1, <2>2
<1>4. /\ time' \in 0..EndTick /\ late' \in BOOLEAN /\ observed' \in Nat
      /\ Len(decisions) < MaxDecisions
  BY <1>1 DEF TrialInv, Counts, TypeOK, InTurn, world
<1>5. RowTick' = RowTick /\ Quiet
  BY <1>1, <1>3 DEF RowTick, InTurn, Quiet, book
<1>. QED  BY <1>1, <1>3, <1>4, <1>5, QuietStep

\* A submission leaves an answer or the reason why there is none.
LEMMA SubmitStep == TrialInv /\ Submit => TrialInv'
<1>. SUFFICES ASSUME TrialInv, Submit  PROVE TrialInv'
  OBVIOUS
<1>. DEFINE action == turn.request.action
<1>1. PICK x \in Submissions(action) :
        /\ Submitted(turn.request, x)
        /\ turn' = [turn EXCEPT
              !.receipt = ReceiptOf(x), !.protocol_failure = x.refusal,
              !.failure = IF x.status = "NONE" THEN "SUBMISSION_ERROR" ELSE "NONE"]
  BY DEF Submit
<1>2. pc = "submit" /\ pc' = "close" /\ UNCHANGED <<observed, late, archive, book, stop>>
  BY DEF Submit, Goes
<1>3. /\ DOMAIN turn = TurnFields /\ Unanswered /\ turn.tick \in Nat /\ turn.tick < EndTick
      /\ action \in Actions
  BY <1>2 DEF TrialInv, TurnInv, InTurn
<1>4. time \in 0..EndTick /\ EndTick \in Nat /\ time = turn.tick
  BY <1>3, TrialAssumption DEF TrialInv, Counts, TypeOK, Unanswered
<1>5. time' = x.after
  BY <1>1 DEF Submitted
<1>6. /\ DOMAIN turn' = TurnFields /\ turn'.tick = turn.tick /\ turn'.request = turn.request
      /\ turn'.receipt = ReceiptOf(x) /\ turn'.protocol_failure = x.refusal
      /\ turn'.failure = IF x.status = "NONE" THEN "SUBMISSION_ERROR" ELSE "NONE"
  BY <1>1, <1>3 DEF TurnFields
<1>. HIDE DEF action
<1>7. /\ x.after \in time..EndTick
      /\ \/ /\ x.refusal \in {"WALL_TIMEOUT", "TIMING_PRECHECK_ERROR", "HORIZON_ACTION"}
            /\ x.status = "NONE" /\ x.after = time
            /\ x.refusal = "WALL_TIMEOUT" => late
            /\ x.refusal = "HORIZON_ACTION" => time + ActionDuration(action) > EndTick
         \/ /\ x.refusal = "NONE"
            /\ x.status \in {"NONE", "REJECTED", "SUCCEEDED", "FAILED"}
            /\ x.after = time => x.status \in {"NONE", "REJECTED"}
  BY <1>3, <1>4, SubmissionsBounded
<1>8. (SubmissionFailed \/ Answered)'
  <2>1. CASE x.status = "NONE"
    <3>1. turn'.failure = "SUBMISSION_ERROR" /\ turn'.receipt = NoReceipt
      BY <1>6, <2>1, ReceiptTells
    <3>2. /\ turn'.protocol_failure
                \in {"NONE", "WALL_TIMEOUT", "TIMING_PRECHECK_ERROR", "HORIZON_ACTION"}
          /\ turn'.protocol_failure = "WALL_TIMEOUT" => late
          /\ turn'.protocol_failure = "HORIZON_ACTION" =>
                time' + ActionDuration(turn'.request.action) > EndTick
      BY <1>5, <1>6, <1>7, <2>1 DEF action
    <3>. QED  BY <1>2, <3>1, <3>2 DEF SubmissionFailed
  <2>2. CASE x.status # "NONE"
    <3>1. /\ turn'.failure = "NONE" /\ turn'.receipt # NoReceipt
          /\ turn'.receipt.status = x.status
      BY <1>6, <2>2, ReceiptTells
    <3>2. time' = turn'.tick => x.status = "REJECTED"
      BY <1>4, <1>5, <1>6, <1>7, <2>2
    <3>. QED  BY <3>1, <3>2 DEF Answered
  <2>. QED  BY <2>1, <2>2
<1>9. TurnInv'
  BY <1>2, <1>3, <1>6, <1>8 DEF TurnInv, InTurn
<1>10. /\ time' \in 0..EndTick /\ late' \in BOOLEAN /\ observed' \in Nat
       /\ Len(decisions) < MaxDecisions
  BY <1>2, <1>4, <1>5, <1>7 DEF TrialInv, Counts, TypeOK, InTurn
<1>11. RowTick' = RowTick /\ Quiet
  BY <1>2, <1>6 DEF RowTick, InTurn, Quiet, book
<1>. QED  BY <1>2, <1>9, <1>10, <1>11, QuietStep

\* Closing the experience leaves what the turn was told.
LEMMA CloseTraceStep == TrialInv /\ CloseTrace => TrialInv'
<1>. SUFFICES ASSUME TrialInv, CloseTrace  PROVE TrialInv'
  OBVIOUS
<1>1. /\ pc = "close" /\ UNCHANGED <<world, late, book>>
      /\ \/ pc' = "conclude" /\ stop' = stop
         \/ pc' = "end" /\ stop' = "LOST"
      /\ turn' = turn \/ \E n : turn' = [turn EXCEPT !.closed = n]
  BY DEF CloseTrace, Goes, Stops
<1>2. /\ DOMAIN turn = TurnFields /\ turn.tick \in Nat /\ turn.tick < EndTick
      /\ SubmissionFailed \/ Answered
  BY <1>1 DEF TrialInv, TurnInv, InTurn
<1>3. /\ DOMAIN turn' = TurnFields
      /\ \A f \in TurnFields \ {"closed"} : turn'[f] = turn[f]
  BY <1>1, <1>2
<1>4. /\ turn'.tick = turn.tick /\ turn'.request = turn.request /\ turn'.receipt = turn.receipt
      /\ turn'.failure = turn.failure /\ turn'.protocol_failure = turn.protocol_failure
  BY <1>3 DEF TurnFields
<1>5. (SubmissionFailed \/ Answered)'
  BY <1>1, <1>2, <1>4 DEF SubmissionFailed, Answered, world
<1>6. TurnInv'
  BY <1>1, <1>2, <1>3, <1>4, <1>5 DEF TurnInv, InTurn
<1>7. /\ time' \in 0..EndTick /\ late' \in BOOLEAN /\ observed' \in Nat
      /\ Len(decisions) < MaxDecisions /\ EndTick \in Nat
  BY <1>1, TrialAssumption DEF TrialInv, Counts, TypeOK, InTurn, world
<1>8. CASE pc' = "conclude"
  <2>1. RowTick' = RowTick /\ Quiet
    BY <1>1, <1>4, <1>8 DEF RowTick, InTurn, Quiet, book
  <2>. QED  BY <1>1, <1>6, <1>7, <1>8, <2>1, QuietStep
<1>9. CASE pc' = "end"
  <2>1. Counts'
    BY <1>1, <1>7, <1>9 DEF TrialInv, Counts, TypeOK, InTurn, book
  <2>2. RowInv' /\ StopExplained'
    BY <1>1, <1>7, <1>9 DEF RowInv, StopExplained, Horizon
  <2>. QED  BY <1>6, <2>1, <2>2 DEF TrialInv
<1>. QED  BY <1>1, <1>8, <1>9

\* The NPC's turn: no decision, no stalled one before it.
LEMMA NpcStep ==
    ASSUME TrialInv, pc = "npc", time' \in time..EndTick, observed' \in Nat,
           \E failed \in BOOLEAN : Activated(failed)
    PROVE  TrialInv'
<1>1. PICK failed \in BOOLEAN : Activated(failed)
  OBVIOUS
<1>2. /\ activations' = Append(activations, Activation(NextNpc, time))
      /\ served' = served + 1 /\ UNCHANGED <<late, decisions, failures, turn>>
      /\ \/ pc' = "end" /\ stop' = "NPC_TURN_FAILURE"
         \/ pc' = "loop" /\ stop' = stop
  BY <1>1 DEF Activated, Goes, Stops
<1>3. /\ EndTick \in Nat /\ time \in 0..EndTick /\ served \in Nat /\ failures = 0
      /\ stop = "NONE" /\ Len(decisions) \in Nat
  BY TrialAssumption DEF TrialInv, Counts, TypeOK, RowInv
<1>4. /\ IsSequence(activations') /\ Len(activations') = Len(activations) + 1
      /\ Len(activations) \in Nat
  BY <1>2, Appended DEF TrialInv, Counts
<1>5. Counts'
  BY <1>2, <1>3, <1>4 DEF TrialInv, Counts, TypeOK, InTurn
<1>6. TurnInv'
  BY <1>2 DEF TrialInv, TurnInv, InTurn
<1>7. RowInv'
  <2>1. \A i \in (Len(decisions') - failures' + 1)..Len(decisions') : FALSE
    BY <1>2, <1>3
  <2>. QED  BY <1>2, <1>3, <2>1 DEF TrialInv, RowInv
<1>8. StopExplained'
  BY <1>2, <1>3 DEF StopExplained, Horizon
<1>. QED  BY <1>5, <1>6, <1>7, <1>8 DEF TrialInv

\* An NPC is within the horizon as well, and its failure ends the trial.
LEMMA ActNpcStep == TrialInv /\ (ActNpc \/ NpcObserveFails) => TrialInv'
<1>. SUFFICES ASSUME TrialInv, ActNpc \/ NpcObserveFails  PROVE TrialInv'
  OBVIOUS
<1>1. EndTick \in Nat /\ time \in 0..EndTick /\ observed \in Nat
  BY TrialAssumption DEF TrialInv, Counts, TypeOK
<1>2. CASE NpcObserveFails
  <2>1. pc = "npc" /\ time' = time /\ observed' = observed /\ Activated(TRUE)
    BY <1>2 DEF NpcObserveFails, world
  <2>2. time' \in time..EndTick /\ observed' \in Nat
    BY <1>1, <2>1
  <2>3. \E failed \in BOOLEAN : Activated(failed)
    BY <2>1, Zenon
  <2>. QED  BY <2>1, <2>2, <2>3, NpcStep
<1>3. CASE ActNpc
  <2>1. pc = "npc" /\ observed' = observed + 1
    BY <1>3 DEF ActNpc
  <2>2. PICK a \in Actions : \E x \in Submissions(a) :
          /\ Submitted(Request(NextNpc, observed + 1, a), x)
          /\ Activated(x.status = "NONE")
    BY <1>3 DEF ActNpc
  <2>3. PICK x \in Submissions(a) : time' = x.after /\ Activated(x.status = "NONE")
    BY <2>2 DEF Submitted
  <2>4. time' \in time..EndTick
    BY <1>1, <2>3, SubmissionsBounded
  <2>5. \E failed \in BOOLEAN : Activated(failed)
    BY <2>3
  <2>. QED  BY <1>1, <2>1, <2>4, <2>5, NpcStep
<1>. QED  BY <1>2, <1>3

\* The wall clock may run out at any moment.
LEMMA WallPassesStep == TrialInv /\ WallPasses => TrialInv'
<1>. SUFFICES ASSUME TrialInv, WallPasses  PROVE TrialInv'
  OBVIOUS
<1>1. /\ late' = TRUE /\ stop = "NONE" /\ UNCHANGED <<world, archive, book, turn, pc, stop>>
  BY DEF WallPasses
<1>2. Counts'
  BY <1>1 DEF TrialInv, Counts, TypeOK, InTurn, world, book
<1>3. (Unanswered' <=> Unanswered) /\ (NotSubmitted' <=> NotSubmitted) /\ (Answered' <=> Answered)
  BY <1>1 DEF Unanswered, NotSubmitted, Answered, world
<1>4. SubmissionFailed => SubmissionFailed'
  BY <1>1 DEF SubmissionFailed, world
<1>5. TurnInv'
  BY <1>1, <1>3, <1>4 DEF TrialInv, TurnInv, InTurn
<1>6. RowInv'
  BY <1>1 DEF TrialInv, RowInv, RowTick, InTurn, StalledAt, world, book
<1>7. StopExplained'
  BY <1>1 DEF TrialInv, StopExplained, Horizon, world
<1>. QED  BY <1>2, <1>5, <1>6, <1>7 DEF TrialInv

\* The turn is recorded.  A turn that stalled extends the row of those that did;
\* time cannot be at the horizon then, because the turn began before it.
LEMMA ConcludeStep == TrialInv /\ Conclude => TrialInv'
<1>. SUFFICES ASSUME TrialInv, Conclude  PROVE TrialInv'
  OBVIOUS
<1>. DEFINE n == Len(decisions)
            new == Decision(turn)
<1>1. /\ pc = "conclude" /\ decisions' = Append(decisions, new)
      /\ activations' = Append(activations, Activation("stranger", turn.tick))
      /\ turn' = NoTurn /\ UNCHANGED <<world, late, archive, served>>
  BY DEF Conclude
<1>2. /\ turn.tick \in Nat /\ turn.tick < EndTick
      /\ NotSubmitted \/ SubmissionFailed \/ Answered
  BY <1>1 DEF TrialInv, TurnInv, InTurn
<1>3. /\ new.tick = turn.tick /\ new.receipt = turn.receipt /\ new.request = turn.request
  BY DEF Decision
<1>. HIDE DEF new
<1>4. /\ IsSequence(decisions') /\ n \in Nat /\ Len(decisions') = n + 1
      /\ \A i \in 1..n : decisions'[i] = decisions[i]
      /\ decisions'[n + 1] = new
      /\ IsSequence(activations') /\ Len(activations') = Len(activations) + 1
      /\ Len(activations) \in Nat
  BY <1>1, Appended DEF TrialInv, Counts
<1>5. /\ EndTick \in Nat /\ MaxFailures \in Nat /\ MaxDecisions \in Nat
      /\ time \in 0..EndTick /\ time' = time /\ n < MaxDecisions
      /\ failures \in Nat /\ failures < MaxFailures /\ failures <= n
      /\ served \in Nat /\ Len(activations) = n + served
      /\ late' = late /\ late \in BOOLEAN /\ observed' = observed /\ observed \in Nat
      /\ stop = "NONE"
  BY <1>1, TrialAssumption DEF TrialInv, Counts, TypeOK, RowInv, InTurn, world
<1>6. \A i \in (n - failures + 1)..n : StalledAt(decisions[i], turn.tick)
  BY <1>1 DEF TrialInv, RowInv, RowTick, InTurn
<1>7. pc' \in {"loop", "npc", "end"} => TurnInv'
  BY <1>1, NoTurnFields DEF TurnInv, InTurn
<1>8. ASSUME pc' \in {"loop", "npc", "end"}, failures' \in 0..MaxFailures,
             pc' = "end" <=> stop' # "NONE"
      PROVE  Counts' /\ TurnInv'
  <2>1. Counts'
    BY <1>1, <1>4, <1>5, <1>8 DEF Counts, TypeOK, InTurn
  <2>. QED  BY <1>7, <1>8, <2>1
<1>9. ASSUME pc' = "end", failures' = failures, StopExplained', stop' # "NONE"
      PROVE  TrialInv'
  <2>1. Counts' /\ TurnInv'
    BY <1>5, <1>8, <1>9
  <2>2. RowInv'
    BY <1>9 DEF RowInv
  <2>. QED  BY <1>9, <2>1, <2>2 DEF TrialInv
<1>10. CASE turn.failure = "OBSERVATION_UNAVAILABLE"
  <2>1. failures' = failures /\ pc' = "end" /\ stop' = "OBSERVATION_UNAVAILABLE"
    BY <1>10 DEF Conclude, Stops
  <2>2. StopExplained'
    BY <1>5, <2>1 DEF StopExplained, Horizon
  <2>. QED  BY <1>9, <2>1, <2>2
<1>11. CASE turn.failure = "SUBMISSION_ERROR"
  <2>1. /\ failures' = failures /\ pc' = "end"
        /\ stop' = IF turn.protocol_failure # "NONE" THEN turn.protocol_failure
                   ELSE "ENGINE_ERROR"
    BY <1>11 DEF Conclude, Stops
  <2>2. SubmissionFailed
    BY <1>2, <1>11 DEF NotSubmitted, Answered
  <2>3. stop' \in {"ENGINE_ERROR", "WALL_TIMEOUT", "TIMING_PRECHECK_ERROR", "HORIZON_ACTION"}
    BY <2>1, <2>2 DEF SubmissionFailed
  <2>4. stop' = "WALL_TIMEOUT" => late'
    BY <1>5, <2>1, <2>2 DEF SubmissionFailed
  <2>5. stop' = "HORIZON_ACTION" =>
            time' + ActionDuration(decisions'[Len(decisions')].request.action) > EndTick
    BY <1>3, <1>4, <1>5, <2>1, <2>2 DEF SubmissionFailed
  <2>6. StopExplained'
    BY <1>5, <2>3, <2>4, <2>5 DEF StopExplained, Horizon
  <2>. QED  BY <1>9, <2>1, <2>3, <2>6
<1>12. CASE turn.failure \notin {"OBSERVATION_UNAVAILABLE", "SUBMISSION_ERROR"} /\ Stalled
  <2>1. /\ failures' = failures + 1
        /\ \/ /\ failures + 1 >= MaxFailures /\ pc' = "end"
              /\ stop' = "CONSECUTIVE_FAILURES"
           \/ /\ failures + 1 < MaxFailures /\ pc' = "loop" /\ stop' = stop
    BY <1>5, <1>12 DEF Conclude, Stops, Goes
  <2>2. StalledAt(new, turn.tick) /\ time = turn.tick
    BY <1>2, <1>3, <1>12
    DEF Stalled, StalledAt, NotSubmitted, SubmissionFailed, Answered, Unanswered
  <2>3. \A i \in (n - failures + 1)..(n + 1) : StalledAt(decisions'[i], time)
    <3>1. ASSUME NEW i \in (n - failures + 1)..(n + 1)
          PROVE  StalledAt(decisions'[i], time)
      <4>1. CASE i = n + 1
        BY <1>4, <2>2, <4>1
      <4>2. CASE i # n + 1
        <5>1. i \in (n - failures + 1)..n /\ i \in 1..n
          BY <1>4, <1>5, <4>2
        <5>. QED  BY <1>4, <1>6, <2>2, <5>1
      <4>. QED  BY <4>1, <4>2
    <3>. QED  BY <3>1
  <2>4. Len(decisions') - failures' + 1 = n - failures + 1 /\ failures' \in 0..MaxFailures
    BY <1>4, <1>5, <2>1
  <2>5. Counts' /\ TurnInv'
    BY <1>5, <1>8, <2>1, <2>4
  <2>6. RowInv'
    <3>1. CASE pc' = "end"
      BY <3>1 DEF RowInv
    <3>2. CASE pc' = "loop"
      <4>1. RowTick' = time
        BY <1>5, <3>2 DEF RowTick, InTurn
      <4>. QED  BY <1>4, <1>5, <2>1, <2>3, <2>4, <3>2, <4>1 DEF RowInv
    <3>. QED  BY <2>1, <3>1, <3>2
  <2>7. StopExplained'
    <3>1. CASE pc' = "loop"
      BY <1>5, <2>1, <3>1 DEF StopExplained, Horizon
    <3>2. CASE pc' = "end"
      <4>1. failures + 1 = MaxFailures /\ stop' = "CONSECUTIVE_FAILURES" /\ time < EndTick
        BY <1>2, <1>5, <2>1, <2>2, <3>2
      <4>2. \A i \in (Len(decisions') - MaxFailures + 1)..Len(decisions') :
                /\ decisions'[i].tick = time'
                /\ decisions'[i].receipt = NoReceipt \/ decisions'[i].receipt.status = "REJECTED"
        BY <1>4, <1>5, <2>3, <4>1 DEF StalledAt
      <4>. QED  BY <1>5, <4>1, <4>2 DEF StopExplained, Horizon
    <3>. QED  BY <2>1, <3>1, <3>2
  <2>. QED  BY <2>5, <2>6, <2>7 DEF TrialInv
<1>13. CASE turn.failure \notin {"OBSERVATION_UNAVAILABLE", "SUBMISSION_ERROR"} /\ ~Stalled
  <2>1. /\ failures' = 0
        /\ \/ time >= EndTick /\ pc' = "end" /\ stop' = "HORIZON"
           \/ pc' = "npc" /\ stop' = stop
    BY <1>13 DEF Conclude, Stops, Goes, Horizon
  <2>2. Counts' /\ TurnInv'
    BY <1>5, <1>8, <2>1
  <2>3. RowInv'
    <3>1. \A i \in (Len(decisions') - failures' + 1)..Len(decisions') : FALSE
      BY <1>4, <2>1
    <3>. QED  BY <1>4, <1>5, <2>1, <3>1 DEF RowInv
  <2>4. StopExplained'
    BY <1>5, <2>1 DEF StopExplained, Horizon
  <2>. QED  BY <2>2, <2>3, <2>4 DEF TrialInv
<1>. QED  BY <1>10, <1>11, <1>12, <1>13

\* Every step of a trial keeps the invariant.
LEMMA TrialStep == TrialInv /\ [Next]_vars => TrialInv'
<1>. SUFFICES ASSUME TrialInv, [Next]_vars  PROVE TrialInv'
  OBVIOUS
<1>1. CASE UNCHANGED vars
  <2>1. UNCHANGED <<time, late, observed, decisions, activations, failures, served, turn, pc, stop>>
    BY <1>1 DEF vars, world, book
  <2>. QED  BY <2>1 DEF TrialInv, Counts, TypeOK, TurnInv, RowInv, RowTick, StopExplained,
                        InTurn, Unanswered, NotSubmitted, SubmissionFailed, Answered
<1>. QED
  BY <1>1, LeaveStep, BeginTurnStep, ObserveFailsStep, DecideStep, SubmitStep, CloseTraceStep,
     ConcludeStep, ActNpcStep, WallPassesStep
  DEF Next, Turn

-----------------------------------------------------------------------------
\* The bounds of the policy are kept: never more decisions than MaxDecisions,
\* never more stalled turns in a row than MaxFailures, never past the horizon,
\* and one activation for every turn.
THEOREM TypeCorrect == Spec => []TypeOK
<1>1. TrialInv => TypeOK
  BY DEF TrialInv, Counts
<1>. QED  BY <1>1, TrialInit, TrialStep, PTL DEF Spec

\* A trial that stops has its reason in the record, whatever failed and whenever
\* the wall clock ran out: COMPLETED exactly at the horizon, a refused action
\* that would have passed it, or a full row of turns that moved no time.
THEOREM StopsForItsReason == Spec => []StopExplained
<1>1. TrialInv => StopExplained
  BY DEF TrialInv
<1>. QED  BY <1>1, TrialInit, TrialStep, PTL DEF Spec
-----------------------------------------------------------------------------
(* The memory: its archive takes every turn of the trial, and what it      *)
(* numbers as attempts of one opportunity are those at which the actor saw *)
(* the same.                                                               *)

HasLast(S) == S = {} \/ \E l \in S : \A i \in S : i <= l

\* The attempts that the stranger was told the outcome of.
Given == {i \in DOMAIN attempts : /\ attempts[i].request.actor = "stranger"
                                  /\ attempts[i].receipt # NoReceipt}

AttemptsInv == IsSequence(attempts) /\ HasLast(Given)

\* The traces of an archive are of the past of what it has open.
Older(t, a, now) ==
    /\ t.closed_at \in 0..now
    /\ t.opportunity \in Nat /\ t.opportunity <= a.context.opportunity
    /\ t.observation.sequence \in Nat
    /\ t.observation.sequence <= a.context.observation.sequence
    /\ a.closed = FALSE =>
        /\ t.opportunity < a.context.opportunity
        /\ t.observation.sequence < a.context.observation.sequence

Orderly(a, now) ==
    /\ DOMAIN a = {"traces", "context", "closed"}
    /\ IsSequence(a.traces) /\ a.closed \in BOOLEAN
    /\ \A i \in DOMAIN a.traces :
        /\ Older(a.traces[i], a, now) /\ a.traces[i].sequence = i
        /\ i > 1 => a.traces[i - 1].closed_at <= a.traces[i].closed_at

Opened(a, now, seen, last) ==
    /\ a.context.open = TRUE
    /\ a.context.opportunity \in Nat \ {0} /\ a.context.attempt \in Nat
    /\ a.context.observation.sequence \in 1..seen
    /\ a.context.observation.time \in 0..now
    /\ a.context.observation.content \in 0..last

Kept(a, now, seen, last) ==
    /\ now \in Nat /\ seen \in Nat /\ last \in Nat
    /\ Orderly(a, now)
    /\ a = EmptyArchive \/ Opened(a, now, seen, last)

-----------------------------------------------------------------------------
\* The latest receipt is that of the last attempt that was answered.
LEMMA LastReceiptIs ==
    ASSUME AttemptsInv
    PROVE  /\ LastReceipt \in Nat
           /\ \A i \in Given : i <= LastReceipt
           /\ Given # {} => LastReceipt \in Given
<1>1. Given \subseteq Nat
  BY DEF Given, AttemptsInv, IsSequence
<1>2. LastReceipt = IF Given = {} THEN 0 ELSE CHOOSE i \in Given : \A j \in Given : j <= i
  BY DEF LastReceipt, Given
<1>3. CASE Given = {}
  BY <1>2, <1>3
<1>4. CASE Given # {}
  <2>1. \E i \in Given : \A j \in Given : j <= i
    BY <1>4 DEF AttemptsInv, HasLast
  <2>. QED  BY <1>1, <1>2, <1>4, <2>1
<1>. QED  BY <1>3, <1>4

\* An attempt is added after the others, or none is.
Adds == attempts' = attempts \/ \E e : attempts' = Append(attempts, e)

\* The latest receipt never falls back.
LEMMA LastReceiptGrows ==
    ASSUME AttemptsInv, Adds
    PROVE  /\ AttemptsInv' /\ LastReceipt \in Nat /\ LastReceipt' \in Nat
           /\ LastReceipt <= LastReceipt'
           /\ Len(attempts) \in Nat /\ Len(attempts') \in Nat /\ Len(attempts) <= Len(attempts')
           /\ DOMAIN attempts = 1..Len(attempts) /\ DOMAIN attempts' = 1..Len(attempts')
           /\ \A i \in DOMAIN attempts : attempts'[i] = attempts[i]
<1>1. /\ Len(attempts) \in Nat /\ DOMAIN attempts = 1..Len(attempts)
  BY DEF AttemptsInv, IsSequence
<1>2. CASE attempts' = attempts
  <2>1. AttemptsInv' /\ LastReceipt' = LastReceipt
    BY <1>2 DEF AttemptsInv, Given, LastReceipt
  <2>. QED  BY <1>1, <1>2, <2>1, LastReceiptIs
<1>3. ASSUME NEW e, attempts' = Append(attempts, e)
      PROVE  /\ AttemptsInv' /\ LastReceipt <= LastReceipt'
             /\ LastReceipt \in Nat /\ LastReceipt' \in Nat
             /\ Len(attempts') = Len(attempts) + 1 /\ DOMAIN attempts' = 1..(Len(attempts) + 1)
             /\ \A i \in DOMAIN attempts : attempts'[i] = attempts[i]
  <2>1. /\ IsSequence(attempts') /\ Len(attempts') = Len(attempts) + 1
        /\ \A i \in 1..Len(attempts) : attempts'[i] = attempts[i]
    BY <1>3, Appended DEF AttemptsInv
  <2>2. DOMAIN attempts' = 1..(Len(attempts) + 1)
    BY <1>1, <1>3, <2>1 DEF IsSequence
  <2>3. Given \subseteq 1..Len(attempts) /\ Given \subseteq Given'
    BY <1>1, <2>1, <2>2 DEF Given
  <2>4. Given' \subseteq Given \union {Len(attempts) + 1}
    BY <1>1, <2>1, <2>2 DEF Given
  <2>. DEFINE m == Len(attempts) + 1
  <2>5. HasLast(Given')
    <3>1. CASE m \in Given'
      <4>1. \A i \in Given' : i <= m
        BY <1>1, <2>3, <2>4
      <4>. QED  BY <3>1, <4>1 DEF HasLast
    <3>2. CASE m \notin Given'
      <4>1. Given' = Given
        BY <2>3, <2>4, <3>2
      <4>. QED  BY <4>1 DEF AttemptsInv
    <3>. QED  BY <3>1, <3>2
  <2>6. AttemptsInv'
    BY <2>1, <2>5 DEF AttemptsInv, HasLast
  <2>7. LastReceipt' \in Nat /\ \A i \in Given' : i <= LastReceipt'
    <3>1. (AttemptsInv => /\ LastReceipt \in Nat
                          /\ \A i \in Given : i <= LastReceipt)'
      BY LastReceiptIs, PTL
    <3>. QED  BY <2>6, <3>1
  <2>8. LastReceipt \in Nat /\ (Given # {} => LastReceipt \in Given)
    BY LastReceiptIs
  <2>9. LastReceipt <= LastReceipt'
    <3>1. CASE Given = {}
      BY <2>7, <3>1 DEF LastReceipt, Given
    <3>2. CASE Given # {}
      BY <2>3, <2>7, <2>8, <3>2
    <3>. QED  BY <3>1, <3>2
  <2>. QED  BY <2>1, <2>2, <2>6, <2>7, <2>8, <2>9, <1>1
<1>. QED  BY <1>1, <1>2, <1>3 DEF Adds

-----------------------------------------------------------------------------
\* What is kept stays so while time passes and observations and receipts are
\* added.
LEMMA KeptLater ==
    ASSUME NEW a, NEW now, NEW seen, NEW last, Kept(a, now, seen, last),
           NEW n \in Nat, NEW s \in Nat, NEW l \in Nat, now <= n, seen <= s, last <= l
    PROVE  Kept(a, n, s, l)
<1>1. \A t : Older(t, a, now) => Older(t, a, n)
  BY DEF Older, Kept
<1>2. Orderly(a, n)
  BY <1>1 DEF Kept, Orderly
<1>3. Opened(a, now, seen, last) => Opened(a, n, s, l)
  BY DEF Opened, Kept
<1>. QED  BY <1>2, <1>3 DEF Kept

\* What it takes to begin with an observation, and what is open then.
BeginsWith(a, o, now, seen, last) ==
    /\ Begins(a, o)
    /\ Kept(Begun(a, o), now, seen + 1, last)
    /\ Opened(Begun(a, o), now, seen + 1, last)
    /\ Begun(a, o).context = NextContext(a, o) /\ Begun(a, o).closed = FALSE
    /\ NextContext(a, o).observation = o
    /\ NextContext(a, o).opportunity \in Nat /\ NextContext(a, o).attempt \in Nat

\* The archive takes an observation that is made now, as the next one.
LEMMA BeginAccepted ==
    ASSUME NEW a, NEW now, NEW seen, NEW last, Kept(a, now, seen, last),
           NEW o, o = Seen(seen + 1, now, last)
    PROVE  BeginsWith(a, o, now, seen, last)
<1>. DEFINE c == NextContext(a, o)
            b == Begun(a, o)
<1>1. now \in Nat /\ seen \in Nat /\ last \in Nat /\ Orderly(a, now)
  BY DEF Kept
<1>2. o.sequence = seen + 1 /\ o.time = now /\ o.content = last
  BY DEF Seen
<1>3. /\ a.context.open \in BOOLEAN /\ a.closed \in BOOLEAN
      /\ a.context.open = FALSE => a = EmptyArchive
      /\ a = EmptyArchive => /\ a.context.open = FALSE /\ a.traces = <<>> /\ a.closed = FALSE
      /\ a.context.open = TRUE => Opened(a, now, seen, last)
  <2>1. CASE a = EmptyArchive
    <3>1. /\ EmptyArchive.context.open = FALSE /\ EmptyArchive.traces = <<>>
          /\ EmptyArchive.closed = FALSE
      BY DEF EmptyArchive, NoContext
    <3>. QED  BY <2>1, <3>1
  <2>2. CASE Opened(a, now, seen, last)
    <3>1. a.context.open = TRUE /\ a.closed \in BOOLEAN
      BY <1>1, <2>2 DEF Opened, Orderly
    <3>2. EmptyArchive.context.open = FALSE
      BY DEF EmptyArchive, NoContext
    <3>. QED  BY <2>2, <3>1, <3>2
  <2>. QED  BY <2>1, <2>2 DEF Kept
<1>4. /\ c.observation = o /\ c.open = TRUE
      /\ c.opportunity = (IF a.context.open THEN a.context.opportunity ELSE 0)
                         + (IF Opens(a, o) THEN 1 ELSE 0)
      /\ c.attempt = IF Opens(a, o) THEN 1 ELSE a.context.attempt + 1
  BY DEF NextContext
<1>5. /\ a.context.open = FALSE => Opens(a, o)
      /\ a.closed = TRUE => Opens(a, o)
  BY <1>3 DEF Opens
<1>6. c.opportunity \in Nat \ {0} /\ c.attempt \in Nat
  BY <1>3, <1>4, <1>5 DEF Opened
<1>. HIDE DEF c
<1>7. b = [a EXCEPT !.context = c, !.closed = FALSE]
  BY DEF Begun, c
<1>8. /\ DOMAIN b = {"traces", "context", "closed"} /\ b.context = c
      /\ b.closed = FALSE /\ b.traces = a.traces
  BY <1>1, <1>7 DEF Orderly
<1>. HIDE DEF b
<1>9. ASSUME NEW i \in DOMAIN a.traces
      PROVE  /\ Older(a.traces[i], a, now) /\ a.traces[i].sequence = i /\ i \in Nat
             /\ i > 1 => /\ i - 1 \in DOMAIN a.traces
                         /\ a.traces[i - 1].closed_at <= a.traces[i].closed_at
             /\ a.traces[i].opportunity < c.opportunity
             /\ a.traces[i].observation.sequence < seen + 1
             /\ Older(a.traces[i], b, now)
  <2>1. /\ Older(a.traces[i], a, now) /\ a.traces[i].sequence = i
        /\ i > 1 => a.traces[i - 1].closed_at <= a.traces[i].closed_at
    BY <1>1 DEF Orderly
  <2>2. IsSequence(a.traces)
    BY <1>1 DEF Orderly
  <2>3. i \in Nat /\ (i > 1 => i - 1 \in DOMAIN a.traces) /\ a.traces # <<>>
    BY <2>2 DEF IsSequence
  <2>4. Opened(a, now, seen, last) /\ a.context.open = TRUE
    BY <1>3, <2>3
  <2>5. a.traces[i].opportunity < c.opportunity
    BY <1>3, <1>4, <1>5, <2>1, <2>4 DEF Older, Opened
  <2>6. a.traces[i].observation.sequence < seen + 1
    BY <1>1, <2>1, <2>4 DEF Older, Opened
  <2>7. Older(a.traces[i], b, now)
    BY <1>1, <1>2, <1>4, <1>6, <1>8, <2>1, <2>5, <2>6 DEF Older
  <2>. QED  BY <2>1, <2>3, <2>5, <2>6, <2>7
<1>10. IsPast(a.traces, o, c.opportunity)
  <2>1. ASSUME NEW i \in DOMAIN a.traces
        PROVE  /\ a.traces[i].opportunity < c.opportunity
               /\ a.traces[i].observation.sequence < o.sequence
               /\ a.traces[i].closed_at <= o.time
               /\ i > 1 => /\ a.traces[i - 1].sequence < a.traces[i].sequence
                           /\ a.traces[i - 1].closed_at <= a.traces[i].closed_at
    <3>1. a.traces[i].closed_at <= o.time
      <4>1. a.traces[i].closed_at \in 0..now
        BY <1>9 DEF Older
      <4>. QED  BY <1>1, <1>2, <4>1
    <3>2. i > 1 => a.traces[i - 1].sequence = i - 1 /\ i - 1 < i /\ a.traces[i].sequence = i
      BY <1>9
    <3>. QED  BY <1>2, <1>9, <3>1, <3>2
  <2>. QED  BY <2>1 DEF IsPast
<1>11. Forward(a, o)
  <2>. SUFFICES ASSUME a.context.open
                PROVE  /\ a.context.observation.sequence < o.sequence
                       /\ a.context.observation.sequence <= o.sequence
                       /\ a.context.observation.time <= o.time
                       /\ a.traces # <<>> => a.traces[Len(a.traces)].closed_at <= o.time
    BY DEF Forward
  <2>1. Opened(a, now, seen, last)
    BY <1>3
  <2>2. a.traces # <<>> => Len(a.traces) \in DOMAIN a.traces
    BY <1>1 DEF Orderly, IsSequence
  <2>3. a.traces # <<>> => a.traces[Len(a.traces)].closed_at \in 0..now
    BY <1>9, <2>2 DEF Older
  <2>4. /\ a.context.observation.sequence \in 1..seen
        /\ a.context.observation.time \in 0..now
    BY <2>1 DEF Opened
  <2>. QED  BY <1>1, <1>2, <2>3, <2>4
<1>12. Orderly(b, now)
  BY <1>1, <1>8, <1>9 DEF Orderly
<1>13. Opened(b, now, seen + 1, last)
  BY <1>1, <1>2, <1>4, <1>6, <1>8 DEF Opened
<1>. QED  BY <1>1, <1>4, <1>6, <1>8, <1>10, <1>11, <1>12, <1>13
  DEF BeginsWith, Begins, Kept, b, c

\* What it takes to close with an answer, and what is closed then.
ClosesWith(a, o, r, now, seen, last) ==
    /\ Closes(a, o, r)
    /\ Kept(Closed(a, o, r), now, seen, last) /\ Closed(a, o, r) # EmptyArchive
    /\ Closed(a, o, r).context = a.context /\ Closed(a, o, r).closed = TRUE

\* The archive takes the answer to what it has open, once.
LEMMA CloseAccepted ==
    ASSUME NEW a, NEW now, NEW seen, NEW last, Kept(a, now, seen, last),
           NEW o, a # EmptyArchive, a.closed = FALSE, a.context.observation = o,
           NEW r, BoundTo(o, r), r.resolved_at = now
    PROVE  ClosesWith(a, o, r, now, seen, last)
<1>. DEFINE t == [sequence |-> Len(a.traces) + 1, opportunity |-> a.context.opportunity,
                  attempt |-> a.context.attempt, observation |-> o, receipt |-> r,
                  closed_at |-> r.resolved_at]
            b == Closed(a, o, r)
<1>1. now \in Nat /\ seen \in Nat /\ last \in Nat /\ Orderly(a, now) /\ Opened(a, now, seen, last)
  BY DEF Kept
<1>2. IsSequence(a.traces) /\ Len(a.traces) \in Nat /\ DOMAIN a.traces = 1..Len(a.traces)
  BY <1>1 DEF Orderly, IsSequence
<1>3. Recorded(a, o) = {}
  BY <1>1 DEF Recorded, Orderly, Older, Opened
<1>4. Closes(a, o, r)
  BY <1>1, <1>3 DEF Closes, Opened
<1>5. b = [a EXCEPT !.closed = TRUE, !.traces = Append(a.traces, t)]
  BY <1>3 DEF Closed
<1>6. /\ t.sequence = Len(a.traces) + 1 /\ t.opportunity = a.context.opportunity
      /\ t.observation = o /\ t.closed_at = now
  OBVIOUS
<1>. HIDE DEF t
<1>7. /\ DOMAIN b = {"traces", "context", "closed"} /\ b.context = a.context
      /\ b.closed = TRUE /\ b.traces = Append(a.traces, t)
  BY <1>1, <1>5 DEF Orderly
<1>. HIDE DEF b
<1>8. /\ IsSequence(b.traces) /\ Len(b.traces) = Len(a.traces) + 1
      /\ \A i \in 1..Len(a.traces) : b.traces[i] = a.traces[i]
      /\ b.traces[Len(a.traces) + 1] = t
  BY <1>2, <1>7, Appended
<1>9. DOMAIN b.traces = 1..(Len(a.traces) + 1)
  BY <1>8 DEF IsSequence
<1>10. ASSUME NEW i \in 1..Len(a.traces)
       PROVE  /\ Older(b.traces[i], b, now) /\ b.traces[i].sequence = i
              /\ b.traces[i].closed_at \in 0..now
              /\ i > 1 => b.traces[i - 1].closed_at <= b.traces[i].closed_at
  <2>1. /\ Older(a.traces[i], a, now) /\ a.traces[i].sequence = i
        /\ i > 1 => a.traces[i - 1].closed_at <= a.traces[i].closed_at
    BY <1>1, <1>2 DEF Orderly
  <2>2. i > 1 => i - 1 \in 1..Len(a.traces)
    BY <1>2
  <2>3. Older(a.traces[i], b, now)
    BY <1>7, <2>1 DEF Older
  <2>. QED  BY <1>8, <2>1, <2>2, <2>3 DEF Older
<1>11. Older(t, b, now)
  BY <1>1, <1>6, <1>7 DEF Older, Opened
<1>12. Len(a.traces) + 1 > 1 => b.traces[Len(a.traces)].closed_at <= t.closed_at
  <2>1. Len(a.traces) + 1 > 1 => Len(a.traces) \in 1..Len(a.traces)
    BY <1>2
  <2>. QED  BY <1>1, <1>6, <1>10, <2>1
<1>13. Orderly(b, now)
  <2>1. ASSUME NEW i \in DOMAIN b.traces
        PROVE  /\ Older(b.traces[i], b, now) /\ b.traces[i].sequence = i
               /\ i > 1 => b.traces[i - 1].closed_at <= b.traces[i].closed_at
    <3>1. CASE i \in 1..Len(a.traces)
      BY <1>10, <3>1
    <3>2. CASE i = Len(a.traces) + 1
      BY <1>2, <1>6, <1>8, <1>11, <1>12, <3>2
    <3>. QED  BY <1>2, <1>9, <3>1, <3>2
  <2>. QED  BY <1>7, <1>8, <2>1 DEF Orderly
<1>14. Opened(b, now, seen, last)
  BY <1>1, <1>7 DEF Opened
<1>15. b # EmptyArchive
  BY <1>7 DEF EmptyArchive
<1>. QED  BY <1>1, <1>4, <1>7, <1>13, <1>14, <1>15 DEF ClosesWith, Kept, b

-----------------------------------------------------------------------------
\* The archive has open what the decision, or the turn, was given.
Holds(a, d) ==
    /\ a # EmptyArchive
    /\ a.context.observation = d.observation
    /\ a.context.opportunity = d.opportunity /\ a.context.attempt = d.attempt
    /\ d.tick = d.observation.time

Placed(d) ==
    /\ d.tick \in Nat /\ d.observation.content \in Nat
    /\ d.opportunity \in Nat /\ d.attempt \in Nat

Alike(p, q) == p.tick = q.tick /\ p.observation.content = q.observation.content

InOrder(p, q) ==
    /\ p.tick <= q.tick /\ p.observation.content <= q.observation.content
    /\ p.opportunity <= q.opportunity

\* Of two decisions in a row, or the last one and the turn.
Continues(p, q) ==
    /\ InOrder(p, q)
    /\ p.opportunity = q.opportunity <=> Alike(p, q) /\ ~Experienced(p)
    /\ p.opportunity = q.opportunity => q.attempt = p.attempt + 1

LastDecision == decisions[Len(decisions)]

TurnMemory ==
    InTurn =>
        IF turn.observation = NoObservation
        THEN pc = "conclude" /\ turn.failure = "OBSERVATION_UNAVAILABLE"
        ELSE /\ Holds(archive, turn) /\ Placed(turn)
             /\ decisions # <<>> => Continues(LastDecision, turn)

\* The turn has made no attempt before it submits, and at most its own then.
TurnAttempts ==
    InTurn =>
        /\ turn.phase # "MEMORY_ERROR"
        /\ turn.offset \in 0..Len(attempts)
        /\ pc \in {"provider", "submit"} => turn.offset = Len(attempts) /\ archive.closed = FALSE
        /\ pc = "close" =>
            /\ archive.closed = FALSE
            /\ \A i \in Since(turn.offset) : attempts[i].request = turn.request
            /\ turn.receipt # NoReceipt =>
                BoundTo(turn.observation, turn.receipt) /\ turn.receipt.resolved_at = time
        /\ pc = "conclude" /\ turn.observation # NoObservation =>
            (archive.closed = TRUE <=> Experienced(Decision(turn)))

RestMemory ==
    ~InTurn /\ pc # "end" =>
        IF decisions = <<>> THEN archive = EmptyArchive
        ELSE Holds(archive, LastDecision) /\ (archive.closed = TRUE <=> Experienced(LastDecision))

Pair(i, j) ==
    LET p == decisions[i]
        q == decisions[j]
    IN  /\ InOrder(p, q)
        /\ p.opportunity = q.opportunity <=>
               Alike(p, q) /\ \A k \in i..(j - 1) : ~Experienced(decisions[k])
        /\ p.opportunity = q.opportunity => q.attempt = p.attempt + (j - i)

DecisionsInv ==
    /\ \A i \in DOMAIN decisions :
        /\ decisions[i].traces \subseteq DOMAIN attempts
        /\ decisions[i].phase # "MEMORY_ERROR"
        /\ Observed(decisions[i]) \/ (i = Len(decisions) /\ pc = "end")
        /\ Observed(decisions[i]) => Placed(decisions[i])
    /\ \A i, j \in DOMAIN decisions :
        i < j /\ Observed(decisions[i]) /\ Observed(decisions[j]) => Pair(i, j)

Remembers ==
    /\ Kept(archive, time, observed, LastReceipt)
    /\ TurnMemory /\ TurnAttempts /\ RestMemory /\ DecisionsInv

\* At the start nothing is remembered.
LEMMA MemoryInit == Init => AttemptsInv /\ Remembers
<1>. SUFFICES ASSUME Init  PROVE AttemptsInv /\ Remembers
  OBVIOUS
<1>1. /\ attempts = <<>> /\ decisions = <<>> /\ archive = EmptyArchive
      /\ pc = "loop" /\ time = 0 /\ observed = 0
  BY DEF Init
<1>2. IsSequence(<<>>)
  BY DEF IsSequence
<1>3. AttemptsInv
  BY <1>1, <1>2 DEF AttemptsInv, HasLast, Given
<1>4. Kept(archive, time, observed, LastReceipt)
  <2>1. Orderly(EmptyArchive, 0)
    BY <1>2 DEF Orderly, EmptyArchive
  <2>. QED  BY <1>1, <1>3, <2>1, LastReceiptIs DEF Kept
<1>. QED
  BY <1>1, <1>3, <1>4 DEF Remembers, TurnMemory, TurnAttempts, RestMemory, DecisionsInv, InTurn

\* What attempts are added does not change what a recorded decision experienced.
LEMMA ExperienceStays ==
    ASSUME AttemptsInv, Adds, DecisionsInv, NEW i \in DOMAIN decisions
    PROVE  LET d == decisions[i] IN
           (/\ d.receipt # NoReceipt
            /\ {k \in d.traces : attempts'[k].engine_submitted} # {}) <=> Experienced(d)
<1>1. decisions[i].traces \subseteq DOMAIN attempts
  BY DEF DecisionsInv
<1>2. \A k \in DOMAIN attempts : attempts'[k] = attempts[k]
  BY LastReceiptGrows
<1>3. {k \in decisions[i].traces : attempts'[k].engine_submitted}
         = {k \in decisions[i].traces : attempts[k].engine_submitted}
  BY <1>1, <1>2
<1>. QED  BY <1>3 DEF Experienced, Entries

\* While nothing is decided, time passes and attempts are added.
LEMMA NothingDecided ==
    ASSUME TrialInv, AttemptsInv, Remembers, Adds, pc # "end",
           time' \in Nat, time <= time', observed' \in Nat, observed <= observed',
           decisions' = decisions
    PROVE  /\ Kept(archive, time', observed', LastReceipt')
           /\ DecisionsInv'
           /\ \A i \in DOMAIN decisions : Experienced(decisions[i])' <=> Experienced(decisions[i])
<1>1. /\ LastReceipt' \in Nat /\ LastReceipt <= LastReceipt'
      /\ DOMAIN attempts \subseteq DOMAIN attempts'
  BY LastReceiptGrows
<1>2. Kept(archive, time', observed', LastReceipt')
  BY <1>1, KeptLater DEF Remembers
<1>3. ASSUME NEW i \in DOMAIN decisions
      PROVE  Experienced(decisions[i])' <=> Experienced(decisions[i])
  <2>1. DecisionsInv
    BY DEF Remembers
  <2>. QED  BY <2>1, ExperienceStays DEF Experienced, Entries
<1>4. \A i, j \in DOMAIN decisions : Pair(i, j)' <=> Pair(i, j)
  <2>1. ASSUME NEW i \in DOMAIN decisions, NEW j \in DOMAIN decisions
        PROVE  Pair(i, j)' <=> Pair(i, j)
    <3>1. i..(j - 1) \subseteq DOMAIN decisions
      BY DEF TrialInv, Counts, IsSequence
    <3>2. (\A k \in i..(j - 1) : ~Experienced(decisions[k])')
              <=> \A k \in i..(j - 1) : ~Experienced(decisions[k])
      BY <1>3, <3>1
    <3>. QED  BY <3>2 DEF Pair
  <2>. QED  BY <2>1
<1>5. DecisionsInv'
  BY <1>1, <1>4 DEF Remembers, DecisionsInv, Observed
<1>. QED  BY <1>2, <1>3, <1>5

\* A turn begins: the archive takes the observation and opens another opportunity
\* exactly if something is different from the last decision's.
LEMMA BeginTurnMemory ==
    ASSUME TrialInv, AttemptsInv, Remembers, event_mode, BeginTurn
    PROVE  Remembers'
<1>1. PICK o : o = Seen(observed + 1, time, LastReceipt)
  OBVIOUS
<1>2. PICK b : b = Begun(archive, o)
  OBVIOUS
<1>3. /\ pc = "loop" /\ ~InTurn /\ observed \in Nat /\ time \in Nat /\ LastReceipt \in Nat
      /\ UNCHANGED <<time, attempts, decisions>> /\ observed' = observed + 1
      /\ Len(attempts) \in Nat
  BY LastReceiptIs DEF BeginTurn, InTurn, TrialInv, Counts, TypeOK, book, AttemptsInv, IsSequence
<1>4. /\ Begins(archive, o) /\ Kept(b, time, observed + 1, LastReceipt)
      /\ Opened(b, time, observed + 1, LastReceipt)
      /\ b.context = NextContext(archive, o) /\ b.closed = FALSE /\ b.context.observation = o
      /\ b.context.opportunity \in Nat /\ b.context.attempt \in Nat
  <2>1. Kept(archive, time, observed, LastReceipt)
    BY DEF Remembers
  <2>2. BeginsWith(archive, o, time, observed, LastReceipt)
    BY <1>1, <2>1, BeginAccepted
  <2>. QED  BY <1>2, <2>2 DEF BeginsWith
<1>5. \E m : /\ archive' = b /\ pc' = "provider"
             /\ turn' = [Opening EXCEPT
                  !.observation = o, !.opportunity = b.context.opportunity,
                  !.attempt = b.context.attempt, !.memory = m, !.called = TRUE,
                  !.phase = "NONE", !.failure = "NONE"]
  <2>. DEFINE begins == event_mode => Begins(archive, o)
              opens == event_mode /\ begins
  <2>1. \E m : /\ archive' = IF opens THEN b ELSE archive
               /\ pc' = IF begins THEN "provider" ELSE "conclude"
               /\ turn' = [Opening EXCEPT
                    !.observation = o,
                    !.opportunity = IF opens THEN b.context.opportunity ELSE 0,
                    !.attempt = IF opens THEN b.context.attempt ELSE 0,
                    !.memory = m, !.called = begins,
                    !.phase = IF begins THEN "NONE" ELSE "MEMORY_ERROR",
                    !.failure = IF begins THEN "NONE" ELSE "CONTROLLER_ERROR"]
    BY <1>1, <1>2, Zenon DEF BeginTurn, Goes
  <2>2. begins = TRUE /\ opens = TRUE
    BY <1>4
  <2>. HIDE DEF begins, opens
  <2>. QED  BY <2>1, <2>2
<1>6. /\ DOMAIN Opening = TurnFields /\ Opening.tick = time /\ Opening.offset = Len(attempts)
  BY DEF Opening, NoTurn, TurnFields
<1>7. /\ turn'.observation = o /\ turn'.opportunity = b.context.opportunity
      /\ turn'.attempt = b.context.attempt /\ turn'.tick = time /\ turn'.offset = Len(attempts)
      /\ turn'.phase = "NONE"
  BY <1>5, <1>6 DEF TurnFields
<1>8. archive' = b /\ pc' = "provider"
  BY <1>5
<1>9. /\ o.sequence = observed + 1 /\ o.time = time /\ o.content = LastReceipt
      /\ o # NoObservation
  <2>1. o.sequence = observed + 1 /\ o.time = time /\ o.content = LastReceipt
    BY <1>1 DEF Seen
  <2>2. NoObservation.sequence = 0
    BY DEF NoObservation
  <2>. QED  BY <1>3, <2>1, <2>2
<1>10. b # EmptyArchive
  BY <1>4 DEF EmptyArchive, NoContext, Opened
<1>11. Holds(b, turn') /\ Placed(turn')
  BY <1>3, <1>4, <1>7, <1>9, <1>10 DEF Holds, Placed
<1>12. ASSUME decisions # <<>>
       PROVE  Continues(LastDecision, turn')
  <2>. DEFINE p == LastDecision
              c == archive.context
  <2>1. Holds(archive, p) /\ (archive.closed = TRUE <=> Experienced(p))
    BY <1>3, <1>12 DEF Remembers, RestMemory
  <2>2. Opened(archive, time, observed, LastReceipt)
    BY <2>1 DEF Remembers, Kept, Holds
  <2>3. archive.closed \in BOOLEAN /\ c.open = TRUE
    BY <2>2 DEF Remembers, Kept, Orderly, Opened
  <2>4. /\ c.observation = p.observation /\ c.opportunity = p.opportunity /\ c.attempt = p.attempt
        /\ p.tick = p.observation.time
    BY <2>1 DEF Holds
  <2>5. Opens(archive, o) <=> ~(Alike(p, turn') /\ ~Experienced(p))
    BY <1>7, <1>9, <2>1, <2>3, <2>4 DEF Opens, Alike
  <2>6. /\ b.context.opportunity = p.opportunity + (IF Opens(archive, o) THEN 1 ELSE 0)
        /\ b.context.attempt = IF Opens(archive, o) THEN 1 ELSE p.attempt + 1
    BY <1>4, <2>3, <2>4 DEF NextContext
  <2>7. p.opportunity \in Nat /\ p.tick <= time /\ p.observation.content <= LastReceipt
    BY <1>3, <2>2, <2>4 DEF Opened
  <2>. HIDE DEF p, c
  <2>8. InOrder(p, turn')
    BY <1>7, <1>9, <2>6, <2>7 DEF InOrder
  <2>9. p.opportunity = turn'.opportunity <=> ~Opens(archive, o)
    BY <1>7, <2>6, <2>7
  <2>. QED  BY <1>7, <2>5, <2>6, <2>8, <2>9 DEF Continues, p
<1>13. Kept(archive, time, observed, LastReceipt)'
  <2>1. LastReceipt' = LastReceipt
    BY <1>3 DEF LastReceipt
  <2>. QED  BY <1>3, <1>4, <1>8, <2>1
<1>14. TurnMemory'
  BY <1>3, <1>7, <1>8, <1>9, <1>11, <1>12
  DEF TurnMemory, Continues, LastDecision, Experienced, Entries
<1>15. TurnAttempts'
  BY <1>3, <1>4, <1>7, <1>8 DEF TurnAttempts
<1>16. RestMemory'
  BY <1>8 DEF RestMemory, InTurn
<1>17. DecisionsInv'
  BY <1>3, NothingDecided DEF Adds
<1>. QED  BY <1>13, <1>14, <1>15, <1>16, <1>17 DEF Remembers

\* A turn that observes nothing leaves the archive as it is.
LEMMA ObserveFailsMemory ==
    ASSUME TrialInv, AttemptsInv, Remembers, ObserveFails
    PROVE  Remembers'
<1>1. /\ pc = "loop" /\ pc' = "conclude" /\ observed \in Nat /\ time \in Nat
      /\ UNCHANGED <<time, observed, attempts, archive, decisions>>
      /\ turn' = [Opening EXCEPT !.phase = "OBSERVATION_UNAVAILABLE",
                                 !.failure = "OBSERVATION_UNAVAILABLE"]
      /\ Len(attempts) \in Nat
  BY DEF ObserveFails, Goes, TrialInv, Counts, TypeOK, world, book, AttemptsInv, IsSequence
<1>2. /\ turn'.observation = NoObservation /\ turn'.offset = Len(attempts)
      /\ turn'.phase = "OBSERVATION_UNAVAILABLE" /\ turn'.failure = "OBSERVATION_UNAVAILABLE"
  BY <1>1 DEF Opening, NoTurn
<1>3. Kept(archive, time, observed, LastReceipt)' /\ DecisionsInv'
  BY <1>1, NothingDecided DEF Adds
<1>. QED  BY <1>1, <1>2, <1>3 DEF Remembers, TurnMemory, TurnAttempts, RestMemory, InTurn

\* What is left of the turn while nothing but its request and its end is added.
LEMMA SameTurn ==
    ASSUME TrialInv, AttemptsInv, Remembers, Adds, InTurn, turn.observation # NoObservation,
           decisions' = decisions, InTurn', time' \in Nat, time <= time', observed' = observed,
           Holds(archive', turn'), Placed(turn'), turn'.observation = turn.observation,
           turn'.tick = turn.tick, turn'.opportunity = turn.opportunity,
           turn'.attempt = turn.attempt
    PROVE  TurnMemory' /\ RestMemory' /\ DecisionsInv'
<1>1. pc # "end" /\ observed \in Nat
  BY DEF InTurn, TrialInv, Counts, TypeOK
<1>2. /\ DecisionsInv'
      /\ \A i \in DOMAIN decisions : Experienced(decisions[i])' <=> Experienced(decisions[i])
  BY <1>1, NothingDecided
<1>3. RestMemory'
  BY DEF RestMemory
<1>4. ASSUME decisions # <<>>
      PROVE  Continues(LastDecision, turn)'
  <2>1. Continues(LastDecision, turn)
    BY <1>4 DEF Remembers, TurnMemory
  <2>2. Len(decisions) \in DOMAIN decisions
    BY <1>4 DEF TrialInv, Counts, IsSequence
  <2>3. Experienced(LastDecision)' <=> Experienced(LastDecision)
    BY <1>2, <2>2 DEF LastDecision
  <2>. QED  BY <2>1, <2>3 DEF Continues, LastDecision, InOrder, Alike
<1>5. TurnMemory'
  BY <1>4 DEF TurnMemory
<1>. QED  BY <1>2, <1>3, <1>5

\* The provider answers or fails: nothing is remembered or forgotten.
LEMMA DecideMemory ==
    ASSUME TrialInv, AttemptsInv, Remembers, Decide \/ DecideFails
    PROVE  Remembers'
<1>1. /\ pc = "provider" /\ pc' \in {"submit", "conclude"} /\ InTurn /\ InTurn'
      /\ UNCHANGED <<time, observed, attempts, archive, decisions, activations>>
  BY DEF Decide, DecideFails, Goes, world, book, InTurn
<1>2. /\ DOMAIN turn = TurnFields /\ turn.receipt = NoReceipt /\ time \in Nat
      /\ Len(attempts) \in Nat
  BY <1>1 DEF TrialInv, TurnInv, Unanswered, Counts, TypeOK, AttemptsInv, IsSequence
<1>3. \/ \E r : turn' = [turn EXCEPT !.request = r]
      \/ /\ pc' = "conclude"
         /\ \E p \in {"PROVIDER_ERROR", "PROVIDER_IDENTITY_MISMATCH", "INVALID_OUTPUT"} :
                turn' = [turn EXCEPT !.phase = p, !.failure = "CONTROLLER_ERROR"]
  BY DEF Decide, DecideFails, Goes
<1>4. /\ turn'.observation = turn.observation /\ turn'.tick = turn.tick
      /\ turn'.opportunity = turn.opportunity /\ turn'.attempt = turn.attempt
      /\ turn'.offset = turn.offset /\ turn'.receipt = NoReceipt
      /\ turn'.phase \in {turn.phase, "PROVIDER_ERROR", "PROVIDER_IDENTITY_MISMATCH",
                          "INVALID_OUTPUT"}
  BY <1>2, <1>3 DEF TurnFields
<1>5. /\ turn.observation # NoObservation /\ Holds(archive, turn) /\ Placed(turn)
      /\ turn.phase # "MEMORY_ERROR" /\ turn.offset = Len(attempts) /\ archive.closed = FALSE
  BY <1>1 DEF Remembers, TurnMemory, TurnAttempts
<1>6. Holds(archive', turn') /\ Placed(turn')
  BY <1>1, <1>4, <1>5 DEF Holds, Placed
<1>7. TurnMemory' /\ RestMemory' /\ DecisionsInv'
  BY <1>1, <1>2, <1>4, <1>5, <1>6, SameTurn DEF Adds
<1>8. ~Experienced(Decision(turn))'
  BY <1>4 DEF Experienced, Decision
<1>9. TurnAttempts'
  BY <1>1, <1>2, <1>4, <1>5, <1>8 DEF TurnAttempts
<1>10. Kept(archive, time, observed, LastReceipt)'
  BY <1>1 DEF Remembers, LastReceipt
<1>. QED  BY <1>7, <1>9, <1>10 DEF Remembers

\* A rejection takes no time.
LEMMA RejectedAtOnce ==
    ASSUME NEW a \in Actions, NEW s \in Submissions(a), s.status = "REJECTED", time \in Nat
    PROVE  s.after = time
<1>1. ActionDuration(a) \in Nat
  BY DurationIsNat
<1>2. s \in {Refused("WALL_TIMEOUT"), Refused("TIMING_PRECHECK_ERROR"), Refused("HORIZON_ACTION")}
        => s.status = "NONE"
  BY DEF Refused
<1>3. CASE s \in Withheld(a)
  BY <1>3 DEF Withheld, Entered
<1>4. CASE s \in Executed(a)
  BY <1>1, <1>4 DEF Executed, Entered
<1>. QED  BY <1>2, <1>3, <1>4 DEF Submissions

\* The receipt of a submission answers what was observed when it was made.
LEMMA SubmissionBound ==
    ASSUME time \in 0..EndTick, NEW a \in Actions, NEW s \in Submissions(a), NEW o, o.time = time,
           ReceiptOf(s) # NoReceipt
    PROVE  BoundTo(o, ReceiptOf(s)) /\ ReceiptOf(s).resolved_at = s.after
<1>1. /\ s.status \in {"SUCCEEDED", "REJECTED", "FAILED"} /\ time <= s.after
      /\ s.status = "REJECTED" => s.after = time
  BY SubmissionsBounded, RejectedAtOnce, ReceiptTells
<1>2. /\ ReceiptOf(s).status = s.status /\ ReceiptOf(s).started_at = time
      /\ ReceiptOf(s).resolved_at = s.after
  BY <1>1 DEF ReceiptOf
<1>. QED  BY <1>1, <1>2 DEF BoundTo

\* The submission adds the turn's attempt, if the session was reached.
LEMMA SubmitMemory ==
    ASSUME TrialInv, AttemptsInv, Remembers, Submit
    PROVE  Remembers'
<1>. DEFINE a == turn.request.action
<1>1. PICK s \in Submissions(a) :
        /\ Submitted(turn.request, s)
        /\ turn' = [turn EXCEPT
              !.receipt = ReceiptOf(s), !.protocol_failure = s.refusal,
              !.failure = IF s.status = "NONE" THEN "SUBMISSION_ERROR" ELSE "NONE"]
  BY DEF Submit
<1>2. /\ pc = "submit" /\ pc' = "close" /\ InTurn /\ InTurn'
      /\ UNCHANGED <<observed, archive, decisions>>
  BY DEF Submit, Goes, book, InTurn
<1>3. /\ DOMAIN turn = TurnFields /\ a \in Actions /\ time = turn.tick /\ time \in 0..EndTick
      /\ EndTick \in Nat /\ observed \in Nat /\ Len(attempts) \in Nat
  BY <1>2, TrialAssumption
  DEF TrialInv, TurnInv, Unanswered, Counts, TypeOK, AttemptsInv, IsSequence
<1>4. /\ turn.observation # NoObservation /\ Holds(archive, turn) /\ Placed(turn)
      /\ turn.phase # "MEMORY_ERROR" /\ turn.offset = Len(attempts) /\ archive.closed = FALSE
  BY <1>2 DEF Remembers, TurnMemory, TurnAttempts
<1>. HIDE DEF a
<1>5. /\ turn'.observation = turn.observation /\ turn'.tick = turn.tick
      /\ turn'.opportunity = turn.opportunity /\ turn'.attempt = turn.attempt
      /\ turn'.offset = turn.offset /\ turn'.receipt = ReceiptOf(s) /\ turn'.phase = turn.phase
      /\ turn'.request = turn.request
  BY <1>1, <1>3 DEF TurnFields
<1>6. time' = s.after /\ s.after \in time..EndTick
  BY <1>1, <1>3, SubmissionsBounded DEF Submitted
<1>7. time' \in Nat /\ time <= time'
  BY <1>3, <1>6
<1>8. Adds /\ AttemptsInv'
  <2>1. Adds
    BY <1>1 DEF Submitted, Adds
  <2>. QED  BY <2>1, LastReceiptGrows
<1>9. Holds(archive', turn') /\ Placed(turn')
  BY <1>2, <1>4, <1>5 DEF Holds, Placed
<1>10. TurnMemory' /\ RestMemory' /\ DecisionsInv'
  BY <1>2, <1>4, <1>5, <1>7, <1>8, <1>9, SameTurn
<1>11. \A i \in (turn.offset + 1)..Len(attempts') : attempts'[i].request = turn.request
  <2>1. CASE attempts' = attempts
    BY <1>3, <1>4, <2>1
  <2>2. ASSUME NEW e, e.request = turn.request, attempts' = Append(attempts, e)
        PROVE  \A i \in (turn.offset + 1)..Len(attempts') : attempts'[i].request = turn.request
    BY <1>3, <1>4, <2>2, Appended DEF AttemptsInv
  <2>. QED  BY <1>1, <2>1, <2>2 DEF Submitted
<1>12. ReceiptOf(s) # NoReceipt =>
           BoundTo(turn.observation, ReceiptOf(s)) /\ ReceiptOf(s).resolved_at = s.after
  <2>1. turn.observation.time = time
    BY <1>3, <1>4 DEF Holds
  <2>. QED  BY <1>3, <2>1, SubmissionBound
<1>13. Len(attempts') \in Nat /\ Len(attempts) <= Len(attempts')
  BY <1>8, LastReceiptGrows
<1>14. TurnAttempts'
  BY <1>2, <1>3, <1>4, <1>5, <1>6, <1>11, <1>12, <1>13 DEF TurnAttempts, Since
<1>15. Kept(archive, time, observed, LastReceipt)'
  <2>1. Kept(archive, time', observed', LastReceipt')
    BY <1>2, <1>3, <1>7, <1>8, NothingDecided
  <2>. QED  BY <1>2, <2>1
<1>. QED  BY <1>10, <1>14, <1>15 DEF Remembers

\* The archive takes the answer of every turn that is eligible, and then holds
\* that its decision experienced something.
LEMMA CloseTraceMemory ==
    ASSUME TrialInv, AttemptsInv, Remembers, event_mode, CloseTrace
    PROVE  Remembers' /\ stop' = stop
<1>1. /\ pc = "close" /\ InTurn /\ UNCHANGED <<time, observed, attempts, decisions, activations>>
      /\ time \in Nat
  BY DEF CloseTrace, world, book, InTurn, TrialInv, Counts, TypeOK
<1>2. /\ turn.observation # NoObservation /\ Holds(archive, turn) /\ Placed(turn)
      /\ turn.phase # "MEMORY_ERROR" /\ turn.offset \in 0..Len(attempts)
      /\ archive.closed = FALSE
      /\ \A i \in Since(turn.offset) : attempts[i].request = turn.request
      /\ turn.receipt # NoReceipt =>
            BoundTo(turn.observation, turn.receipt) /\ turn.receipt.resolved_at = time
      /\ Kept(archive, time, observed, LastReceipt)
  BY <1>1 DEF Remembers, TurnMemory, TurnAttempts
<1>3. Eligible(turn) <=> turn.receipt # NoReceipt
                         /\ \E i \in Since(turn.offset) : attempts[i].engine_submitted
  <2>1. Len(attempts) \in Nat /\ DOMAIN attempts = 1..Len(attempts)
    BY DEF AttemptsInv, IsSequence
  <2>2. Since(turn.offset) = {i \in DOMAIN attempts : i > turn.offset}
    BY <1>2, <2>1 DEF Since
  <2>3. Linked(turn) = Since(turn.offset)
    BY <1>2, <2>2 DEF Linked
  <2>. QED  BY <2>3 DEF Eligible
<1>4. ASSUME NEW t, t.receipt = turn.receipt, t.offset = turn.offset
      PROVE  Experienced(Decision(t)) <=> Eligible(turn)
  BY <1>3, <1>4 DEF Experienced, Entries, Decision, Since
<1>5. /\ archive'.closed = TRUE <=> Eligible(turn)
      /\ pc' = "conclude" /\ stop' = stop /\ archive' # EmptyArchive
      /\ archive'.context = archive.context
      /\ Kept(archive', time, observed, LastReceipt)
      /\ turn' = turn \/ \E n : turn' = [turn EXCEPT !.closed = n]
  <2>1. CASE ~Eligible(turn)
    <3>1. archive' = archive /\ turn' = turn /\ pc' = "conclude" /\ stop' = stop
      BY <2>1 DEF CloseTrace, Goes
    <3>. QED  BY <1>2, <2>1, <3>1 DEF Holds
  <2>2. CASE Eligible(turn)
    <3>. DEFINE o == turn.observation
                r == turn.receipt
    <3>1. /\ archive # EmptyArchive /\ archive.context.observation = o
          /\ BoundTo(o, r) /\ r.resolved_at = time
      BY <1>2, <2>2 DEF Eligible, Holds
    <3>. HIDE DEF o, r
    <3>2. /\ Closes(archive, o, r)
          /\ Kept(Closed(archive, o, r), time, observed, LastReceipt)
          /\ Closed(archive, o, r) # EmptyArchive
          /\ Closed(archive, o, r).context = archive.context
          /\ Closed(archive, o, r).closed = TRUE
      <4>1. ClosesWith(archive, o, r, time, observed, LastReceipt)
        BY <1>2, <3>1, CloseAccepted
      <4>. QED  BY <4>1 DEF ClosesWith
    <3>3. /\ archive' = Closed(archive, o, r) /\ pc' = "conclude" /\ stop' = stop
          /\ \E n : turn' = [turn EXCEPT !.closed = n]
      BY <2>2, <3>2 DEF CloseTrace, Goes, o, r
    <3>. QED  BY <2>2, <3>2, <3>3
  <2>. QED  BY <2>1, <2>2
<1>6. DOMAIN turn = TurnFields
  BY DEF TrialInv, TurnInv
<1>7. /\ turn'.observation = turn.observation /\ turn'.tick = turn.tick
      /\ turn'.opportunity = turn.opportunity /\ turn'.attempt = turn.attempt
      /\ turn'.offset = turn.offset /\ turn'.receipt = turn.receipt /\ turn'.phase = turn.phase
  BY <1>5, <1>6 DEF TurnFields
<1>8. Holds(archive', turn') /\ Placed(turn') /\ InTurn'
  BY <1>2, <1>5, <1>7 DEF Holds, Placed, InTurn
<1>9. TurnMemory' /\ RestMemory' /\ DecisionsInv'
  BY <1>1, <1>2, <1>7, <1>8, SameTurn DEF Adds
<1>10. Experienced(Decision(turn))' <=> Eligible(turn)
  <2>1. PICK t : t = turn'
    OBVIOUS
  <2>2. Experienced(Decision(t)) <=> Eligible(turn)
    BY <1>4, <1>7, <2>1
  <2>3. Experienced(Decision(turn))' <=> Experienced(Decision(t))
    BY <1>1, <2>1 DEF Experienced, Entries, Decision, Since
  <2>. QED  BY <2>2, <2>3
<1>11. TurnAttempts'
  BY <1>1, <1>2, <1>5, <1>7, <1>10 DEF TurnAttempts
<1>12. Kept(archive, time, observed, LastReceipt)'
  <2>1. LastReceipt' = LastReceipt
    BY <1>1 DEF LastReceipt
  <2>. QED  BY <1>1, <1>5, <2>1
<1>. QED  BY <1>5, <1>9, <1>11, <1>12 DEF Remembers

\* Of three decisions in order the first and the last are of one opportunity, and
\* alike, if each is so with the one between.
LEMMA Between ==
    ASSUME NEW p, NEW q, NEW r, Placed(p), Placed(q), Placed(r), InOrder(p, q), InOrder(q, r)
    PROVE  /\ InOrder(p, r)
           /\ p.opportunity = r.opportunity <=>
                  p.opportunity = q.opportunity /\ q.opportunity = r.opportunity
           /\ Alike(p, r) <=> Alike(p, q) /\ Alike(q, r)
BY DEF Placed, InOrder, Alike

\* The turn is recorded: it continues the last decision, and so all before it.
LEMMA ConcludeMemory ==
    ASSUME TrialInv, AttemptsInv, Remembers, Conclude
    PROVE  Remembers'
<1>. DEFINE new == Decision(turn)
<1>0. PICK n : n = Len(decisions)
  OBVIOUS
<1>1. /\ pc = "conclude" /\ InTurn /\ ~InTurn' /\ decisions' = Append(decisions, new)
      /\ UNCHANGED <<time, observed, attempts, archive>>
      /\ turn.failure = "OBSERVATION_UNAVAILABLE" => pc' = "end"
  <2>1. pc' \in {"loop", "npc", "end"}
    BY DEF Conclude, Stops, Goes
  <2>. QED  BY <2>1 DEF Conclude, world, InTurn, Stops
<1>2. /\ new.observation = turn.observation /\ new.tick = turn.tick
      /\ new.opportunity = turn.opportunity /\ new.attempt = turn.attempt
      /\ new.phase = turn.phase /\ new.traces = Since(turn.offset)
  BY DEF Decision
<1>3. /\ turn.phase # "MEMORY_ERROR" /\ turn.offset \in 0..Len(attempts)
      /\ turn.observation # NoObservation => (archive.closed = TRUE <=> Experienced(new))
  BY <1>1 DEF Remembers, TurnAttempts
<1>. HIDE DEF new
<1>4. /\ n \in Nat /\ n = Len(decisions) /\ Len(decisions') = n + 1 /\ DOMAIN decisions = 1..n
      /\ DOMAIN decisions' = 1..(n + 1)
      /\ \A i \in 1..n : decisions'[i] = decisions[i]
      /\ decisions'[n + 1] = new
  BY <1>0, <1>1, Appended DEF TrialInv, Counts, IsSequence
<1>5. \A d : Experienced(d)' <=> Experienced(d)
  BY <1>1 DEF Experienced, Entries
<1>6. new.traces \subseteq DOMAIN attempts
  BY <1>2, <1>3 DEF Since, AttemptsInv, IsSequence
<1>7. \A i \in 1..n : Observed(decisions[i]) /\ Placed(decisions[i])
  BY <1>1, <1>4 DEF Remembers, DecisionsInv
<1>8. \A i, j \in 1..n : i < j => Pair(i, j) /\ Pair(i, j)'
  <2>1. ASSUME NEW i \in 1..n, NEW j \in 1..n, i < j
        PROVE  Pair(i, j) /\ Pair(i, j)'
    <3>1. Pair(i, j)
      BY <1>4, <1>7, <2>1 DEF Remembers, DecisionsInv
    <3>2. i..(j - 1) \subseteq 1..n
      BY <1>4
    <3>3. (\A k \in i..(j - 1) : ~Experienced(decisions[k])')
              <=> \A k \in i..(j - 1) : ~Experienced(decisions[k])
      BY <1>4, <1>5, <3>2
    <3>. QED  BY <1>4, <3>1, <3>3 DEF Pair
  <2>. QED  BY <2>1
<1>9. DecisionsInv' /\ RestMemory'
  <2>1. CASE turn.observation = NoObservation
    <3>1. pc' = "end"
      BY <1>1, <2>1 DEF Remembers, TurnMemory
    <3>2. DecisionsInv'
      BY <1>1, <1>2, <1>3, <1>4, <1>6, <1>7, <1>8, <2>1, <3>1
      DEF Remembers, DecisionsInv, Observed
    <3>. QED  BY <3>1, <3>2 DEF RestMemory
  <2>2. CASE turn.observation # NoObservation
    <3>1. /\ Holds(archive, turn) /\ Placed(turn)
          /\ decisions # <<>> => Continues(LastDecision, turn)
      BY <1>1, <2>2 DEF Remembers, TurnMemory
    <3>2. /\ Holds(archive, new) /\ Placed(new)
          /\ n > 0 => Continues(decisions[n], new)
      BY <1>2, <1>4, <3>1 DEF Holds, Placed, Continues, InOrder, Alike, LastDecision
    <3>3. ASSUME NEW i \in 1..n
          PROVE  Pair(i, n + 1)'
      <4>. DEFINE p == decisions[i]
                  q == decisions[n]
      <4>1. /\ Placed(p) /\ Placed(q) /\ Placed(new) /\ Continues(q, new)
            /\ n \in 1..n
        BY <1>4, <1>7, <3>2
      <4>2. /\ decisions'[i] = p /\ decisions'[n + 1] = new
            /\ (\A k \in i..n : ~Experienced(decisions[k])')
                  <=> (\A k \in i..n : ~Experienced(decisions[k]))
        BY <1>4, <1>5
      <4>3. CASE i = n
        BY <1>4, <4>1, <4>2, <4>3 DEF Pair, Continues
      <4>4. CASE i < n
        <5>1. /\ InOrder(p, q)
              /\ p.opportunity = q.opportunity <=>
                    Alike(p, q) /\ \A k \in i..(n - 1) : ~Experienced(decisions[k])
              /\ p.opportunity = q.opportunity => q.attempt = p.attempt + (n - i)
          BY <1>8, <4>1, <4>4 DEF Pair
        <5>2. /\ InOrder(p, new)
              /\ p.opportunity = new.opportunity <=>
                    p.opportunity = q.opportunity /\ q.opportunity = new.opportunity
              /\ Alike(p, new) <=> Alike(p, q) /\ Alike(q, new)
          BY <4>1, <5>1, Between DEF Continues
        <5>3. (\A k \in i..n : ~Experienced(decisions[k]))
                 <=> ~Experienced(q) /\ \A k \in i..(n - 1) : ~Experienced(decisions[k])
          BY <1>4, <4>4
        <5>4. p.opportunity = new.opportunity =>
                  new.attempt = p.attempt + (n + 1 - i)
          BY <1>4, <4>1, <5>1, <5>2 DEF Continues, Placed
        <5>5. p.opportunity = new.opportunity <=>
                  Alike(p, new) /\ \A k \in i..n : ~Experienced(decisions[k])
          BY <4>1, <5>1, <5>2, <5>3 DEF Continues
        <5>. HIDE DEF p, q
        <5>. QED  BY <1>4, <4>2, <5>2, <5>4, <5>5 DEF Pair
      <4>. QED  BY <1>4, <4>3, <4>4
    <3>4. DecisionsInv'
      <4>1. ASSUME NEW i \in 1..(n + 1)
            PROVE  /\ decisions'[i].traces \subseteq DOMAIN attempts'
                   /\ decisions'[i].phase # "MEMORY_ERROR"
                   /\ Observed(decisions'[i]) /\ Placed(decisions'[i])
        <5>1. CASE i \in 1..n
          BY <1>1, <1>4, <1>7, <5>1 DEF Remembers, DecisionsInv
        <5>2. CASE i = n + 1
          BY <1>1, <1>2, <1>3, <1>4, <1>6, <2>2, <3>2, <5>2 DEF Observed
        <5>. QED  BY <1>4, <5>1, <5>2
      <4>2. \A i, j \in 1..(n + 1) : i < j => Pair(i, j)'
        <5>1. ASSUME NEW i \in 1..(n + 1), NEW j \in 1..(n + 1), i < j  PROVE Pair(i, j)'
          <6>1. CASE j \in 1..n
            <7>1. i \in 1..n
              BY <1>4, <5>1, <6>1
            <7>. QED  BY <1>8, <5>1, <6>1, <7>1
          <6>2. CASE j = n + 1
            <7>1. i \in 1..n
              BY <1>4, <5>1, <6>2
            <7>. QED  BY <3>3, <6>2, <7>1
          <6>. QED  BY <1>4, <6>1, <6>2
        <5>. QED  BY <5>1
      <4>. QED  BY <1>4, <4>1, <4>2 DEF DecisionsInv
    <3>5. decisions' # <<>> /\ LastDecision' = new
      BY <1>4 DEF LastDecision
    <3>6. RestMemory'
      BY <1>1, <1>3, <1>5, <2>2, <3>2, <3>5 DEF RestMemory
    <3>. QED  BY <3>4, <3>6
  <2>. QED  BY <2>1, <2>2
<1>10. Kept(archive, time, observed, LastReceipt)'
  BY <1>1 DEF Remembers, LastReceipt
<1>. QED  BY <1>1, <1>9, <1>10 DEF Remembers, TurnMemory, TurnAttempts

\* The NPC acts: what the stranger was given grows, its memory stays.
LEMMA NpcMemory ==
    ASSUME TrialInv, AttemptsInv, Remembers, ActNpc \/ NpcObserveFails
    PROVE  Remembers'
<1>1. /\ pc = "npc" /\ ~InTurn /\ ~InTurn' /\ UNCHANGED <<archive, decisions>>
  <2>1. pc = "npc" /\ \E failed \in BOOLEAN : Activated(failed)
    BY Zenon DEF ActNpc, NpcObserveFails
  <2>. QED  BY <2>1 DEF Activated, Stops, Goes, InTurn
<1>2. time \in 0..EndTick /\ EndTick \in Nat /\ observed \in Nat
  BY TrialAssumption DEF TrialInv, Counts, TypeOK
<1>3. /\ Adds /\ time' \in Nat /\ time <= time' /\ observed' \in Nat /\ observed <= observed'
  <2>1. CASE NpcObserveFails
    BY <1>2, <2>1 DEF NpcObserveFails, world, Adds
  <2>2. CASE ActNpc
    <3>1. observed' = observed + 1
      BY <2>2 DEF ActNpc
    <3>2. \E a \in Actions : \E x \in Submissions(a) : \E r : Submitted(r, x)
      BY <2>2 DEF ActNpc
    <3>3. PICK a \in Actions : \E x \in Submissions(a) : \E r : Submitted(r, x)
      BY <3>2
    <3>4. PICK x \in Submissions(a) : \E r : Submitted(r, x)
      BY <3>3
    <3>5. time' = x.after /\ Adds
      BY <3>4 DEF Submitted, Adds
    <3>6. x.after \in time..EndTick
      BY <1>2, SubmissionsBounded
    <3>. QED  BY <1>2, <3>1, <3>5, <3>6
  <2>. QED  BY <2>1, <2>2
<1>4. /\ Kept(archive, time', observed', LastReceipt')
      /\ DecisionsInv'
      /\ \A i \in DOMAIN decisions : Experienced(decisions[i])' <=> Experienced(decisions[i])
  BY <1>1, <1>3, NothingDecided
<1>5. RestMemory'
  <2>1. CASE decisions = <<>>
    BY <1>1, <2>1 DEF Remembers, RestMemory
  <2>2. CASE decisions # <<>>
    <3>1. Len(decisions) \in DOMAIN decisions
      BY <2>2 DEF TrialInv, Counts, IsSequence
    <3>2. Experienced(LastDecision)' <=> Experienced(LastDecision)
      BY <1>1, <1>4, <3>1 DEF LastDecision
    <3>3. LastDecision' = LastDecision
      BY <1>1 DEF LastDecision
    <3>4. Holds(archive, LastDecision) /\ (archive.closed = TRUE <=> Experienced(LastDecision))
      BY <1>1, <2>2 DEF Remembers, RestMemory
    <3>. QED  BY <1>1, <2>2, <3>2, <3>3, <3>4 DEF RestMemory
  <2>. QED  BY <2>1, <2>2
<1>. QED  BY <1>1, <1>4, <1>5 DEF Remembers, TurnMemory, TurnAttempts

\* Attempts are only ever added, by a submission of the stranger's or of an NPC.
LEMMA OnlyAdds == [Next]_vars => Adds
<1>. SUFFICES ASSUME [Next]_vars  PROVE Adds
  OBVIOUS
<1>1. ASSUME NEW r, NEW s, Submitted(r, s)  PROVE Adds
  BY <1>1 DEF Submitted, Adds
<1>. QED
  BY <1>1 DEF Adds, vars, world, Next, Turn, Leave, BeginTurn, ObserveFails, Decide, DecideFails,
              Submit, CloseTrace, Conclude, ActNpc, NpcObserveFails, WallPasses

\* Nothing but a refusal of the archive loses a trial.
LEMMA OnlyRefusalLoses ==
    ASSUME TrialInv, [Next]_vars, stop # "LOST", CloseTrace => stop' = stop
    PROVE  stop' # "LOST" /\ event_mode' = event_mode
<1>1. event_mode' = event_mode
  BY DEF vars, Next, Turn, Leave, BeginTurn, ObserveFails, Decide, DecideFails,
         Submit, CloseTrace, Conclude, ActNpc, NpcObserveFails, Activated, WallPasses
<1>2. CASE Leave
  BY <1>2 DEF Leave, Stops, Bound, Horizon
<1>3. CASE Conclude
  <2>1. /\ turn.failure = "SUBMISSION_ERROR" =>
              turn.protocol_failure
                 \in {"NONE", "WALL_TIMEOUT", "TIMING_PRECHECK_ERROR", "HORIZON_ACTION"}
    BY <1>3 DEF TrialInv, TurnInv, Conclude, NotSubmitted, SubmissionFailed, Answered
  <2>2. \/ stop' = stop
        \/ stop' \in {"OBSERVATION_UNAVAILABLE", "CONSECUTIVE_FAILURES", "HORIZON", "ENGINE_ERROR",
                      "WALL_TIMEOUT", "TIMING_PRECHECK_ERROR", "HORIZON_ACTION"}
    BY <1>3, <2>1 DEF Conclude, Stops, Goes, Horizon
  <2>. QED  BY <1>1, <2>2
<1>4. CASE ActNpc \/ NpcObserveFails
  <2>1. \E failed \in BOOLEAN : Activated(failed)
    BY <1>4, Zenon DEF ActNpc, NpcObserveFails
  <2>. QED  BY <2>1 DEF Activated, Stops, Goes
<1>5. CASE BeginTurn \/ ObserveFails \/ Decide \/ DecideFails \/ Submit \/ WallPasses
  BY <1>5 DEF BeginTurn, ObserveFails, Decide, DecideFails, Submit, WallPasses, Goes
<1>6. CASE UNCHANGED vars
  BY <1>6 DEF vars
<1>. QED  BY <1>1, <1>2, <1>3, <1>4, <1>5, <1>6 DEF Next, Turn

\* Leaving the loop, the wall clock and waiting touch nothing that is remembered.
LEMMA IdleMemory ==
    ASSUME Remembers, Leave \/ WallPasses \/ UNCHANGED vars
    PROVE  Remembers'
<1>1. /\ UNCHANGED <<time, observed, attempts, archive, decisions, activations, turn>>
      /\ \/ pc' = pc
         \/ pc = "loop" /\ pc' = "end"
  BY DEF Leave, Stops, WallPasses, vars, world, book
<1>2. \A d : Experienced(d)' <=> Experienced(d)
  BY <1>1 DEF Experienced, Entries
<1>3. Decision(turn)' = Decision(turn)
  BY <1>1 DEF Decision, Since
<1>4. Experienced(Decision(turn))' <=> Experienced(Decision(turn))
  BY <1>1, <1>3 DEF Experienced, Entries
<1>5. TurnMemory'
  BY <1>1, <1>2 DEF Remembers, TurnMemory, InTurn, Continues, LastDecision, Experienced, Entries
<1>6. TurnAttempts'
  BY <1>1, <1>4 DEF Remembers, TurnAttempts, InTurn, Since
<1>7. RestMemory'
  BY <1>1, <1>2 DEF Remembers, RestMemory, InTurn, LastDecision, Experienced, Entries
<1>8. DecisionsInv'
  <2>1. \A i, j \in DOMAIN decisions : Pair(i, j)' <=> Pair(i, j)
    BY <1>1 DEF Pair, Experienced, Entries
  <2>. QED  BY <1>1, <2>1 DEF Remembers, DecisionsInv
<1>9. Kept(archive, time, observed, LastReceipt)'
  BY <1>1 DEF Remembers, LastReceipt
<1>. QED  BY <1>5, <1>6, <1>7, <1>8, <1>9 DEF Remembers

MemoryInv == AttemptsInv /\ stop # "LOST" /\ (event_mode => Remembers)

\* Every step keeps the memory in order.
LEMMA MemoryStep == TrialInv /\ MemoryInv /\ [Next]_vars => MemoryInv'
<1>. SUFFICES ASSUME TrialInv, MemoryInv, [Next]_vars  PROVE MemoryInv'
  OBVIOUS
<1>1. AttemptsInv'
  BY OnlyAdds, LastReceiptGrows DEF MemoryInv
<1>2. event_mode => Remembers' /\ (CloseTrace => stop' = stop)
  BY BeginTurnMemory, ObserveFailsMemory, DecideMemory, SubmitMemory, CloseTraceMemory,
     ConcludeMemory, NpcMemory, IdleMemory
  DEF MemoryInv, Next, Turn
<1>3. ~event_mode /\ CloseTrace => stop' = stop
  BY DEF CloseTrace, Goes
<1>4. stop' # "LOST" /\ event_mode' = event_mode
  BY <1>2, <1>3, OnlyRefusalLoses DEF MemoryInv
<1>. QED  BY <1>1, <1>2, <1>4 DEF MemoryInv

-----------------------------------------------------------------------------
\* Two decisions are attempts of one opportunity exactly when the actor saw the
\* same both times and experienced nothing in between, and their attempts are
\* numbered without a gap: for every number of turns, whatever failed in them.
THEOREM AttemptsBelongTogether == Spec => []Lineage
<1>1. Init => TrialInv /\ MemoryInv
  BY TrialInit, MemoryInit DEF MemoryInv, Init
<1>2. MemoryInv => Lineage
  <2>. SUFFICES ASSUME MemoryInv, event_mode  PROVE Lineage
    BY DEF Lineage
  <2>1. \A i, j \in DOMAIN decisions :
            i < j /\ Observed(decisions[i]) /\ Observed(decisions[j]) => Pair(i, j)
    BY DEF MemoryInv, Remembers, DecisionsInv
  <2>. QED  BY <2>1 DEF Lineage, Pair, Alike
<1>. QED  BY <1>1, <1>2, TrialStep, MemoryStep, PTL DEF Spec

\* No trial is lost to its own archive and no decision is withheld by it.
NothingRefused ==
    /\ stop # "LOST"
    /\ event_mode => \A i \in DOMAIN decisions : decisions[i].phase # "MEMORY_ERROR"

\* The archive takes every observation and every answer that a trial comes to
\* have, whatever the provider, the game and the wall clock do: the refusals of
\* EventTraceArchive, which run_trial does not catch, are never met.
THEOREM MemoryNeverRefuses == Spec => []NothingRefused
<1>1. Init => TrialInv /\ MemoryInv
  BY TrialInit, MemoryInit DEF MemoryInv, Init
<1>2. MemoryInv => NothingRefused
  BY DEF MemoryInv, Remembers, DecisionsInv, NothingRefused
<1>. QED  BY <1>1, <1>2, TrialStep, MemoryStep, PTL DEF Spec
-----------------------------------------------------------------------------
(* The record.                                                             *)

Before == {p \in Nat \X Nat : p[1] < p[2]}

\* A set of naturals that is not empty has a least element.
LEMMA Smallest ==
    ASSUME NEW T, T \subseteq Nat, T # {}
    PROVE  \E m \in T : \A k \in T : m <= k
<1>1. OpToRel(<, Nat) = Before
  BY Zenon DEF OpToRel, Before
<1>2. IsWellFoundedOn(Before, Nat)
  BY NatLessThanWellFounded, <1>1
<1>3. PICK m \in T : \A k \in T : ~ (<<k, m>> \in Before)
  BY <1>2, WFMin
<1>4. \A k \in T : k < m => <<k, m>> \in Before
  BY DEF Before
<1>5. \A k \in T : k \in Nat /\ m \in Nat
  OBVIOUS
<1>6. \A k \in T : ~ (k < m)
  BY <1>3, <1>4, Zenon
<1>7. \A k \in T : m <= k
  BY <1>5, <1>6
<1>. QED  BY <1>7

\* Induction: a set that has 0, and n + 1 with every n, has every natural.
LEMMA EveryNatural ==
    ASSUME NEW S, 0 \in S, \A n \in Nat : n \in S => n + 1 \in S
    PROVE  Nat \subseteq S
<1>. SUFFICES ASSUME Nat \ S # {}  PROVE FALSE
  OBVIOUS
<1>1. PICK m \in Nat \ S : \A k \in Nat \ S : m <= k
  BY Smallest
<1>2. m # 0 /\ m \in Nat
  OBVIOUS
<1>3. m - 1 \in Nat /\ m - 1 < m
  BY <1>2
<1>4. m - 1 \in S
  BY <1>1, <1>3
<1>5. (m - 1) + 1 \in S
  BY <1>3, <1>4
<1>. QED  BY <1>2, <1>5

-----------------------------------------------------------------------------
\* The greatest number of a set that has it.
LEMMA GreatestIs ==
    ASSUME NEW S, S \subseteq Nat, NEW m \in S, \A i \in S : i <= m
    PROVE  Max(S) = m
<1>1. \A x \in S : (\A y \in S : x >= y) => x = m
  OBVIOUS
<1>2. \E x \in S : \A y \in S : x >= y
  OBVIOUS
<1>. QED  BY <1>1, <1>2 DEF Max

\* The audit's reading of the decisions of which the indices are in a set.
Reads(f, S, s) ==
    f = [T \in SUBSET S |->
            IF T = {} THEN Reading(EmptyArchive, TRUE)
            ELSE Assessed(f[T \ {Max(T)}], s[Max(T)])]

\* The fold of the audit over a sequence is defined.
LEMMA ReadsExists ==
    ASSUME NEW s, NEW n \in Nat
    PROVE  \E f : Reads(f, 1..n, s)
<1>. DEFINE S == {k \in Nat : \E f : Reads(f, 1..k, s)}
<1>1. 0 \in S
  <2>. DEFINE f == [T \in SUBSET (1..0) |-> Reading(EmptyArchive, TRUE)]
  <2>1. \A T \in SUBSET (1..0) : T = {}
    OBVIOUS
  <2>2. Reads(f, 1..0, s)
    BY <2>1 DEF Reads
  <2>. QED  BY <2>2
<1>2. ASSUME NEW k \in Nat, k \in S
      PROVE  k + 1 \in S
  <2>1. PICK f : Reads(f, 1..k, s)
    BY <1>2
  <2>. DEFINE g == [T \in SUBSET (1..(k + 1)) |->
                      IF T = {} THEN Reading(EmptyArchive, TRUE)
                      ELSE IF k + 1 \in T THEN Assessed(f[T \ {k + 1}], s[k + 1])
                      ELSE f[T]]
  <2>2. ASSUME NEW T \in SUBSET (1..(k + 1)), T # {}
        PROVE  g[T] = Assessed(g[T \ {Max(T)}], s[Max(T)])
    <3>1. CASE k + 1 \in T
      <4>1. Max(T) = k + 1
        <5>1. T \subseteq Nat /\ \A i \in T : i <= k + 1
          OBVIOUS
        <5>. QED  BY <3>1, <5>1, GreatestIs
      <4>2. T \ {k + 1} \in SUBSET (1..k) /\ T \ {k + 1} \in SUBSET (1..(k + 1))
        OBVIOUS
      <4>3. g[T \ {k + 1}] = f[T \ {k + 1}]
        <5>1. CASE T \ {k + 1} = {}
          BY <2>1, <4>2, <5>1 DEF Reads
        <5>2. CASE T \ {k + 1} # {}
          BY <4>2, <5>2
        <5>. QED  BY <5>1, <5>2
      <4>. QED  BY <2>2, <3>1, <4>1, <4>3
    <3>2. CASE k + 1 \notin T
      <4>1. T \in SUBSET (1..k)
        BY <3>2
      <4>2. f[T] = Assessed(f[T \ {Max(T)}], s[Max(T)])
        BY <2>1, <2>2, <4>1 DEF Reads
      <4>3. T \ {Max(T)} \in SUBSET (1..k) /\ T \ {Max(T)} \in SUBSET (1..(k + 1))
            /\ k + 1 \notin T \ {Max(T)}
        BY <4>1, <3>2
      <4>4. g[T \ {Max(T)}] = f[T \ {Max(T)}]
        <5>1. CASE T \ {Max(T)} = {}
          BY <2>1, <4>3, <5>1 DEF Reads
        <5>2. CASE T \ {Max(T)} # {}
          BY <4>3, <5>2
        <5>. QED  BY <5>1, <5>2
      <4>. QED  BY <2>2, <3>2, <4>2, <4>4
    <3>. QED  BY <3>1, <3>2
  <2>3. g[{}] = Reading(EmptyArchive, TRUE)
    OBVIOUS
  <2>4. Reads(g, 1..(k + 1), s)
    <3>1. \A T \in SUBSET (1..(k + 1)) :
             g[T] = IF T = {} THEN Reading(EmptyArchive, TRUE)
                    ELSE Assessed(g[T \ {Max(T)}], s[Max(T)])
      BY <2>2, <2>3
    <3>2. g = [T \in SUBSET (1..(k + 1)) |-> g[T]]
      OBVIOUS
    <3>. HIDE DEF g
    <3>. QED  BY <3>1, <3>2 DEF Reads
  <2>. QED  BY <2>4
<1>. HIDE DEF S
<1>3. Nat \subseteq S
  BY <1>1, <1>2, EveryNatural
<1>. QED  BY <1>3 DEF S

\* Readings of one decision after the other, in order.
Follows(r, s) ==
    /\ r[0] = Reading(EmptyArchive, TRUE)
    /\ \A i \in 1..Len(s) : r[i] = Assessed(r[i - 1], s[i])

\* The fold of the audit is the last of the readings.
LEMMA FoldFollows ==
    ASSUME NEW s, IsSequence(s), NEW r, Follows(r, s)
    PROVE  FoldLeft(Assessed, Reading(EmptyArchive, TRUE), s) = r[Len(s)]
<1>. DEFINE n == Len(s)
            F == CHOOSE f : Reads(f, DOMAIN s, s)
<1>1. n \in Nat /\ DOMAIN s = 1..n
  BY DEF IsSequence
<1>2. FoldLeft(Assessed, Reading(EmptyArchive, TRUE), s) = F[DOMAIN s]
  BY Zenon DEF FoldLeft, MapThenFoldSet, Reads
<1>. HIDE DEF n
<1>3. Reads(F, 1..n, s)
  BY <1>1, ReadsExists
<1>. HIDE DEF F
<1>. DEFINE S == {k \in Nat : k <= n => F[1..k] = r[k]}
<1>4. 0 \in S
  <2>1. 1..0 = {} /\ 1..0 \in SUBSET (1..n)
    OBVIOUS
  <2>2. F[1..0] = Reading(EmptyArchive, TRUE)
    BY <1>3, <2>1 DEF Reads
  <2>. QED  BY <2>2 DEF Follows
<1>5. ASSUME NEW k \in Nat, k \in S
      PROVE  k + 1 \in S
  <2>. SUFFICES ASSUME k + 1 <= n  PROVE F[1..(k + 1)] = r[k + 1]
    OBVIOUS
  <2>1. Max(1..(k + 1)) = k + 1
    <3>1. /\ 1..(k + 1) \subseteq Nat /\ k + 1 \in 1..(k + 1)
          /\ \A i \in 1..(k + 1) : i <= k + 1
      OBVIOUS
    <3>. QED  BY <3>1, GreatestIs
  <2>2. (1..(k + 1)) \ {k + 1} = 1..k /\ 1..(k + 1) # {} /\ 1..(k + 1) \in SUBSET (1..n)
    BY <1>1
  <2>3. F[1..(k + 1)] = Assessed(F[1..k], s[k + 1])
    BY <1>3, <2>1, <2>2 DEF Reads
  <2>4. F[1..k] = r[k] /\ k + 1 \in 1..n
    BY <1>1, <1>5
  <2>5. r[k + 1] = Assessed(r[k], s[k + 1])
    <3>1. r[k + 1] = Assessed(r[(k + 1) - 1], s[k + 1])
      BY <2>4 DEF Follows, n
    <3>2. (k + 1) - 1 = k
      OBVIOUS
    <3>. QED  BY <3>1, <3>2
  <2>. QED  BY <2>3, <2>4, <2>5
<1>. HIDE DEF S
<1>6. n \in S
  BY <1>1, <1>4, <1>5, EveryNatural
<1>7. F[1..n] = r[n]
  BY <1>1, <1>6 DEF S
<1>8. n = Len(s) /\ DOMAIN s = 1..n
  BY <1>1 DEF n
<1>. QED  BY <1>2, <1>7, <1>8

-----------------------------------------------------------------------------
\* Counting some elements of an interval, one by one.
LEMMA CountsUp ==
    ASSUME NEW n \in Nat, NEW S \in SUBSET (1..n)
    PROVE  /\ IsFiniteSet(S) /\ Cardinality(S) \in Nat
           /\ Cardinality(S \union {n + 1}) = Cardinality(S) + 1
<1>1. IsFiniteSet(1..n)
  BY FS_Interval
<1>2. IsFiniteSet(S)
  BY <1>1, FS_Subset
<1>3. n + 1 \notin S
  OBVIOUS
<1>. QED  BY <1>2, <1>3, FS_AddElement, FS_CardinalityType

\* How many experiences there are, decision by decision.
LEMMA ExperiencesCount ==
    \A n \in Nat :
        /\ Experiences(0) = 0 /\ Experiences(n) \in Nat
        /\ Experiences(n + 1) = IF Experienced(decisions[n + 1]) THEN Experiences(n) + 1
                                ELSE Experiences(n)
<1>. SUFFICES ASSUME NEW n \in Nat
              PROVE  /\ Experiences(0) = 0 /\ Experiences(n) \in Nat
                     /\ Experiences(n + 1) = IF Experienced(decisions[n + 1]) THEN Experiences(n) + 1
                                             ELSE Experiences(n)
  OBVIOUS
<1>1. PICK S : S = {i \in 1..n : Experienced(decisions[i])}
  OBVIOUS
<1>2. PICK T : T = {i \in 1..(n + 1) : Experienced(decisions[i])}
  OBVIOUS
<1>3. /\ S \subseteq 1..n /\ T \subseteq 1..(n + 1) /\ T \ {n + 1} = S
      /\ n + 1 \in T <=> Experienced(decisions[n + 1])
  BY <1>1, <1>2
<1>4. /\ Cardinality(S) \in Nat
      /\ Cardinality(T) = IF n + 1 \in T THEN Cardinality(S) + 1 ELSE Cardinality(S)
  <2>1. T = IF n + 1 \in T THEN S \union {n + 1} ELSE S
    BY <1>3
  <2>2. Cardinality(S) \in Nat /\ Cardinality(S \union {n + 1}) = Cardinality(S) + 1
    BY <1>3, CountsUp
  <2>. QED  BY <2>1, <2>2
<1>5. Experiences(n) = Cardinality(S) /\ Experiences(n + 1) = Cardinality(T)
  BY <1>1, <1>2 DEF Experiences
<1>6. Experiences(0) = 0
  <2>1. {i \in 1..0 : Experienced(decisions[i])} = {}
    OBVIOUS
  <2>. QED  BY <2>1, FS_EmptySet DEF Experiences
<1>. QED  BY <1>3, <1>4, <1>5, <1>6

\* Every decision adds one experience, or none.
Tallied ==
    \A m \in Nat :
        Experiences(m + 1) = IF Experienced(decisions[m + 1]) THEN Experiences(m) + 1
                             ELSE Experiences(m)

LEMMA ExperiencesTallied == Tallied
BY ExperiencesCount DEF Tallied

\* A decision tells the same when attempts are added to those it is linked to.
LEMMA DecisionStays ==
    ASSUME AttemptsInv, Adds, NEW d, d.traces \subseteq DOMAIN attempts
    PROVE  /\ Experienced(d)' <=> Experienced(d)
           /\ \A x : Assessed(x, d)' = Assessed(x, d)
<1>1. /\ \A i \in DOMAIN attempts : attempts'[i] = attempts[i]
      /\ DOMAIN attempts \subseteq DOMAIN attempts'
  BY LastReceiptGrows
<1>2. Entries(d)' = Entries(d)
  BY <1>1 DEF Entries
<1>3. TracesAgree(d)' <=> TracesAgree(d)
  BY <1>1 DEF TracesAgree
<1>. QED  BY <1>2, <1>3 DEF Experienced, Assessed

\* The traces of an archive are the experiences of the first n decisions.
Told(traces, n) ==
    /\ IsSequence(traces) /\ Len(traces) = Experiences(n)
    /\ \A m \in DOMAIN traces : \E j \in 1..n :
        /\ Experienced(decisions[j]) /\ Experiences(j) = m
        /\ traces[m].observation = decisions[j].observation
        /\ traces[m].receipt = decisions[j].receipt

Delivered(memory, n, tick) ==
    /\ Len(memory) = IF Experiences(n) < Window THEN Experiences(n) ELSE Window
    /\ \A k \in DOMAIN memory : \E j \in 1..n :
        /\ Experienced(decisions[j]) /\ Experiences(j) = Experiences(n) - Len(memory) + k
        /\ memory[k].observation = decisions[j].observation
        /\ memory[k].receipt = decisions[j].receipt
        /\ memory[k].closed_at <= tick

\* What is said of the first n decisions stays so while they are kept.
LEMMA PastStays ==
    ASSUME AttemptsInv, Adds, NEW n \in Nat,
           \A i \in 1..n : decisions[i].traces \subseteq DOMAIN attempts,
           \A i \in 1..n : decisions'[i] = decisions[i]
    PROVE  /\ \A i \in 1..n : Experienced(decisions[i])' <=> Experienced(decisions[i])
           /\ \A m \in 0..n : Experiences(m)' = Experiences(m)
           /\ \A x : \A i \in 1..n : Assessed(x, decisions[i])' = Assessed(x, decisions[i])
           /\ \A t : Told(t, n)' <=> Told(t, n)
           /\ \A m, t : \A i \in 0..n : Delivered(m, i, t)' <=> Delivered(m, i, t)
<1>1. ASSUME NEW i \in 1..n
      PROVE  /\ Experienced(decisions[i])' <=> Experienced(decisions[i])
             /\ \A x : Assessed(x, decisions[i])' = Assessed(x, decisions[i])
  <2>1. PICK d : d = decisions[i]
    OBVIOUS
  <2>2. d.traces \subseteq DOMAIN attempts /\ decisions'[i] = d
    BY <2>1
  <2>3. /\ Experienced(d)' <=> Experienced(d)
        /\ \A x : Assessed(x, d)' = Assessed(x, d)
    BY <2>2, DecisionStays
  <2>4. Experienced(decisions[i])' <=> Experienced(d)'
    BY <2>2 DEF Experienced, Entries
  <2>5. \A x : Assessed(x, decisions[i])' = Assessed(x, d)'
    BY <2>2 DEF Assessed, TracesAgree, Entries, Provenance, Observed
  <2>. QED  BY <2>1, <2>3, <2>4, <2>5
<1>2. ASSUME NEW m \in 0..n  PROVE Experiences(m)' = Experiences(m)
  <2>1. {i \in 1..m : Experienced(decisions[i])'} = {i \in 1..m : Experienced(decisions[i])}
    BY <1>1
  <2>. QED  BY <2>1 DEF Experiences
<1>3. n \in 0..n /\ \A j \in 1..n : j \in 0..n
  OBVIOUS
<1>4. ASSUME NEW t  PROVE Told(t, n)' <=> Told(t, n)
  BY <1>1, <1>2, <1>3 DEF Told
<1>5. ASSUME NEW m, NEW t, NEW i \in 0..n  PROVE Delivered(m, i, t)' <=> Delivered(m, i, t)
  <2>1. \A j \in 1..i : j \in 1..n
    OBVIOUS
  <2>. QED  BY <1>1, <1>2, <1>3, <2>1 DEF Delivered
<1>. QED  BY <1>1, <1>2, <1>4, <1>5

\* What is selected from the experiences of the past is the latest of them.
LEMMA SelectedDelivers ==
    ASSUME NEW a, NEW n \in Nat, NEW o, Told(a.traces, n), Begins(a, o)
    PROVE  Delivered(Selected(a, Window), n, o.time)
<1>. DEFINE t == a.traces
            N == Experiences(n)
            f == IF N < Window THEN 1 ELSE N - Window + 1
            memory == Selected(a, Window)
<1>0. IsSequence(t) /\ Len(t) = N /\ N \in Nat /\ Window \in Nat
  BY ExperiencesCount, TrialAssumption DEF Told
<1>1. /\ IsSequence(t) /\ Len(t) = N /\ N \in Nat /\ Window \in Nat /\ DOMAIN t = 1..N
      /\ \A m \in 1..N : \E j \in 1..n :
            /\ Experienced(decisions[j]) /\ Experiences(j) = m
            /\ t[m].observation = decisions[j].observation
            /\ t[m].receipt = decisions[j].receipt
  <2>1. DOMAIN t = 1..N
    BY <1>0 DEF IsSequence
  <2>. QED  BY <1>0, <2>1 DEF Told
<1>2. \A m \in 1..N : t[m].closed_at <= o.time
  <2>1. PICK c : IsPast(t, o, c)
    BY DEF Begins
  <2>. QED  BY <1>1, <2>1 DEF IsPast
<1>3. memory = SubSeq(t, f, N)
  BY <1>1 DEF Selected
<1>. HIDE DEF t, N, memory
<1>4. f \in 1..(N + 1)
  BY <1>1
<1>5. N - f + 1 = IF N < Window THEN N ELSE Window
  BY <1>1
<1>. HIDE DEF f
<1>6. /\ Len(memory) = N - f + 1 /\ DOMAIN memory = 1..(N - f + 1)
      /\ \A k \in 1..(N - f + 1) : memory[k] = t[f + k - 1]
  <2>1. PICK E : t \in Seq(E)
    BY <1>1 DEF IsSequence
  <2>. QED  BY <1>1, <1>3, <1>4, <2>1
<1>7. ASSUME NEW k \in 1..(N - f + 1)
      PROVE  \E j \in 1..n :
                /\ Experienced(decisions[j]) /\ Experiences(j) = N - Len(memory) + k
                /\ memory[k].observation = decisions[j].observation
                /\ memory[k].receipt = decisions[j].receipt
                /\ memory[k].closed_at <= o.time
  <2>1. f + k - 1 \in 1..N /\ N - Len(memory) + k = f + k - 1
    BY <1>1, <1>4, <1>6
  <2>. QED  BY <1>1, <1>2, <1>6, <2>1
<1>8. Len(memory) = IF N < Window THEN N ELSE Window
  BY <1>5, <1>6
<1>. QED  BY <1>6, <1>7, <1>8 DEF Delivered, N, memory

-----------------------------------------------------------------------------
\* The audit's readings of all decisions, the last with everything right and
\* with an archive of its own.
AuditOf(r, a) ==
    /\ Follows(r, decisions) /\ r[Len(decisions)] = Reading(a, TRUE)
    /\ Told(a.traces, Len(decisions))

\* What the turn has been given, and what it closes, by the audit's archive.
TurnGiven(a) ==
    LET begun == Begun(a, turn.observation) IN
    /\ Begins(a, turn.observation)
    /\ turn.opportunity = begun.context.opportunity /\ turn.attempt = begun.context.attempt
    /\ turn.memory = Selected(a, Window) /\ turn.called = TRUE

TurnCloses(a) ==
    LET begun == Begun(a, turn.observation) IN
    IF pc = "conclude" /\ Experienced(Decision(turn))
    THEN /\ Closes(begun, turn.observation, turn.receipt)
         /\ archive = Closed(begun, turn.observation, turn.receipt)
         /\ turn.closed = TraceOf(archive, turn.observation)
    ELSE archive = begun /\ turn.closed = 0

TurnRead(a) ==
    IF InTurn /\ turn.observation # NoObservation THEN TurnGiven(a) /\ TurnCloses(a)
    ELSE archive = a /\ (InTurn => turn.closed = 0 /\ turn.receipt = NoReceipt)

\* The turn has made one attempt at most, and it tells its answer.
TurnTraces ==
    InTurn =>
        /\ turn.offset \in Nat /\ Len(attempts) <= turn.offset + 1
        /\ pc \in {"close", "conclude"} =>
              \A i \in Since(turn.offset) :
                  attempts[i].request = turn.request /\ attempts[i].receipt = turn.receipt

DeliveredAll ==
    \A i \in DOMAIN decisions :
        Observed(decisions[i]) => Delivered(decisions[i].memory, i - 1, decisions[i].tick)

RecordInv == TurnTraces /\ DeliveredAll /\ \E r, a : AuditOf(r, a) /\ TurnRead(a)

\* While nothing is decided the audit reads what it read before.
LEMMA AuditStays ==
    ASSUME TrialInv, AttemptsInv, DecisionsInv, Adds, decisions' = decisions, DeliveredAll,
           NEW r, NEW a, AuditOf(r, a)
    PROVE  DeliveredAll' /\ AuditOf(r, a)'
<1>1. PICK n : n = Len(decisions)
  OBVIOUS
<1>2. n \in Nat /\ DOMAIN decisions = 1..n
  BY <1>1 DEF TrialInv, Counts, IsSequence
<1>3. /\ \A x : \A i \in 1..n : Assessed(x, decisions[i])' = Assessed(x, decisions[i])
      /\ \A t : Told(t, n)' <=> Told(t, n)
      /\ \A m, t : \A i \in 0..n : Delivered(m, i, t)' <=> Delivered(m, i, t)
  BY <1>2, PastStays DEF DecisionsInv
<1>4. Told(a.traces, n)'
  BY <1>1, <1>3 DEF AuditOf
<1>5. Follows(r, decisions)'
  <2>1. \A i \in 1..n : r[i] = Assessed(r[i - 1], decisions[i])'
    BY <1>1, <1>3 DEF AuditOf, Follows
  <2>. QED  BY <1>1, <2>1 DEF AuditOf, Follows
<1>6. ASSUME NEW i \in 1..n, Observed(decisions[i])
      PROVE  Delivered(decisions[i].memory, i - 1, decisions[i].tick)'
  <2>1. PICK m, t : m = decisions[i].memory /\ t = decisions[i].tick
    OBVIOUS
  <2>2. i - 1 \in 0..n
    BY <1>2
  <2>3. Delivered(m, i - 1, t)'
    BY <1>2, <1>3, <1>6, <2>1, <2>2 DEF DeliveredAll
  <2>. QED  BY <2>1, <2>3
<1>7. DeliveredAll'
  BY <1>2, <1>6 DEF DeliveredAll, Observed
<1>. QED  BY <1>1, <1>4, <1>5, <1>7 DEF AuditOf

\* At the start there is nothing to read.
LEMMA RecordInit == Init => RecordInv
<1>. SUFFICES ASSUME Init  PROVE RecordInv
  OBVIOUS
<1>1. decisions = <<>> /\ Len(decisions) = 0 /\ archive = EmptyArchive /\ ~InTurn
  BY DEF Init, InTurn
<1>2. AuditOf([i \in {0} |-> Reading(EmptyArchive, TRUE)], EmptyArchive)
  <2>1. Told(<<>>, 0)
    <3>1. IsSequence(<<>>) /\ Experiences(0) = 0
      BY ExperiencesCount DEF IsSequence
    <3>. QED  BY <3>1 DEF Told
  <2>. QED  BY <1>1, <2>1 DEF AuditOf, Follows, EmptyArchive
<1>. QED  BY <1>1, <1>2 DEF RecordInv, TurnTraces, DeliveredAll, TurnRead

\* A step that decides nothing is judged by the turn alone.
LEMMA TurnJudged ==
    ASSUME TrialInv, AttemptsInv, Remembers, RecordInv, Adds, decisions' = decisions,
           TurnTraces', \A a : TurnRead(a) => TurnRead(a)'
    PROVE  RecordInv'
<1>1. PICK r, a : AuditOf(r, a) /\ TurnRead(a)
  BY DEF RecordInv
<1>2. DeliveredAll' /\ AuditOf(r, a)'
  BY <1>1, AuditStays DEF RecordInv, Remembers
<1>3. TurnRead(a)'
  BY <1>1
<1>. QED  BY <1>2, <1>3 DEF RecordInv

\* A turn begins with what the audit would have begun with.
LEMMA BeginTurnRecord ==
    ASSUME TrialInv, AttemptsInv, Remembers, RecordInv, event_mode, BeginTurn
    PROVE  RecordInv'
<1>1. PICK o : o = Seen(observed + 1, time, LastReceipt)
  OBVIOUS
<1>2. /\ pc = "loop" /\ ~InTurn /\ UNCHANGED <<attempts, decisions>> /\ Len(attempts) \in Nat
      /\ observed \in Nat
  BY DEF BeginTurn, InTurn, book, AttemptsInv, IsSequence, TrialInv, Counts, TypeOK
<1>3. Begins(archive, o)
  <2>1. Kept(archive, time, observed, LastReceipt)
    BY DEF Remembers
  <2>2. BeginsWith(archive, o, time, observed, LastReceipt)
    BY <1>1, <2>1, BeginAccepted
  <2>. QED  BY <2>2 DEF BeginsWith
<1>4. /\ archive' = Begun(archive, o) /\ pc' = "provider"
      /\ turn' = [Opening EXCEPT
           !.observation = o, !.opportunity = Begun(archive, o).context.opportunity,
           !.attempt = Begun(archive, o).context.attempt,
           !.memory = Selected(archive, Window), !.called = TRUE,
           !.phase = "NONE", !.failure = "NONE"]
  <2>. DEFINE begins == event_mode => Begins(archive, o)
              opens == event_mode /\ begins
  <2>1. /\ archive' = IF opens THEN Begun(archive, o) ELSE archive
        /\ pc' = IF begins THEN "provider" ELSE "conclude"
        /\ turn' = [Opening EXCEPT
             !.observation = o,
             !.opportunity = IF opens THEN Begun(archive, o).context.opportunity ELSE 0,
             !.attempt = IF opens THEN Begun(archive, o).context.attempt ELSE 0,
             !.memory = IF opens THEN Selected(archive, Window) ELSE <<>>, !.called = begins,
             !.phase = IF begins THEN "NONE" ELSE "MEMORY_ERROR",
             !.failure = IF begins THEN "NONE" ELSE "CONTROLLER_ERROR"]
    BY <1>1, Zenon DEF BeginTurn, Goes
  <2>2. begins = TRUE /\ opens = TRUE
    BY <1>3
  <2>. HIDE DEF begins, opens
  <2>. QED  BY <2>1, <2>2
<1>5. DOMAIN Opening = TurnFields /\ Opening.offset = Len(attempts) /\ Opening.closed = 0
  BY DEF Opening, NoTurn, TurnFields
<1>6. PICK b : b = Begun(archive, o)
  OBVIOUS
<1>7. PICK m : m = Selected(archive, Window)
  OBVIOUS
<1>8. /\ turn'.observation = o /\ turn'.opportunity = b.context.opportunity
      /\ turn'.attempt = b.context.attempt /\ turn'.offset = Len(attempts)
      /\ turn'.memory = m /\ turn'.called = TRUE /\ turn'.closed = 0
  BY <1>4, <1>5, <1>6, <1>7 DEF TurnFields
<1>9. TurnTraces'
  BY <1>2, <1>4, <1>8 DEF TurnTraces
<1>10. ASSUME NEW a, TurnRead(a)  PROVE TurnRead(a)'
  <2>1. archive = a
    BY <1>2, <1>10 DEF TurnRead
  <2>2. o # NoObservation
    <3>1. o.sequence = observed + 1 /\ NoObservation.sequence = 0
      BY <1>1 DEF Seen, NoObservation
    <3>. QED  BY <1>2, <3>1
  <2>3. TurnGiven(a)'
    BY <1>3, <1>6, <1>7, <1>8, <2>1 DEF TurnGiven
  <2>4. TurnCloses(a)'
    BY <1>4, <1>8, <2>1 DEF TurnCloses
  <2>. QED  BY <1>4, <1>8, <2>2, <2>3, <2>4 DEF TurnRead, InTurn
<1>. QED  BY <1>2, <1>9, <1>10, TurnJudged DEF Adds

\* A turn without an observation is given nothing and closes nothing.
LEMMA ObserveFailsRecord ==
    ASSUME TrialInv, AttemptsInv, Remembers, RecordInv, ObserveFails
    PROVE  RecordInv'
<1>1. /\ pc = "loop" /\ ~InTurn /\ pc' = "conclude"
      /\ UNCHANGED <<attempts, decisions, archive>> /\ Len(attempts) \in Nat
  BY DEF ObserveFails, Goes, InTurn, book, world, AttemptsInv, IsSequence
<1>2. /\ turn' = [Opening EXCEPT !.phase = "OBSERVATION_UNAVAILABLE",
                                 !.failure = "OBSERVATION_UNAVAILABLE"]
  BY DEF ObserveFails
<1>3. /\ DOMAIN Opening = TurnFields /\ Opening.offset = Len(attempts) /\ Opening.closed = 0
      /\ Opening.observation = NoObservation /\ Opening.receipt = NoReceipt
  BY DEF Opening, NoTurn, TurnFields
<1>4. /\ turn'.offset = Len(attempts) /\ turn'.closed = 0
      /\ turn'.observation = NoObservation /\ turn'.receipt = NoReceipt
  BY <1>2, <1>3 DEF TurnFields
<1>5. TurnTraces'
  <2>1. (Len(attempts) + 1)..Len(attempts) = {}
    BY <1>1
  <2>. QED  BY <1>1, <1>4, <2>1 DEF TurnTraces, Since
<1>6. \A a : TurnRead(a) => TurnRead(a)'
  BY <1>1, <1>4 DEF TurnRead
<1>. QED  BY <1>1, <1>5, <1>6, TurnJudged DEF Adds

\* The provider answers or fails: nothing is attempted and nothing closed.
LEMMA DecideRecord ==
    ASSUME TrialInv, AttemptsInv, Remembers, RecordInv, Decide \/ DecideFails
    PROVE  RecordInv'
<1>1. /\ pc = "provider" /\ pc' \in {"submit", "conclude"} /\ InTurn /\ InTurn'
      /\ UNCHANGED <<attempts, archive, decisions, activations>>
  BY DEF Decide, DecideFails, Goes, world, book, InTurn
<1>2. /\ DOMAIN turn = TurnFields /\ turn.receipt = NoReceipt /\ Len(attempts) \in Nat
  BY <1>1 DEF TrialInv, TurnInv, Unanswered, AttemptsInv, IsSequence
<1>3. \/ \E r : turn' = [turn EXCEPT !.request = r]
      \/ \E p : turn' = [turn EXCEPT !.phase = p, !.failure = "CONTROLLER_ERROR"]
  BY DEF Decide, DecideFails
<1>4. /\ turn'.observation = turn.observation /\ turn'.memory = turn.memory
      /\ turn'.opportunity = turn.opportunity /\ turn'.attempt = turn.attempt
      /\ turn'.offset = turn.offset /\ turn'.receipt = NoReceipt /\ turn'.closed = turn.closed
      /\ turn'.called = turn.called
  BY <1>2, <1>3 DEF TurnFields
<1>5. turn.observation # NoObservation /\ turn.offset = Len(attempts)
  BY <1>1 DEF Remembers, TurnMemory, TurnAttempts
<1>6. TurnTraces'
  <2>1. (Len(attempts) + 1)..Len(attempts) = {}
    BY <1>2
  <2>. QED  BY <1>1, <1>2, <1>4, <1>5, <2>1 DEF TurnTraces, Since
<1>7. ~Experienced(Decision(turn))'
  BY <1>4 DEF Experienced, Decision
<1>8. ASSUME NEW a, TurnRead(a)  PROVE TurnRead(a)'
  <2>1. TurnGiven(a) /\ archive = Begun(a, turn.observation) /\ turn.closed = 0
    BY <1>1, <1>5, <1>8 DEF TurnRead, TurnCloses
  <2>2. TurnGiven(a)'
    BY <1>4, <2>1 DEF TurnGiven
  <2>3. TurnCloses(a)'
    BY <1>1, <1>4, <1>7, <2>1 DEF TurnCloses
  <2>. QED  BY <1>1, <1>4, <1>5, <2>2, <2>3 DEF TurnRead
<1>. QED  BY <1>1, <1>6, <1>8, TurnJudged DEF Adds

\* The submission adds the turn's attempt with its answer, or none.
LEMMA SubmitRecord ==
    ASSUME TrialInv, AttemptsInv, Remembers, RecordInv, Submit
    PROVE  RecordInv'
<1>1. PICK s :
        /\ Submitted(turn.request, s)
        /\ turn' = [turn EXCEPT
              !.receipt = ReceiptOf(s), !.protocol_failure = s.refusal,
              !.failure = IF s.status = "NONE" THEN "SUBMISSION_ERROR" ELSE "NONE"]
  BY DEF Submit
<1>2. /\ pc = "submit" /\ pc' = "close" /\ InTurn /\ InTurn' /\ UNCHANGED <<archive, decisions>>
  BY DEF Submit, Goes, book, InTurn
<1>3. DOMAIN turn = TurnFields /\ Len(attempts) \in Nat
  BY DEF TrialInv, TurnInv, AttemptsInv, IsSequence
<1>4. /\ turn'.observation = turn.observation /\ turn'.memory = turn.memory
      /\ turn'.opportunity = turn.opportunity /\ turn'.attempt = turn.attempt
      /\ turn'.offset = turn.offset /\ turn'.receipt = ReceiptOf(s) /\ turn'.closed = turn.closed
      /\ turn'.called = turn.called /\ turn'.request = turn.request
  BY <1>1, <1>3 DEF TurnFields
<1>5. turn.observation # NoObservation /\ turn.offset = Len(attempts)
  BY <1>2 DEF Remembers, TurnMemory, TurnAttempts
<1>6. PICK n : n = Len(attempts)
  OBVIOUS
<1>7. /\ Len(attempts') <= n + 1
      /\ \A i \in (n + 1)..Len(attempts') :
            attempts'[i].request = turn.request /\ attempts'[i].receipt = ReceiptOf(s)
  <2>1. CASE attempts' = attempts
    BY <1>3, <1>6, <2>1
  <2>2. CASE \E b : attempts' = Append(attempts, [request |-> turn.request,
                                                  receipt |-> ReceiptOf(s),
                                                  engine_submitted |-> b])
    <3>1. PICK b : attempts' = Append(attempts, [request |-> turn.request,
                                                 receipt |-> ReceiptOf(s),
                                                 engine_submitted |-> b])
      BY <2>2
    <3>2. /\ Len(attempts') = n + 1
          /\ attempts'[n + 1] = [request |-> turn.request, receipt |-> ReceiptOf(s),
                                 engine_submitted |-> b]
      BY <1>6, <3>1, Appended DEF AttemptsInv
    <3>. QED  BY <1>3, <1>6, <3>2
  <2>. QED  BY <1>1, <2>1, <2>2 DEF Submitted
<1>8. TurnTraces'
  BY <1>2, <1>3, <1>4, <1>5, <1>6, <1>7 DEF TurnTraces, Since
<1>9. ASSUME NEW a, TurnRead(a)  PROVE TurnRead(a)'
  <2>1. TurnGiven(a) /\ archive = Begun(a, turn.observation) /\ turn.closed = 0
    BY <1>2, <1>5, <1>9 DEF TurnRead, TurnCloses
  <2>2. TurnGiven(a)'
    BY <1>4, <2>1 DEF TurnGiven
  <2>3. TurnCloses(a)'
    BY <1>2, <1>4, <2>1 DEF TurnCloses
  <2>. QED  BY <1>2, <1>4, <1>5, <2>2, <2>3 DEF TurnRead
<1>10. Adds
  BY <1>1 DEF Submitted, Adds
<1>. QED  BY <1>2, <1>8, <1>9, <1>10, TurnJudged

\* What makes a turn eligible for the archive makes its decision an experience.
LEMMA EligibleIsExperienced ==
    ASSUME AttemptsInv, Remembers, pc = "close"
    PROVE  Experienced(Decision(turn)) <=> Eligible(turn)
<1>1. /\ turn.offset \in 0..Len(attempts)
      /\ \A i \in Since(turn.offset) : attempts[i].request = turn.request
  BY DEF Remembers, TurnAttempts, InTurn
<1>2. Len(attempts) \in Nat /\ DOMAIN attempts = 1..Len(attempts)
  BY DEF AttemptsInv, IsSequence
<1>3. Since(turn.offset) = {i \in DOMAIN attempts : i > turn.offset}
  BY <1>1, <1>2 DEF Since
<1>4. Linked(turn) = Since(turn.offset)
  BY <1>1, <1>3 DEF Linked
<1>5. Decision(turn).receipt = turn.receipt /\ Decision(turn).traces = Since(turn.offset)
  BY DEF Decision
<1>. QED  BY <1>4, <1>5 DEF Eligible, Experienced, Entries

\* The archive closes what the audit would close.
LEMMA CloseTraceRecord ==
    ASSUME TrialInv, AttemptsInv, Remembers, RecordInv, event_mode, CloseTrace
    PROVE  RecordInv'
<1>1. /\ pc = "close" /\ InTurn /\ pc' # "close"
      /\ UNCHANGED <<attempts, decisions, activations>> /\ DOMAIN turn = TurnFields
  BY DEF CloseTrace, Goes, Stops, world, book, InTurn, TrialInv, TurnInv
<1>2. turn.observation # NoObservation
  BY <1>1 DEF Remembers, TurnMemory
<1>3. PICK o, x : o = turn.observation /\ x = turn.receipt
  OBVIOUS
<1>4. Eligible(turn) => Closes(archive, o, x)
  <2>1. /\ archive # EmptyArchive /\ archive.context.observation = o
        /\ x # NoReceipt => BoundTo(o, x) /\ x.resolved_at = time
        /\ Kept(archive, time, observed, LastReceipt)
        /\ archive.closed = FALSE
    BY <1>1, <1>2, <1>3 DEF Remembers, TurnMemory, TurnAttempts, Holds
  <2>2. ASSUME Eligible(turn)  PROVE Closes(archive, o, x)
    <3>1. BoundTo(o, x) /\ x.resolved_at = time
      BY <1>3, <2>1, <2>2 DEF Eligible
    <3>2. ClosesWith(archive, o, x, time, observed, LastReceipt)
      BY <2>1, <3>1, CloseAccepted
    <3>. QED  BY <3>2 DEF ClosesWith
  <2>. QED  BY <2>2
<1>5. /\ pc' = "conclude"
      /\ ~Eligible(turn) => archive' = archive /\ turn' = turn
      /\ Eligible(turn) =>
            /\ archive' = Closed(archive, o, x)
            /\ turn' = [turn EXCEPT !.closed = TraceOf(archive', o)]
  <2>1. CASE ~Eligible(turn)
    BY <2>1 DEF CloseTrace, Goes
  <2>2. CASE Eligible(turn)
    BY <1>3, <1>4, <2>2 DEF CloseTrace, Goes
  <2>. QED  BY <2>1, <2>2
<1>6. /\ turn'.observation = o /\ turn'.memory = turn.memory
      /\ turn'.opportunity = turn.opportunity /\ turn'.attempt = turn.attempt
      /\ turn'.offset = turn.offset /\ turn'.receipt = x
      /\ turn'.called = turn.called /\ turn'.request = turn.request
      /\ ~Eligible(turn) => turn'.closed = turn.closed
      /\ Eligible(turn) => turn'.closed = TraceOf(archive', o)
  BY <1>1, <1>3, <1>5 DEF TurnFields
<1>7. Experienced(Decision(turn))' <=> Eligible(turn)
  <2>1. Experienced(Decision(turn)) <=> Eligible(turn)
    BY <1>1, EligibleIsExperienced
  <2>2. Experienced(Decision(turn))' <=> Experienced(Decision(turn))
    BY <1>1, <1>3, <1>6 DEF Experienced, Entries, Decision, Since
  <2>. QED  BY <2>1, <2>2
<1>8. TurnTraces'
  BY <1>1, <1>3, <1>5, <1>6 DEF RecordInv, TurnTraces, InTurn, Since
<1>9. ASSUME NEW a, TurnRead(a)  PROVE TurnRead(a)'
  <2>1. TurnGiven(a) /\ archive = Begun(a, o) /\ turn.closed = 0
    BY <1>1, <1>2, <1>3, <1>9 DEF TurnRead, TurnCloses
  <2>2. TurnGiven(a)'
    BY <1>3, <1>6, <2>1 DEF TurnGiven
  <2>3. TurnCloses(a)'
    BY <1>4, <1>5, <1>6, <1>7, <2>1 DEF TurnCloses
  <2>. QED  BY <1>2, <1>3, <1>5, <1>6, <2>2, <2>3 DEF TurnRead, InTurn
<1>. QED  BY <1>1, <1>8, <1>9, TurnJudged DEF Adds

\* The audit finds the turn right and then has the archive that the trial has.
LEMMA AssessedTurn ==
    ASSUME TrialInv, AttemptsInv, Remembers, TurnTraces, pc = "conclude", NEW a, TurnRead(a)
    PROVE  Assessed(Reading(a, TRUE), Decision(turn)) = Reading(archive, TRUE)
<1>. DEFINE d == Decision(turn)
            begun == Begun(a, turn.observation)
<1>1. /\ d.observation = turn.observation /\ d.opportunity = turn.opportunity
      /\ d.attempt = turn.attempt /\ d.memory = turn.memory /\ d.called = turn.called
      /\ d.request = turn.request /\ d.receipt = turn.receipt /\ d.closed = turn.closed
      /\ d.failure = turn.failure /\ d.traces = Since(turn.offset)
  BY DEF Decision
<1>2. Reading(a, TRUE).archive = a /\ Reading(a, TRUE).right = TRUE
  BY DEF Reading
<1>. HIDE DEF d, begun
<1>3. CASE turn.observation = NoObservation
  <2>1. archive = a /\ turn.closed = 0 /\ turn.receipt = NoReceipt
    BY <1>3 DEF TurnRead, InTurn
  <2>2. Assessed(Reading(a, TRUE), d) = Reading(a, d.closed = 0 /\ d.receipt = NoReceipt)
    BY <1>1, <1>2, <1>3 DEF Assessed
  <2>. QED  BY <1>1, <2>1, <2>2 DEF d
<1>4. CASE turn.observation # NoObservation
  <2>1. TurnGiven(a) /\ TurnCloses(a)
    BY <1>4 DEF TurnRead, InTurn
  <2>2. TracesAgree(d)
    <3>1. /\ turn.offset \in Nat /\ DOMAIN attempts = 1..Len(attempts) /\ Len(attempts) \in Nat
          /\ \A i \in Since(turn.offset) :
                attempts[i].request = turn.request /\ attempts[i].receipt = turn.receipt
      BY DEF TurnTraces, InTurn, AttemptsInv, IsSequence
    <3>2. Since(turn.offset) \subseteq DOMAIN attempts
      BY <3>1 DEF Since
    <3>. QED  BY <1>1, <3>1, <3>2 DEF TracesAgree
  <2>3. Provenance(d, begun, Selected(a, Window))
    BY <1>1, <2>1 DEF Provenance, TurnGiven, begun
  <2>4. Begins(a, d.observation) /\ Begun(a, d.observation) = begun
    BY <1>1, <2>1 DEF TurnGiven, begun
  <2>5. Assessed(Reading(a, TRUE), d) =
          IF d.receipt = NoReceipt \/ Entries(d) = {} THEN Reading(begun, d.closed = 0)
          ELSE LET closed == Closed(begun, d.observation, d.receipt) IN
               Reading(closed, /\ Cardinality(Entries(d)) = 1
                               /\ d.failure = "NONE"
                               /\ Closes(begun, d.observation, d.receipt)
                               /\ d.closed = TraceOf(closed, d.observation))
    BY <1>1, <1>2, <1>4, <2>2, <2>3, <2>4 DEF Assessed
  <2>6. CASE ~Experienced(d)
    <3>1. archive = begun /\ turn.closed = 0
      BY <2>1, <2>6 DEF TurnCloses, begun, d
    <3>. QED  BY <1>1, <2>5, <2>6, <3>1 DEF Experienced, d
  <2>7. CASE Experienced(d)
    <3>1. /\ Closes(begun, turn.observation, turn.receipt)
          /\ archive = Closed(begun, turn.observation, turn.receipt)
          /\ turn.closed = TraceOf(archive, turn.observation)
      BY <2>1, <2>7 DEF TurnCloses, begun, d
    <3>2. d.receipt # NoReceipt /\ Entries(d) # {}
      BY <2>7 DEF Experienced
    <3>3. d.failure = "NONE"
      BY <1>1, <3>2 DEF TrialInv, TurnInv, NotSubmitted, Unanswered, SubmissionFailed, Answered
    <3>4. Cardinality(Entries(d)) = 1
      <4>1. turn.offset \in Nat /\ Len(attempts) <= turn.offset + 1 /\ Len(attempts) \in Nat
        BY DEF TurnTraces, InTurn, AttemptsInv, IsSequence
      <4>2. Entries(d) \subseteq {turn.offset + 1}
        BY <1>1, <4>1 DEF Entries, Since
      <4>3. Entries(d) = {turn.offset + 1}
        BY <3>2, <4>2
      <4>. QED  BY <4>3, FS_Singleton
    <3>. QED  BY <1>1, <2>5, <3>1, <3>2, <3>3, <3>4 DEF d
  <2>. QED  BY <2>6, <2>7
<1>. QED  BY <1>3, <1>4

\* What the turn closes is told after the past.
LEMMA TurnTold ==
    ASSUME TrialInv, AttemptsInv, Remembers, pc = "conclude", NEW a, TurnRead(a),
           IsSequence(a.traces)
    PROVE  IF Experienced(Decision(turn))
           THEN \E t : /\ archive.traces = Append(a.traces, t)
                       /\ t.observation = turn.observation /\ t.receipt = turn.receipt
           ELSE archive.traces = a.traces
<1>1. CASE turn.observation = NoObservation
  <2>1. archive = a /\ turn.receipt = NoReceipt
    BY <1>1 DEF TurnRead, InTurn
  <2>. QED  BY <2>1 DEF Experienced, Decision
<1>2. CASE turn.observation # NoObservation
  <2>. DEFINE o == turn.observation
              begun == Begun(a, o)
  <2>1. TurnGiven(a) /\ TurnCloses(a)
    BY <1>2 DEF TurnRead, InTurn
  <2>2. DOMAIN begun = DOMAIN a /\ (begun.traces = a.traces)
    <3>1. begun = [[a EXCEPT !.context = NextContext(a, o)] EXCEPT !.closed = FALSE]
      BY DEF Begun
    <3>. QED  BY <3>1
  <2>3. CASE ~Experienced(Decision(turn))
    BY <2>1, <2>2, <2>3 DEF TurnCloses
  <2>4. CASE Experienced(Decision(turn))
    <3>1. archive = Closed(begun, o, turn.receipt)
      BY <2>1, <2>4 DEF TurnCloses
    <3>2. Recorded(begun, o) = {}
      <4>1. ASSUME NEW i \in Recorded(begun, o)  PROVE FALSE
        <5>1. archive.traces = a.traces
          BY <2>2, <3>1, <4>1 DEF Closed
        <5>2. i \in DOMAIN archive.traces /\ archive.traces[i].observation.sequence = o.sequence
          BY <2>2, <4>1, <5>1 DEF Recorded
        <5>3. archive.traces[i].observation.sequence \in Nat
          BY <5>2 DEF Remembers, Kept, Orderly, Older
        <5>4. \E c : IsPast(a.traces, o, c)
          BY <2>1 DEF TurnGiven, Begins
        <5>5. archive.traces[i].observation.sequence < o.sequence
          BY <5>1, <5>2, <5>4 DEF IsPast
        <5>. QED  BY <5>2, <5>3, <5>5
      <4>. QED  BY <4>1
    <3>3. \E t : /\ Closed(begun, o, turn.receipt)
                       = [begun EXCEPT !.closed = TRUE, !.traces = Append(@, t)]
                 /\ t.observation = o /\ t.receipt = turn.receipt
      <4>1. PICK b : b = begun
        OBVIOUS
      <4>2. PICK t : t = [sequence |-> Len(b.traces) + 1, opportunity |-> b.context.opportunity,
                          attempt |-> b.context.attempt, observation |-> o,
                          receipt |-> turn.receipt, closed_at |-> turn.receipt.resolved_at]
        OBVIOUS
      <4>3. Closed(b, o, turn.receipt) = [b EXCEPT !.closed = TRUE, !.traces = Append(@, t)]
        BY <3>2, <4>1, <4>2, Zenon DEF Closed
      <4>4. t.observation = o /\ t.receipt = turn.receipt
        BY <4>2
      <4>. QED  BY <4>1, <4>3, <4>4, Zenon
    <3>4. DOMAIN archive = {"traces", "context", "closed"}
      BY DEF Remembers, Kept, Orderly
    <3>. QED  BY <2>2, <2>4, <3>1, <3>3, <3>4
  <2>. QED  BY <2>3, <2>4
<1>. QED  BY <1>1, <1>2

\* The turn is recorded: the audit reads it right, and what it experienced is
\* the latest of the past.
LEMMA ConcludeRecord ==
    ASSUME TrialInv, AttemptsInv, Remembers, RecordInv, Conclude
    PROVE  RecordInv'
<1>1. PICK n : n = Len(decisions)
  OBVIOUS
<1>2. PICK d : d = Decision(turn)
  OBVIOUS
<1>3. /\ pc = "conclude" /\ ~InTurn' /\ decisions' = Append(decisions, d)
      /\ UNCHANGED <<attempts, archive>>
  <2>1. pc' \in {"loop", "npc", "end"}
    BY DEF Conclude, Stops, Goes
  <2>. QED  BY <1>2, <2>1 DEF Conclude, world, InTurn
<1>4. /\ n \in Nat /\ Len(decisions') = n + 1 /\ DOMAIN decisions = 1..n
      /\ DOMAIN decisions' = 1..(n + 1)
      /\ \A i \in 1..n : decisions'[i] = decisions[i]
      /\ decisions'[n + 1] = d
  BY <1>1, <1>3, Appended DEF TrialInv, Counts, IsSequence
<1>5. PICK r, a : AuditOf(r, a) /\ TurnRead(a)
  BY DEF RecordInv
<1>6. /\ \A i \in 1..n : decisions[i].traces \subseteq DOMAIN attempts
      /\ Adds
  BY <1>3, <1>4 DEF Remembers, DecisionsInv, Adds
<1>7. /\ \A i \in 1..n : Experienced(decisions[i])' <=> Experienced(decisions[i])
      /\ \A m \in 0..n : Experiences(m)' = Experiences(m)
      /\ \A x : \A i \in 1..n : Assessed(x, decisions[i])' = Assessed(x, decisions[i])
      /\ \A t : Told(t, n)' <=> Told(t, n)
      /\ \A m, t : \A i \in 0..n : Delivered(m, i, t)' <=> Delivered(m, i, t)
  BY <1>4, <1>6, PastStays
<1>8. /\ Experienced(d)' <=> Experienced(d)
      /\ \A x : Assessed(x, d)' = Assessed(x, d)
  BY <1>3 DEF Experienced, Entries, Assessed, TracesAgree
<1>9. /\ Assessed(Reading(a, TRUE), d) = Reading(archive, TRUE)
      /\ Follows(r, decisions) /\ r[n] = Reading(a, TRUE) /\ Told(a.traces, n)
  BY <1>1, <1>2, <1>3, <1>5, AssessedTurn DEF RecordInv, AuditOf
<1>10. PICK b : b = archive
  OBVIOUS
<1>11. PICK q : q = [i \in 0..(n + 1) |-> IF i = n + 1 THEN Reading(b, TRUE) ELSE r[i]]
  OBVIOUS
<1>19. q[n + 1] = Reading(b, TRUE) /\ \A i \in 0..n : q[i] = r[i]
  <2>1. /\ n + 1 \in 0..(n + 1)
        /\ \A i \in 0..n : i \in 0..(n + 1) /\ i # n + 1
    BY <1>4
  <2>. QED  BY <1>11, <2>1
<1>12. Follows(q, decisions)'
  <2>1. q[0] = Reading(EmptyArchive, TRUE)
    <3>1. r[0] = Reading(EmptyArchive, TRUE)
      BY <1>9 DEF Follows
    <3>2. 0 \in 0..n
      BY <1>4
    <3>. QED  BY <1>19, <3>1, <3>2
  <2>2. ASSUME NEW i \in 1..(n + 1)
        PROVE  q[i] = Assessed(q[i - 1], decisions[i])'
    <3>1. CASE i = n + 1
      <4>1. q[i - 1] = Reading(a, TRUE) /\ q[i] = Reading(b, TRUE)
        <5>1. i - 1 = n /\ n \in 0..n
          BY <1>4, <3>1
        <5>. QED  BY <1>9, <1>19, <3>1, <5>1
      <4>2. Assessed(Reading(a, TRUE), decisions[i])' = Assessed(Reading(a, TRUE), d)'
        BY <1>4, <3>1 DEF Assessed, TracesAgree, Entries, Provenance
      <4>3. Assessed(Reading(a, TRUE), d)' = Reading(b, TRUE)
        BY <1>8, <1>9, <1>10
      <4>4. Assessed(q[i - 1], decisions[i])' = Assessed(Reading(a, TRUE), decisions[i])'
        BY <4>1
      <4>. QED  BY <4>1, <4>2, <4>3, <4>4
    <3>2. CASE i \in 1..n
      <4>1. q[i] = r[i] /\ q[i - 1] = r[i - 1]
        <5>1. i \in 0..n /\ i - 1 \in 0..n
          BY <1>4, <3>2
        <5>. QED  BY <1>19, <5>1
      <4>2. r[i] = Assessed(r[i - 1], decisions[i])
        BY <1>1, <1>9, <3>2 DEF Follows
      <4>3. Assessed(r[i - 1], decisions[i])' = Assessed(r[i - 1], decisions[i])
        BY <1>7, <3>2
      <4>. QED  BY <4>1, <4>2, <4>3
    <3>. QED  BY <1>4, <3>1, <3>2
  <2>. QED  BY <1>4, <2>1, <2>2 DEF Follows
<1>14. Experiences(n + 1)' = IF Experienced(d) THEN Experiences(n) + 1 ELSE Experiences(n)
  <2>1. Tallied'
    BY ExperiencesTallied, PTL
  <2>2. Experienced(decisions[n + 1])' <=> Experienced(d)
    BY <1>4, <1>8 DEF Experienced, Entries
  <2>3. Experiences(n)' = Experiences(n)
    BY <1>4, <1>7
  <2>. QED  BY <1>4, <2>1, <2>2, <2>3 DEF Tallied
<1>15. Told(b.traces, n + 1)'
  <2>1. Told(a.traces, n)' /\ IsSequence(a.traces) /\ Len(a.traces) = Experiences(n)
    BY <1>7, <1>9 DEF Told
  <2>2. Experiences(n)' = Experiences(n) /\ Experiences(n) \in Nat
    BY <1>4, <1>7, ExperiencesCount
  <2>3. IF Experienced(d)
        THEN \E t : /\ b.traces = Append(a.traces, t)
                    /\ t.observation = d.observation /\ t.receipt = d.receipt
        ELSE b.traces = a.traces
    <3>1. d.observation = turn.observation /\ d.receipt = turn.receipt
      BY <1>2 DEF Decision
    <3>. QED  BY <1>2, <1>3, <1>5, <1>10, <2>1, <3>1, TurnTold
  <2>4. \A j \in 1..n : j \in 1..(n + 1)
    BY <1>4
  <2>5. CASE ~Experienced(d)
    BY <1>14, <2>1, <2>2, <2>3, <2>4, <2>5 DEF Told
  <2>6. CASE Experienced(d)
    <3>1. PICK t : /\ b.traces = Append(a.traces, t)
                   /\ t.observation = d.observation /\ t.receipt = d.receipt
      BY <2>3, <2>6
    <3>2. PICK N : N = Experiences(n)
      OBVIOUS
    <3>3. /\ IsSequence(b.traces) /\ N \in Nat /\ Len(b.traces) = N + 1
          /\ DOMAIN b.traces = 1..(N + 1) /\ DOMAIN a.traces = 1..N
          /\ \A m \in 1..N : b.traces[m] = a.traces[m]
          /\ b.traces[N + 1] = t
      <4>1. IsSequence(b.traces) /\ Len(b.traces) = N + 1
        BY <2>1, <2>2, <3>1, <3>2, Appended
      <4>2. /\ \A m \in 1..N : b.traces[m] = a.traces[m]
            /\ b.traces[N + 1] = t
        BY <2>1, <2>2, <3>1, <3>2, Appended
      <4>. QED  BY <2>1, <2>2, <3>2, <4>1, <4>2 DEF IsSequence
    <3>4. Experiences(n + 1)' = N + 1
      BY <1>14, <2>6, <3>2
    <3>5. ASSUME NEW m \in 1..(N + 1)
          PROVE  (\E j \in 1..(n + 1) :
                     /\ Experienced(decisions[j]) /\ Experiences(j) = m
                     /\ b.traces[m].observation = decisions[j].observation
                     /\ b.traces[m].receipt = decisions[j].receipt)'
      <4>1. CASE m = N + 1
        <5>1. n + 1 \in 1..(n + 1)
          BY <1>4
        <5>2. Experienced(decisions[n + 1])'
          BY <1>4, <1>8, <2>6 DEF Experienced, Entries
        <5>. QED  BY <1>4, <3>1, <3>3, <3>4, <4>1, <5>1, <5>2
      <4>2. CASE m \in 1..N
        BY <2>1, <2>4, <3>3, <4>2 DEF Told
      <4>. QED  BY <3>3, <4>1, <4>2
    <3>. QED  BY <3>3, <3>4, <3>5 DEF Told
  <2>. QED  BY <2>5, <2>6
<1>16. DeliveredAll'
  <2>1. ASSUME NEW i \in 1..(n + 1), Observed(decisions[i])'
        PROVE  Delivered(decisions[i].memory, i - 1, decisions[i].tick)'
    <3>1. CASE i \in 1..n
      <4>1. PICK m, t : m = decisions[i].memory /\ t = decisions[i].tick
        OBVIOUS
      <4>2. i - 1 \in 0..n /\ Observed(decisions[i])
        BY <1>4, <2>1, <3>1 DEF Observed
      <4>3. Delivered(m, i - 1, t)'
        BY <1>4, <1>7, <3>1, <4>1, <4>2 DEF RecordInv, DeliveredAll
      <4>. QED  BY <1>4, <3>1, <4>1, <4>3
    <3>2. CASE i = n + 1
      <4>1. PICK m, t : m = d.memory /\ t = d.tick
        OBVIOUS
      <4>2. /\ d.observation = turn.observation /\ d.memory = turn.memory /\ d.tick = turn.tick
            /\ turn.observation # NoObservation
        BY <1>2, <1>4, <2>1, <3>2 DEF Decision, Observed
      <4>3. TurnGiven(a) /\ turn.tick = turn.observation.time
        BY <1>3, <1>5, <4>2 DEF TurnRead, InTurn, Remembers, TurnMemory, Holds
      <4>4. Delivered(m, n, t)
        BY <1>4, <1>9, <4>1, <4>2, <4>3, SelectedDelivers DEF TurnGiven
      <4>5. Delivered(m, n, t)'
        BY <1>4, <1>7, <4>4
      <4>6. i - 1 = n /\ decisions'[i] = d
        BY <1>4, <3>2
      <4>. QED  BY <4>1, <4>5, <4>6
    <3>. QED  BY <1>4, <3>1, <3>2
  <2>. QED  BY <1>4, <2>1 DEF DeliveredAll
<1>17. TurnRead(b)' /\ TurnTraces'
  BY <1>3, <1>10 DEF TurnRead, TurnTraces
<1>18. AuditOf(q, b)'
  BY <1>4, <1>12, <1>15, <1>19 DEF AuditOf
<1>. QED  BY <1>16, <1>17, <1>18 DEF RecordInv

\* An NPC's turn, the wall clock and the end of the loop change nothing that the
\* audit reads.
LEMMA RestRecord ==
    ASSUME TrialInv, AttemptsInv, Remembers, RecordInv, Adds,
           \/ ActNpc \/ NpcObserveFails
           \/ Leave \/ WallPasses \/ UNCHANGED vars
    PROVE  RecordInv'
<1>1. /\ UNCHANGED <<archive, decisions, turn>>
      /\ \/ ~InTurn /\ ~InTurn'
         \/ pc' = pc /\ UNCHANGED <<attempts, activations>>
  <2>1. CASE ActNpc \/ NpcObserveFails
    <3>1. pc = "npc" /\ \E failed \in BOOLEAN : Activated(failed)
      BY <2>1, Zenon DEF ActNpc, NpcObserveFails
    <3>. QED  BY <3>1 DEF Activated, Stops, Goes, InTurn
  <2>2. CASE Leave \/ WallPasses \/ UNCHANGED vars
    BY <2>2 DEF Leave, Stops, WallPasses, vars, world, book, InTurn
  <2>. QED  BY <2>1, <2>2
<1>2. CASE ~InTurn /\ ~InTurn'
  <2>1. TurnTraces' /\ \A a : TurnRead(a) => TurnRead(a)'
    BY <1>1, <1>2 DEF TurnTraces, TurnRead
  <2>. QED  BY <1>1, <2>1, TurnJudged
<1>3. CASE pc' = pc /\ UNCHANGED <<attempts, activations>>
  <2>1. InTurn' = InTurn /\ TurnTraces'
    BY <1>1, <1>3 DEF RecordInv, TurnTraces, InTurn, Since
  <2>2. Experienced(Decision(turn))' <=> Experienced(Decision(turn))
    BY <1>1, <1>3 DEF Experienced, Entries, Decision, Since
  <2>3. ASSUME NEW a, TurnRead(a)  PROVE TurnRead(a)'
    <3>1. TurnGiven(a)' <=> TurnGiven(a)
      BY <1>1 DEF TurnGiven
    <3>2. TurnCloses(a)' <=> TurnCloses(a)
      BY <1>1, <1>3, <2>2 DEF TurnCloses
    <3>. QED  BY <1>1, <2>1, <2>3, <3>1, <3>2 DEF TurnRead
  <2>. QED  BY <1>1, <2>1, <2>3, TurnJudged
<1>. QED  BY <1>1, <1>2, <1>3

AuditInv == MemoryInv /\ (event_mode => RecordInv)

\* Every step leaves a record that the audit finds right.
LEMMA RecordStep == TrialInv /\ AuditInv /\ [Next]_vars => AuditInv'
<1>. SUFFICES ASSUME TrialInv, AuditInv, [Next]_vars  PROVE AuditInv'
  OBVIOUS
<1>1. MemoryInv' /\ Adds /\ event_mode' = event_mode
  <2>1. event_mode' = event_mode
    BY DEF vars, Next, Turn, Leave, BeginTurn, ObserveFails, Decide, DecideFails,
           Submit, CloseTrace, Conclude, ActNpc, NpcObserveFails, Activated, WallPasses
  <2>. QED  BY <2>1, MemoryStep, OnlyAdds DEF AuditInv
<1>2. event_mode => RecordInv'
  BY <1>1, BeginTurnRecord, ObserveFailsRecord, DecideRecord, SubmitRecord, CloseTraceRecord,
     ConcludeRecord, RestRecord
  DEF AuditInv, MemoryInv, Next, Turn
<1>. QED  BY <1>1, <1>2 DEF AuditInv

LEMMA AuditInit == Init => AuditInv
BY MemoryInit, RecordInit DEF AuditInv, MemoryInv, Init

-----------------------------------------------------------------------------
\* A decision is delivered exactly the latest experiences that the actor had had
\* by then, and is counted an attempt of what it was: for every window, every
\* number of turns and whatever failed in them.
THEOREM MemoryFaithful == Spec => []MemoryIsFaithful
<1>1. TrialInv /\ AuditInv => DeliveredIsPast
  <2>. SUFFICES ASSUME TrialInv, AuditInv, event_mode  PROVE DeliveredIsPast
    BY DEF DeliveredIsPast
  <2>1. DeliveredAll
    BY DEF AuditInv, RecordInv
  <2>. QED  BY <2>1 DEF DeliveredAll, Delivered, DeliveredIsPast
<1>2. Spec => []DeliveredIsPast
  BY <1>1, TrialInit, TrialStep, AuditInit, RecordStep, PTL DEF Spec
<1>. QED  BY <1>2, AttemptsBelongTogether, PTL DEF MemoryIsFaithful

\* The audit of a trial with event memory finds the record of it right between
\* any two turns.
LEMMA ReadRight ==
    ASSUME TrialInv, AuditInv, event_mode, ~InTurn
    PROVE  Included
<1>1. PICK r, a : AuditOf(r, a) /\ TurnRead(a)
  BY DEF AuditInv, RecordInv
<1>2. archive = a
  BY <1>1 DEF TurnRead
<1>3. FoldLeft(Assessed, Reading(EmptyArchive, TRUE), decisions) = Reading(a, TRUE)
  BY <1>1, FoldFollows DEF AuditOf, TrialInv, Counts
<1>4. Reading(a, TRUE).right = TRUE /\ Reading(a, TRUE).archive = a
  BY DEF Reading
<1>. QED  BY <1>2, <1>3, <1>4 DEF Included

-----------------------------------------------------------------------------
\* The trial without event memory: what the turn and the decisions tell of the
\* attempts, and the attempts of them.
Phases ==
    {"NONE", "INVALID_OUTPUT", "PROVIDER_ERROR", "PROVIDER_IDENTITY_MISMATCH",
     "OBSERVATION_UNAVAILABLE"}

TurnPlain ==
    InTurn =>
        /\ turn.offset \in 0..Len(attempts) /\ turn.memory = <<>> /\ turn.phase \in Phases
        /\ pc \in {"provider", "submit"} => turn.offset = Len(attempts)
        /\ pc = "provider" => turn.observation.sequence \in 1..observed
        /\ pc = "submit" => turn.request.actor = "stranger" /\ turn.request.based_on \in 1..observed
        /\ \A i \in Since(turn.offset) :
            /\ attempts[i].request = turn.request /\ attempts[i].receipt = turn.receipt
            /\ attempts[i].request.actor = "stranger"
            /\ turn.receipt = NoReceipt => turn.failure = "SUBMISSION_ERROR"
        /\ turn.receipt # NoReceipt => Since(turn.offset) # {}

\* The attempts that are not of the turn in progress.
Settled == IF InTurn THEN turn.offset ELSE Len(attempts)

Holders(i) == {n \in DOMAIN decisions : i \in decisions[n].traces}

\* No exception was raised in a trial that goes on or got to the horizon.
Sound == pc # "end" \/ stop = Horizon

AttemptPlain(i) ==
    /\ IF attempts[i].request.actor = "stranger" THEN \E n \in DOMAIN decisions : Holders(i) = {n}
       ELSE Holders(i) = {}
    /\ Sound => attempts[i].receipt # NoReceipt

DecisionPlain(d) ==
    /\ d.traces \subseteq 1..Settled /\ d.phase \in Phases /\ Configured(d)
    /\ d.receipt # NoReceipt => d.traces # {}
    /\ \A i \in d.traces : attempts[i].request = d.request /\ attempts[i].receipt = d.receipt

BasedInv == \A i \in DOMAIN attempts : attempts[i].request.based_on \in 1..observed
SettledInv == \A i \in 1..Settled : AttemptPlain(i)
DecidedInv == \A n \in DOMAIN decisions : DecisionPlain(decisions[n])

PlainInv == TurnPlain /\ BasedInv /\ SettledInv /\ DecidedInv

LEMMA PlainInit == Init => PlainInv
BY DEF Init, PlainInv, TurnPlain, BasedInv, SettledInv, DecidedInv, InTurn, Settled

\* What is settled and decided stays so while attempts and activations are added.
LEMMA PlainStays ==
    ASSUME AttemptsInv, PlainInv, Adds, decisions' = decisions, Sound' => Sound,
           Settled' = Settled, Settled \in 0..Len(attempts),
           DOMAIN activations \subseteq DOMAIN activations',
           \A i \in DOMAIN activations : activations'[i] = activations[i]
    PROVE  SettledInv' /\ DecidedInv'
<1>1. \A i \in 1..Settled : attempts'[i] = attempts[i]
  BY LastReceiptGrows
<1>2. \A i : Holders(i)' = Holders(i)
  BY DEF Holders
<1>3. ASSUME NEW i \in 1..Settled  PROVE AttemptPlain(i)'
  BY <1>1, <1>2 DEF AttemptPlain, PlainInv, SettledInv
<1>4. ASSUME NEW n \in DOMAIN decisions  PROVE DecisionPlain(decisions[n])'
  <2>1. PICK d : d = decisions[n]
    OBVIOUS
  <2>2. DecisionPlain(d)
    BY <2>1 DEF PlainInv, DecidedInv
  <2>3. Configured(d)'
    BY <2>2 DEF DecisionPlain, Configured
  <2>4. \A i \in d.traces : attempts'[i] = attempts[i]
    BY <1>1, <2>2 DEF DecisionPlain
  <2>5. DecisionPlain(d)'
    BY <2>2, <2>3, <2>4 DEF DecisionPlain
  <2>. QED  BY <2>1, <2>5 DEF DecisionPlain, Configured
<1>. QED  BY <1>3, <1>4 DEF SettledInv, DecidedInv

\* A turn begins, with an observation of the run or with none.
LEMMA BeginPlain ==
    ASSUME TrialInv, AttemptsInv, PlainInv, ~event_mode, BeginTurn \/ ObserveFails
    PROVE  PlainInv'
<1>1. /\ pc = "loop" /\ ~InTurn /\ UNCHANGED <<attempts, decisions, activations, stop>>
      /\ pc' \in {"provider", "conclude"} /\ InTurn' /\ Len(attempts) \in Nat
      /\ observed \in Nat /\ observed' \in Nat /\ observed <= observed' /\ Sound /\ Sound'
  BY DEF BeginTurn, ObserveFails, Goes, InTurn, book, world, AttemptsInv, IsSequence, TrialInv,
         Counts, TypeOK, Sound
<1>2. /\ DOMAIN Opening = TurnFields /\ Opening.offset = Len(attempts) /\ Opening.memory = <<>>
      /\ Opening.receipt = NoReceipt
  BY DEF Opening, NoTurn, TurnFields
<1>3. /\ turn'.offset = Len(attempts) /\ turn'.memory = <<>> /\ turn'.phase \in Phases
      /\ turn'.receipt = NoReceipt
      /\ pc' = "provider" => turn'.observation.sequence \in 1..observed'
  <2>1. CASE BeginTurn
    <3>1. PICK o : o = Seen(observed + 1, time, LastReceipt)
      OBVIOUS
    <3>2. \E n, a : turn' = [Opening EXCEPT
                       !.observation = o, !.opportunity = n, !.attempt = a,
                       !.memory = <<>>, !.called = TRUE, !.phase = "NONE", !.failure = "NONE"]
      <4>. DEFINE begins == event_mode => Begins(archive, o)
                  opens == event_mode /\ begins
      <4>1. \E n, a : turn' = [Opening EXCEPT
              !.observation = o, !.opportunity = n, !.attempt = a,
              !.memory = IF opens THEN Selected(archive, Window) ELSE <<>>, !.called = begins,
              !.phase = IF begins THEN "NONE" ELSE "MEMORY_ERROR",
              !.failure = IF begins THEN "NONE" ELSE "CONTROLLER_ERROR"]
        BY <2>1, <3>1, Zenon DEF BeginTurn
      <4>2. begins = TRUE /\ opens = FALSE
        OBVIOUS
      <4>. HIDE DEF begins, opens
      <4>. QED  BY <4>1, <4>2
    <3>3. /\ turn'.offset = Len(attempts) /\ turn'.memory = <<>> /\ turn'.phase = "NONE"
          /\ turn'.receipt = NoReceipt /\ turn'.observation = o
      BY <1>2, <3>2 DEF TurnFields
    <3>4. o.sequence = observed + 1 /\ observed' = observed + 1
      BY <2>1, <3>1 DEF Seen, BeginTurn
    <3>. QED  BY <1>1, <3>3, <3>4 DEF Phases
  <2>2. CASE ObserveFails
    <3>1. /\ turn' = [Opening EXCEPT !.phase = "OBSERVATION_UNAVAILABLE",
                                     !.failure = "OBSERVATION_UNAVAILABLE"]
          /\ pc' = "conclude"
      BY <2>2 DEF ObserveFails, Goes
    <3>. QED  BY <1>2, <3>1 DEF TurnFields, Phases
  <2>. QED  BY <2>1, <2>2
<1>4. (Len(attempts) + 1)..Len(attempts) = {}
  BY <1>1
<1>5. TurnPlain'
  BY <1>1, <1>3, <1>4 DEF TurnPlain, Since
<1>6. BasedInv'
  BY <1>1 DEF PlainInv, BasedInv
<1>7. Settled' = Settled /\ Settled \in 0..Len(attempts)
  BY <1>1, <1>3 DEF Settled
<1>8. SettledInv' /\ DecidedInv'
  BY <1>1, <1>7, PlainStays DEF Adds
<1>. QED  BY <1>5, <1>6, <1>8 DEF PlainInv

\* The provider answers or fails: nothing is attempted.
LEMMA DecidePlain ==
    ASSUME TrialInv, AttemptsInv, PlainInv, Decide \/ DecideFails
    PROVE  PlainInv'
<1>1. /\ pc = "provider" /\ InTurn /\ InTurn'
      /\ UNCHANGED <<attempts, decisions, activations, stop, observed>>
      /\ pc' \in {"submit", "conclude"} /\ Len(attempts) \in Nat /\ Sound /\ Sound'
  BY DEF Decide, DecideFails, Goes, InTurn, book, world, AttemptsInv, IsSequence, Sound
<1>2. /\ DOMAIN turn = TurnFields /\ turn.receipt = NoReceipt
      /\ turn.offset = Len(attempts) /\ turn.memory = <<>> /\ turn.phase \in Phases
      /\ turn.observation.sequence \in 1..observed
  BY <1>1 DEF TrialInv, TurnInv, Unanswered, PlainInv, TurnPlain
<1>3. \/ /\ pc' = "submit"
         /\ \E a : turn' = [turn EXCEPT
                      !.request = Request("stranger", turn.observation.sequence, a)]
      \/ /\ pc' = "conclude"
         /\ \E p \in Phases : turn' = [turn EXCEPT !.phase = p, !.failure = "CONTROLLER_ERROR"]
  BY DEF Decide, DecideFails, Goes, Phases
<1>4. /\ turn'.offset = Len(attempts) /\ turn'.memory = <<>> /\ turn'.phase \in Phases
      /\ turn'.receipt = NoReceipt
      /\ pc' = "submit" => turn'.request.actor = "stranger" /\ turn'.request.based_on \in 1..observed
  <2>1. \A a : /\ Request("stranger", turn.observation.sequence, a).actor = "stranger"
               /\ Request("stranger", turn.observation.sequence, a).based_on
                    = turn.observation.sequence
    BY DEF Request
  <2>2. CASE pc' = "submit" /\ \E a : turn' = [turn EXCEPT
                      !.request = Request("stranger", turn.observation.sequence, a)]
    <3>1. PICK r : /\ turn' = [turn EXCEPT !.request = r]
                   /\ r.actor = "stranger" /\ r.based_on = turn.observation.sequence
      BY <2>1, <2>2
    <3>. QED  BY <1>2, <3>1 DEF TurnFields
  <2>3. CASE pc' = "conclude" /\ \E p \in Phases :
                      turn' = [turn EXCEPT !.phase = p, !.failure = "CONTROLLER_ERROR"]
    BY <1>2, <2>3 DEF TurnFields
  <2>. QED  BY <1>3, <2>2, <2>3
<1>5. (Len(attempts) + 1)..Len(attempts) = {}
  BY <1>1
<1>6. TurnPlain'
  BY <1>1, <1>4, <1>5 DEF TurnPlain, Since
<1>7. BasedInv'
  BY <1>1 DEF PlainInv, BasedInv
<1>8. Settled' = Settled /\ Settled \in 0..Len(attempts)
  BY <1>1, <1>2, <1>4 DEF Settled
<1>9. SettledInv' /\ DecidedInv'
  BY <1>1, <1>8, PlainStays DEF Adds
<1>. QED  BY <1>6, <1>7, <1>9 DEF PlainInv

\* Whatever has an answer was traced.
LEMMA AnsweredIsTraced ==
    ASSUME NEW a, NEW s \in Submissions(a), s.status # "NONE"
    PROVE  s.traced = TRUE
<1>1. \A reason : Refused(reason).status = "NONE"
  BY DEF Refused
<1>2. \A x, y, z : Entered(x, y, z).traced = TRUE
  BY DEF Entered
<1>3. s \in Withheld(a) \union Executed(a)
  BY <1>1 DEF Submissions
<1>4. \E x, y, z : s = Entered(x, y, z)
  <2>1. CASE s \in Withheld(a)
    BY <2>1 DEF Withheld
  <2>2. CASE s \in Executed(a)
    BY <2>2 DEF Executed
  <2>. QED  BY <1>3, <2>1, <2>2
<1>. QED  BY <1>2, <1>4

\* What a submission may leave in the record of the attempts.
LEMMA SubmittedIs ==
    ASSUME AttemptsInv, NEW a, NEW s \in Submissions(a), NEW r, Submitted(r, s)
    PROVE  LET n == Len(attempts) IN
           /\ Adds /\ n \in Nat /\ IsSequence(attempts')
           /\ \/ attempts' = attempts /\ Len(attempts') = n /\ ReceiptOf(s) = NoReceipt
              \/ /\ Len(attempts') = n + 1 /\ \A i \in 1..n : attempts'[i] = attempts[i]
                 /\ attempts'[n + 1].request = r /\ attempts'[n + 1].receipt = ReceiptOf(s)
<1>1. CASE s.traced
  <2>1. PICK e : /\ attempts' = Append(attempts, e)
                 /\ e.request = r /\ e.receipt = ReceiptOf(s)
    BY <1>1 DEF Submitted
  <2>. QED  BY <2>1, Appended DEF AttemptsInv, Adds
<1>2. CASE ~s.traced
  <2>1. attempts' = attempts /\ Len(attempts) \in Nat
    BY <1>2 DEF Submitted, AttemptsInv, IsSequence
  <2>2. s.status = "NONE"
    BY <1>2, AnsweredIsTraced
  <2>. QED  BY <2>1, <2>2, ReceiptTells DEF Adds, AttemptsInv
<1>. QED  BY <1>1, <1>2

\* The submission adds the turn's attempt, if the session was reached.
LEMMA SubmitPlain ==
    ASSUME TrialInv, AttemptsInv, PlainInv, Submit
    PROVE  PlainInv'
<1>. DEFINE a == turn.request.action
<1>0. PICK n : n = Len(attempts)
  OBVIOUS
<1>1. PICK s \in Submissions(a) :
        /\ Submitted(turn.request, s)
        /\ turn' = [turn EXCEPT
              !.receipt = ReceiptOf(s), !.protocol_failure = s.refusal,
              !.failure = IF s.status = "NONE" THEN "SUBMISSION_ERROR" ELSE "NONE"]
  BY DEF Submit
<1>2. /\ pc = "submit" /\ pc' = "close" /\ InTurn /\ InTurn' /\ Sound /\ Sound'
      /\ UNCHANGED <<observed, decisions, activations>>
  BY DEF Submit, Goes, book, InTurn, Sound
<1>3. /\ DOMAIN turn = TurnFields /\ turn.offset = n /\ turn.memory = <<>> /\ turn.phase \in Phases
      /\ turn.request.actor = "stranger" /\ turn.request.based_on \in 1..observed
  BY <1>0, <1>2 DEF TrialInv, TurnInv, PlainInv, TurnPlain
<1>. HIDE DEF a
<1>4. /\ turn'.offset = n /\ turn'.memory = <<>> /\ turn'.phase \in Phases
      /\ turn'.request = turn.request /\ turn'.receipt = ReceiptOf(s)
      /\ turn'.receipt = NoReceipt => turn'.failure = "SUBMISSION_ERROR"
  <2>1. /\ turn'.offset = n /\ turn'.memory = <<>> /\ turn'.phase \in Phases
        /\ turn'.request = turn.request /\ turn'.receipt = ReceiptOf(s)
        /\ s.status = "NONE" => turn'.failure = "SUBMISSION_ERROR"
    BY <1>1, <1>3 DEF TurnFields
  <2>. QED  BY <2>1, ReceiptTells
<1>5. /\ Adds /\ n \in Nat /\ IsSequence(attempts')
      /\ \/ attempts' = attempts /\ Len(attempts') = n /\ ReceiptOf(s) = NoReceipt
         \/ /\ Len(attempts') = n + 1 /\ \A i \in 1..n : attempts'[i] = attempts[i]
            /\ attempts'[n + 1].request = turn.request /\ attempts'[n + 1].receipt = ReceiptOf(s)
  BY <1>0, <1>1, SubmittedIs
<1>6. \/ Since(n)' = {} /\ ReceiptOf(s) = NoReceipt
      \/ /\ Since(n)' = {n + 1}
         /\ attempts'[n + 1].request = turn.request /\ attempts'[n + 1].receipt = ReceiptOf(s)
  BY <1>5 DEF Since
<1>7. TurnPlain'
  <2>1. Since(turn.offset)' = Since(n)'
    BY <1>4 DEF Since
  <2>2. /\ turn'.offset \in 0..Len(attempts') /\ turn'.memory = <<>> /\ turn'.phase \in Phases
    BY <1>4, <1>5
  <2>3. \A i \in Since(turn.offset)' :
            /\ attempts'[i].request = turn'.request /\ attempts'[i].receipt = turn'.receipt
            /\ attempts'[i].request.actor = "stranger"
            /\ turn'.receipt = NoReceipt => turn'.failure = "SUBMISSION_ERROR"
    BY <1>3, <1>4, <1>6, <2>1
  <2>4. turn'.receipt # NoReceipt => Since(turn.offset)' # {}
    BY <1>4, <1>6, <2>1
  <2>. QED  BY <1>2, <2>2, <2>3, <2>4 DEF TurnPlain
<1>8. BasedInv'
  <2>1. DOMAIN attempts = 1..n /\ DOMAIN attempts' = 1..Len(attempts')
    BY <1>0, <1>5 DEF AttemptsInv, IsSequence
  <2>. QED  BY <1>2, <1>3, <1>5, <2>1 DEF PlainInv, BasedInv
<1>9. Settled' = Settled /\ Settled \in 0..Len(attempts)
  BY <1>0, <1>2, <1>3, <1>4, <1>5 DEF Settled
<1>10. SettledInv' /\ DecidedInv'
  BY <1>2, <1>5, <1>9, PlainStays
<1>. QED  BY <1>7, <1>8, <1>10 DEF PlainInv

\* Without event memory there is nothing to close.
LEMMA ClosePlain ==
    ASSUME TrialInv, AttemptsInv, PlainInv, ~event_mode, CloseTrace
    PROVE  PlainInv'
<1>1. /\ pc = "close" /\ pc' = "conclude" /\ InTurn /\ InTurn' /\ Sound /\ Sound'
      /\ UNCHANGED <<attempts, observed, decisions, activations, turn>>
  BY DEF CloseTrace, Goes, book, world, InTurn, Sound
<1>2. TurnPlain'
  BY <1>1 DEF PlainInv, TurnPlain, Since
<1>3. BasedInv'
  BY <1>1 DEF PlainInv, BasedInv
<1>4. Settled' = Settled /\ Settled \in 0..Len(attempts)
  BY <1>1 DEF Settled, PlainInv, TurnPlain
<1>5. SettledInv' /\ DecidedInv'
  BY <1>1, <1>4, PlainStays DEF Adds
<1>. QED  BY <1>2, <1>3, <1>5 DEF PlainInv

\* The turn's attempts are settled in the decision that is recorded.
LEMMA ConcludePlain ==
    ASSUME TrialInv, AttemptsInv, PlainInv, Conclude
    PROVE  PlainInv'
<1>1. /\ pc = "conclude" /\ InTurn /\ ~InTurn' /\ Sound /\ UNCHANGED <<attempts, observed>>
      /\ decisions' = Append(decisions, Decision(turn))
      /\ activations' = Append(activations, Activation("stranger", turn.tick))
      /\ turn.failure = "SUBMISSION_ERROR" =>
            pc' = "end" /\ stop' \in {turn.protocol_failure, "ENGINE_ERROR"}
  BY DEF Conclude, Goes, Stops, InTurn, Sound, world
<1>2. PICK d : d = Decision(turn)
  OBVIOUS
<1>3. PICK n : n = Len(decisions)
  OBVIOUS
<1>4. PICK m : m = Len(activations)
  OBVIOUS
<1>5. PICK k : k = Len(attempts)
  OBVIOUS
<1>6. /\ n \in Nat /\ DOMAIN decisions = 1..n /\ DOMAIN decisions' = 1..(n + 1)
      /\ \A i \in 1..n : decisions'[i] = decisions[i]
      /\ decisions'[n + 1] = d
  <2>1. IsSequence(decisions) /\ IsSequence(decisions')
    BY <1>1, Appended DEF TrialInv, Counts
  <2>2. DOMAIN decisions = 1..Len(decisions) /\ DOMAIN decisions' = 1..Len(decisions')
    BY <2>1 DEF IsSequence
  <2>. QED  BY <1>1, <1>2, <1>3, <2>1, <2>2, Appended
<1>7. /\ m \in Nat /\ DOMAIN activations = 1..m /\ DOMAIN activations' = 1..(m + 1)
      /\ \A i \in 1..m : activations'[i] = activations[i]
      /\ activations'[m + 1] = Activation("stranger", turn.tick)
  <2>1. IsSequence(activations) /\ IsSequence(activations')
    BY <1>1, Appended DEF TrialInv, Counts
  <2>2. DOMAIN activations = 1..Len(activations) /\ DOMAIN activations' = 1..Len(activations')
    BY <2>1 DEF IsSequence
  <2>. QED  BY <1>1, <1>4, <2>1, <2>2, Appended
<1>8. /\ k \in Nat /\ DOMAIN attempts = 1..k /\ turn.offset \in 0..k
      /\ Since(turn.offset) = (turn.offset + 1)..k
      /\ Settled = turn.offset /\ Settled' = k
  BY <1>1, <1>5 DEF AttemptsInv, IsSequence, PlainInv, TurnPlain, Since, Settled
<1>9. /\ d.traces = Since(turn.offset) /\ d.activation = m + 1 /\ d.tick = turn.tick
      /\ d.memory = turn.memory /\ d.receipt = turn.receipt /\ d.request = turn.request
      /\ d.phase = turn.phase
  BY <1>2, <1>4 DEF Decision
<1>10. /\ turn.memory = <<>> /\ turn.phase \in Phases
       /\ \A i \in Since(turn.offset) :
            /\ attempts[i].request = turn.request /\ attempts[i].receipt = turn.receipt
            /\ attempts[i].request.actor = "stranger"
            /\ turn.receipt = NoReceipt => turn.failure = "SUBMISSION_ERROR"
       /\ turn.receipt # NoReceipt => Since(turn.offset) # {}
  BY <1>1 DEF PlainInv, TurnPlain
<1>11. turn.failure = "SUBMISSION_ERROR" => ~Sound'
  <2>1. turn.failure = "SUBMISSION_ERROR" =>
           turn.protocol_failure \in {"NONE", "WALL_TIMEOUT", "TIMING_PRECHECK_ERROR", "HORIZON_ACTION"}
    BY <1>1 DEF TrialInv, TurnInv, NotSubmitted, SubmissionFailed, Answered
  <2>. QED  BY <1>1, <2>1 DEF Sound, Horizon
<1>12. \A j \in 1..n : decisions[j].traces \subseteq 1..turn.offset
  BY <1>6, <1>8 DEF PlainInv, DecidedInv, DecisionPlain
<1>13. SettledInv'
  <2>1. ASSUME NEW i \in 1..turn.offset  PROVE AttemptPlain(i)'
    <3>1. i \notin d.traces
      BY <1>8, <1>9
    <3>2. Holders(i)' = Holders(i)
      BY <1>6, <3>1 DEF Holders
    <3>3. AttemptPlain(i)
      BY <1>8 DEF PlainInv, SettledInv
    <3>4. \A j \in 1..n : j \in 1..(n + 1)
      BY <1>6
    <3>. QED  BY <1>1, <1>6, <3>2, <3>3, <3>4 DEF AttemptPlain
  <2>2. ASSUME NEW i \in Since(turn.offset)  PROVE AttemptPlain(i)'
    <3>1. Holders(i)' = {n + 1}
      <4>1. \A j \in 1..n : i \notin decisions[j].traces
        BY <1>8, <1>12
      <4>. QED  BY <1>6, <1>9, <4>1 DEF Holders
    <3>2. attempts'[i].request.actor = "stranger" /\ (Sound' => attempts'[i].receipt # NoReceipt)
      BY <1>1, <1>10, <1>11
    <3>3. n + 1 \in DOMAIN decisions'
      BY <1>6
    <3>. QED  BY <3>1, <3>2, <3>3 DEF AttemptPlain
  <2>3. \A i \in 1..k : i \in 1..turn.offset \/ i \in Since(turn.offset)
    BY <1>8
  <2>. QED  BY <1>8, <2>1, <2>2, <2>3 DEF SettledInv
<1>14. DecidedInv'
  <2>1. ASSUME NEW j \in 1..n  PROVE DecisionPlain(decisions[j])'
    <3>1. PICK e : e = decisions[j]
      OBVIOUS
    <3>2. DecisionPlain(e)
      BY <1>6, <3>1 DEF PlainInv, DecidedInv
    <3>3. Configured(e)'
      BY <1>7, <3>2 DEF DecisionPlain, Configured
    <3>4. e.traces \subseteq 1..k
      BY <1>8, <3>2 DEF DecisionPlain
    <3>5. DecisionPlain(e)'
      BY <1>1, <1>8, <3>2, <3>3, <3>4 DEF DecisionPlain
    <3>. QED  BY <1>6, <3>1, <3>5 DEF DecisionPlain, Configured
  <2>2. DecisionPlain(d)'
    <3>1. Configured(d)'
      BY <1>7, <1>9, <1>10 DEF Configured
    <3>2. d.traces \subseteq 1..k
      BY <1>8, <1>9
    <3>. QED  BY <1>1, <1>8, <1>9, <1>10, <3>1, <3>2 DEF DecisionPlain
  <2>. QED  BY <1>6, <2>1, <2>2 DEF DecidedInv, DecisionPlain, Configured
<1>15. TurnPlain' /\ BasedInv'
  BY <1>1 DEF TurnPlain, PlainInv, BasedInv
<1>. QED  BY <1>13, <1>14, <1>15 DEF PlainInv

\* No NPC is the stranger.
LEMMA NpcIsOther == ASSUME TrialInv  PROVE NextNpc # "stranger"
<1>. DEFINE n == Len(Npcs)
<1>1. n \in Nat \ {0} /\ DOMAIN Npcs = 1..n
  BY TrialAssumption
<1>2. served \in Nat
  BY DEF TrialInv, Counts, TypeOK
<1>3. served % n \in 0..(n - 1)
  BY <1>1, <1>2
<1>4. (served % n) + 1 \in 1..n
  BY <1>1, <1>3
<1>. QED  BY <1>1, <1>4, TrialAssumption DEF NextNpc

\* What an NPC attempts belongs to no decision.
LEMMA NpcPlain ==
    ASSUME TrialInv, AttemptsInv, PlainInv, ActNpc \/ NpcObserveFails
    PROVE  PlainInv'
<1>1. /\ pc = "npc" /\ ~InTurn /\ ~InTurn' /\ Sound /\ decisions' = decisions
      /\ activations' = Append(activations, Activation(NextNpc, time))
  BY DEF ActNpc, NpcObserveFails, Activated, Stops, Goes, InTurn, Sound
<1>2. PICK k : k = Len(attempts)
  OBVIOUS
<1>3. /\ k \in Nat /\ DOMAIN attempts = 1..k /\ observed \in Nat
      /\ Settled = k /\ Settled' = Len(attempts')
  BY <1>1, <1>2 DEF AttemptsInv, IsSequence, TrialInv, Counts, TypeOK, Settled
<1>4. /\ DOMAIN activations \subseteq DOMAIN activations'
      /\ \A i \in DOMAIN activations : activations'[i] = activations[i]
  <2>1. IsSequence(activations) /\ IsSequence(activations')
    BY <1>1, Appended DEF TrialInv, Counts
  <2>2. DOMAIN activations = 1..Len(activations) /\ DOMAIN activations' = 1..Len(activations')
    BY <2>1 DEF IsSequence
  <2>. QED  BY <1>1, <2>1, <2>2, Appended DEF TrialInv, Counts
<1>5. TurnPlain'
  BY <1>1 DEF TurnPlain
<1>6. CASE attempts' = attempts
  <2>1. observed' \in {observed, observed + 1}
    BY DEF ActNpc, NpcObserveFails, world
  <2>2. BasedInv'
    BY <1>3, <1>6, <2>1 DEF PlainInv, BasedInv
  <2>3. SettledInv' /\ DecidedInv'
    BY <1>1, <1>2, <1>3, <1>4, <1>6, PlainStays DEF Adds
  <2>. QED  BY <1>5, <2>2, <2>3 DEF PlainInv
<1>7. CASE ActNpc /\ attempts' # attempts
  <2>1. PICK a, s, r :
          /\ s \in Submissions(a) /\ r = Request(NextNpc, observed + 1, a)
          /\ Submitted(r, s) /\ Activated(s.status = "NONE") /\ observed' = observed + 1
    BY <1>7 DEF ActNpc
  <2>2. r.actor # "stranger" /\ r.based_on = observed + 1
    BY <2>1, NpcIsOther DEF Request
  <2>3. /\ Adds /\ IsSequence(attempts') /\ Len(attempts') = k + 1
        /\ \A i \in 1..k : attempts'[i] = attempts[i]
        /\ attempts'[k + 1].request = r /\ attempts'[k + 1].receipt = ReceiptOf(s)
    BY <1>2, <1>7, <2>1, SubmittedIs
  <2>4. DOMAIN attempts' = 1..(k + 1)
    BY <2>3 DEF IsSequence
  <2>5. BasedInv'
    BY <1>3, <2>1, <2>2, <2>3, <2>4 DEF PlainInv, BasedInv
  <2>6. \A i : Holders(i)' = Holders(i)
    BY <1>1 DEF Holders
  <2>7. AttemptPlain(k + 1)'
    <3>1. Holders(k + 1) = {}
      BY <1>3 DEF Holders, PlainInv, DecidedInv, DecisionPlain
    <3>2. Sound' => s.status # "NONE"
      BY <2>1 DEF Activated, Stops, Sound, Horizon
    <3>3. Sound' => ReceiptOf(s) # NoReceipt
      BY <3>2, ReceiptTells
    <3>. QED  BY <2>2, <2>3, <2>6, <3>1, <3>3 DEF AttemptPlain
  <2>8. ASSUME NEW i \in 1..k  PROVE AttemptPlain(i)'
    BY <1>1, <1>3, <2>3, <2>6 DEF AttemptPlain, PlainInv, SettledInv
  <2>9. SettledInv'
    <3>1. \A i \in 1..(k + 1) : i \in 1..k \/ i = k + 1
      BY <1>3
    <3>. QED  BY <1>3, <2>3, <2>7, <2>8, <3>1 DEF SettledInv
  <2>10. DecidedInv'
    <3>1. ASSUME NEW n \in DOMAIN decisions  PROVE DecisionPlain(decisions[n])'
      <4>1. PICK d : d = decisions[n]
        OBVIOUS
      <4>2. DecisionPlain(d) /\ d.traces \subseteq 1..k
        BY <1>3, <4>1 DEF PlainInv, DecidedInv, DecisionPlain
      <4>3. Configured(d)'
        BY <1>4, <4>2 DEF DecisionPlain, Configured
      <4>4. d.traces \subseteq 1..(k + 1)
        BY <1>3, <4>2
      <4>5. DecisionPlain(d)'
        BY <1>3, <2>3, <4>2, <4>3, <4>4 DEF DecisionPlain
      <4>. QED  BY <1>1, <4>1, <4>5 DEF DecisionPlain, Configured
    <3>. QED  BY <1>1, <3>1 DEF DecidedInv
  <2>. QED  BY <1>5, <2>5, <2>9, <2>10 DEF PlainInv
<1>8. NpcObserveFails => attempts' = attempts
  BY DEF NpcObserveFails, world
<1>. QED  BY <1>6, <1>7, <1>8

\* The end of the loop and the wall clock change no record.
LEMMA IdlePlain ==
    ASSUME TrialInv, AttemptsInv, PlainInv, Leave \/ WallPasses \/ UNCHANGED vars
    PROVE  PlainInv'
<1>1. /\ UNCHANGED <<attempts, observed, decisions, activations, turn>>
      /\ InTurn' = InTurn /\ (InTurn => pc' = pc) /\ (Sound' => Sound)
  BY DEF Leave, Stops, WallPasses, vars, world, book, InTurn, Sound
<1>2. TurnPlain'
  BY <1>1 DEF PlainInv, TurnPlain, Since, InTurn
<1>3. BasedInv'
  BY <1>1 DEF PlainInv, BasedInv
<1>4. Settled' = Settled /\ Settled \in 0..Len(attempts)
  BY <1>1 DEF Settled, PlainInv, TurnPlain, AttemptsInv, IsSequence
<1>5. SettledInv' /\ DecidedInv'
  BY <1>1, <1>4, PlainStays DEF Adds
<1>. QED  BY <1>2, <1>3, <1>5 DEF PlainInv

\* Every step of a trial without event memory keeps the attempts and the
\* decisions in step.
LEMMA PlainStep ==
    TrialInv /\ MemoryInv /\ (~event_mode => PlainInv) /\ [Next]_vars => (~event_mode => PlainInv)'
<1>1. [Next]_vars => event_mode' = event_mode
  BY DEF vars, Next, Turn, Leave, BeginTurn, ObserveFails, Decide, DecideFails,
         Submit, CloseTrace, Conclude, ActNpc, NpcObserveFails, Activated, WallPasses
<1>. QED  BY <1>1, BeginPlain, DecidePlain, SubmitPlain, ClosePlain, ConcludePlain, NpcPlain,
             IdlePlain
          DEF MemoryInv, Next, Turn

\* A set of one is counted as one.
LEMMA One == \A n : Cardinality({n}) = 1
BY FS_Singleton

\* What makes a record admissible.
LEMMA PlainAdmitted ==
    ASSUME TrialInv, MemoryInv, PlainInv, stop # "NONE"
    PROVE  Admitted <=> /\ stop = Horizon
                        /\ \A n \in DOMAIN decisions :
                              decisions[n].phase \in {"NONE", "INVALID_OUTPUT"}
<1>1. pc = "end" /\ ~InTurn /\ time <= EndTick /\ EndTick \in Nat /\ time \in Nat
  BY TrialAssumption DEF TrialInv, Counts, TypeOK, InTurn
<1>2. \A n \in DOMAIN decisions : DecisionPlain(decisions[n])
  BY DEF PlainInv, DecidedInv
<1>3. ASSUME Admitted
      PROVE  /\ stop = Horizon
             /\ \A n \in DOMAIN decisions : decisions[n].phase \in {"NONE", "INVALID_OUTPUT"}
  BY <1>2, <1>3 DEF Admitted, HorizonReached, InfrastructurePhases, DecisionPlain, Phases
<1>4. ASSUME stop = Horizon,
             \A n \in DOMAIN decisions : decisions[n].phase \in {"NONE", "INVALID_OUTPUT"}
      PROVE  Admitted
  <2>1. HorizonReached
    BY <1>4 DEF HorizonReached, TrialInv, StopExplained
  <2>2. DOMAIN attempts = 1..Settled /\ Sound
    BY <1>1, <1>4 DEF MemoryInv, AttemptsInv, IsSequence, Settled, Sound
  <2>3. TracesWhole
    BY <2>2 DEF TracesWhole, PlainInv, BasedInv, SettledInv, AttemptPlain
  <2>4. TracesDivided
    <3>1. ASSUME NEW i \in DOMAIN attempts
          PROVE  Cardinality(Holders(i)) = IF attempts[i].request.actor = "stranger" THEN 1 ELSE 0
      <4>1. AttemptPlain(i)
        BY <2>2 DEF PlainInv, SettledInv
      <4>2. CASE attempts[i].request.actor = "stranger"
        BY <4>1, <4>2, One DEF AttemptPlain
      <4>3. CASE attempts[i].request.actor # "stranger"
        BY <4>1, <4>3, FS_EmptySet DEF AttemptPlain
      <4>. QED  BY <4>2, <4>3
    <3>. QED  BY <3>1 DEF TracesDivided, Holders
  <2>5. ASSUME NEW n \in DOMAIN decisions
        PROVE  /\ Configured(decisions[n]) /\ LinkedWhole(decisions[n])
               /\ decisions[n].phase \notin InfrastructurePhases
    <3>1. DecisionPlain(decisions[n]) /\ decisions[n].phase \in {"NONE", "INVALID_OUTPUT"}
      BY <1>2, <1>4
    <3>. QED  BY <2>2, <3>1 DEF DecisionPlain, LinkedWhole, Misattributed, InfrastructurePhases
  <2>. QED  BY <2>1, <2>3, <2>4, <2>5 DEF Admitted
<1>. QED  BY <1>3, <1>4

\* A trial without event memory is admitted exactly when it got to the horizon
\* and nothing but the model failed on the way.
THEOREM AdmittedClean == Spec => []AdmittedIsClean
<1>1. TrialInv /\ MemoryInv /\ (~event_mode => PlainInv) => AdmittedIsClean
  BY PlainAdmitted DEF AdmittedIsClean
<1>2. Init => (~event_mode => PlainInv)
  BY PlainInit
<1>3. Init => MemoryInv
  BY AuditInit DEF AuditInv
<1>. QED  BY <1>1, <1>2, <1>3, TrialInit, TrialStep, MemoryStep, PlainStep, PTL DEF Spec

-----------------------------------------------------------------------------
\* One more activation is one more turn of an NPC, or of the stranger.
LEMMA NpcTurnsCount ==
    \A n \in Nat :
        /\ NpcTurns(0) = 0 /\ NpcTurns(n) \in Nat
        /\ NpcTurns(n + 1) = IF activations[n + 1].actor # "stranger" THEN NpcTurns(n) + 1
                             ELSE NpcTurns(n)
<1>. SUFFICES ASSUME NEW n \in Nat
              PROVE  /\ NpcTurns(0) = 0 /\ NpcTurns(n) \in Nat
                     /\ NpcTurns(n + 1) = IF activations[n + 1].actor # "stranger"
                                          THEN NpcTurns(n) + 1 ELSE NpcTurns(n)
  OBVIOUS
<1>1. PICK S : S = {i \in 1..n : activations[i].actor # "stranger"}
  OBVIOUS
<1>2. PICK T : T = {i \in 1..(n + 1) : activations[i].actor # "stranger"}
  OBVIOUS
<1>3. /\ S \subseteq 1..n /\ T \subseteq 1..(n + 1) /\ T \ {n + 1} = S
      /\ n + 1 \in T <=> activations[n + 1].actor # "stranger"
  BY <1>1, <1>2
<1>4. /\ Cardinality(S) \in Nat
      /\ Cardinality(T) = IF n + 1 \in T THEN Cardinality(S) + 1 ELSE Cardinality(S)
  <2>1. T = IF n + 1 \in T THEN S \union {n + 1} ELSE S
    BY <1>3
  <2>2. Cardinality(S) \in Nat /\ Cardinality(S \union {n + 1}) = Cardinality(S) + 1
    BY <1>3, CountsUp
  <2>. QED  BY <2>1, <2>2
<1>5. NpcTurns(n) = Cardinality(S) /\ NpcTurns(n + 1) = Cardinality(T)
  BY <1>1, <1>2 DEF NpcTurns
<1>6. NpcTurns(0) = 0
  <2>1. {i \in 1..0 : activations[i].actor # "stranger"} = {}
    OBVIOUS
  <2>. QED  BY <2>1, FS_EmptySet DEF NpcTurns
<1>. QED  BY <1>3, <1>4, <1>5, <1>6

NpcsCounted ==
    \A n \in Nat :
        NpcTurns(n + 1) = IF activations[n + 1].actor # "stranger" THEN NpcTurns(n) + 1
                          ELSE NpcTurns(n)

LEMMA NpcsAreCounted == NpcsCounted
BY NpcTurnsCount DEF NpcsCounted

\* Who took the last turn, and when, by what comes next.
LastTurn ==
    LET n == Len(activations)
        last == activations[n]
    IN  /\ pc = "npc" => n > 0 /\ last.actor = "stranger" /\ last.tick < time
        /\ (pc = "loop" \/ InTurn) /\ n > 0 /\ last.actor = "stranger" => last.tick = RowTick

OrderInv ==
    /\ served = NpcTurns(Len(activations))
    /\ InTurn => turn.tick <= time
    /\ LastTurn /\ TurnsAlternate

LEMMA OrderInit == Init => OrderInv
<1>. SUFFICES ASSUME Init  PROVE OrderInv
  OBVIOUS
<1>1. activations = <<>> /\ Len(activations) = 0 /\ served = 0 /\ pc = "loop" /\ ~InTurn
  BY DEF Init, InTurn
<1>2. NpcTurns(0) = 0
  BY NpcTurnsCount
<1>. QED  BY <1>1, <1>2 DEF OrderInv, LastTurn, TurnsAlternate

\* A turn that may follow the last one is taken in its order.
LEMMA TurnAdded ==
    ASSUME TrialInv, OrderInv, NEW a, activations' = Append(activations, a),
           LET n == Len(activations)
               last == activations[n]
           IN  IF a.actor = "stranger" THEN n > 0 /\ last.actor = "stranger" => last.tick = a.tick
               ELSE /\ n > 0 /\ last.actor = "stranger" /\ last.tick < a.tick
                    /\ a.actor = NextNpc
    PROVE  \E n \in Nat :
           /\ n = Len(activations) /\ Len(activations') = n + 1 /\ activations'[n + 1] = a
           /\ NpcTurns(n + 1)' = IF a.actor # "stranger" THEN NpcTurns(n) + 1 ELSE NpcTurns(n)
           /\ TurnsAlternate'
<1>1. PICK n : n = Len(activations)
  OBVIOUS
<1>2. /\ n \in Nat /\ Len(activations') = n + 1
      /\ DOMAIN activations = 1..n /\ DOMAIN activations' = 1..(n + 1)
      /\ \A i \in 1..n : activations'[i] = activations[i]
      /\ activations'[n + 1] = a
  <2>1. IsSequence(activations) /\ IsSequence(activations')
    BY Appended DEF TrialInv, Counts
  <2>2. DOMAIN activations = 1..Len(activations) /\ DOMAIN activations' = 1..Len(activations')
    BY <2>1 DEF IsSequence
  <2>. QED  BY <1>1, <2>1, <2>2, Appended
<1>3. ASSUME NEW m \in 0..n  PROVE NpcTurns(m)' = NpcTurns(m)
  <2>1. \A i \in 1..m : activations'[i] = activations[i]
    BY <1>2
  <2>. QED  BY <2>1 DEF NpcTurns
<1>4. NpcTurns(n + 1)' = IF a.actor # "stranger" THEN NpcTurns(n) + 1 ELSE NpcTurns(n)
  <2>1. NpcsCounted'
    BY NpcsAreCounted, PTL
  <2>2. NpcTurns(n)' = NpcTurns(n)
    BY <1>2, <1>3
  <2>. QED  BY <1>2, <2>1, <2>2 DEF NpcsCounted
<1>5. TurnsAlternate'
  <2>1. ASSUME NEW i \in 1..n
        PROVE  IF activations'[i].actor = "stranger"
               THEN i > 1 /\ activations'[i - 1].actor = "stranger"
                        => activations'[i - 1].tick = activations'[i].tick
               ELSE /\ i > 1 /\ activations'[i - 1].actor = "stranger"
                    /\ activations'[i - 1].tick < activations'[i].tick
                    /\ activations'[i].actor = Npcs[(NpcTurns(i - 1)' % Len(Npcs)) + 1]
    <3>1. i - 1 \in 0..n /\ (i > 1 => i - 1 \in 1..n)
      BY <1>2
    <3>2. NpcTurns(i - 1)' = NpcTurns(i - 1) /\ activations'[i] = activations[i]
          /\ (i > 1 => activations'[i - 1] = activations[i - 1])
      BY <1>2, <1>3, <3>1
    <3>. QED  BY <1>2, <3>2 DEF OrderInv, TurnsAlternate
  <2>2. IF a.actor = "stranger"
        THEN n > 0 /\ activations'[n].actor = "stranger" => activations'[n].tick = a.tick
        ELSE /\ n > 0 /\ activations'[n].actor = "stranger"
             /\ activations'[n].tick < a.tick
             /\ a.actor = Npcs[(NpcTurns(n)' % Len(Npcs)) + 1]
    <3>1. NpcTurns(n)' = NpcTurns(n) /\ (n > 0 => activations'[n] = activations[n])
      BY <1>2, <1>3
    <3>2. NextNpc = Npcs[(NpcTurns(n) % Len(Npcs)) + 1]
      BY <1>1 DEF OrderInv, NextNpc
    <3>. QED  BY <1>1, <3>1, <3>2
  <2>3. (n + 1) - 1 = n /\ (n + 1 > 1 <=> n > 0)
        /\ \A i \in 1..(n + 1) : i \in 1..n \/ i = n + 1
    BY <1>2
  <2>4. ASSUME NEW i \in 1..(n + 1)
        PROVE  IF activations'[i].actor = "stranger"
               THEN i > 1 /\ activations'[i - 1].actor = "stranger"
                        => activations'[i - 1].tick = activations'[i].tick
               ELSE /\ i > 1 /\ activations'[i - 1].actor = "stranger"
                    /\ activations'[i - 1].tick < activations'[i].tick
                    /\ activations'[i].actor = Npcs[(NpcTurns(i - 1)' % Len(Npcs)) + 1]
    <3>1. CASE i = n + 1
      BY <1>2, <2>2, <2>3, <3>1
    <3>2. CASE i \in 1..n
      BY <2>1, <3>2
    <3>. QED  BY <2>3, <3>1, <3>2
  <2>. QED  BY <1>2, <2>4 DEF TurnsAlternate
<1>. QED  BY <1>1, <1>2, <1>4, <1>5

\* The stranger's turn moves the clock, or it does not.
LEMMA ConcludeOrder == TrialInv /\ OrderInv /\ Conclude => OrderInv'
<1>. SUFFICES ASSUME TrialInv, OrderInv, Conclude  PROVE OrderInv'
  OBVIOUS
<1>1. PICK a : a = Activation("stranger", turn.tick)
  OBVIOUS
<1>2. /\ pc = "conclude" /\ InTurn /\ ~InTurn' /\ UNCHANGED <<time, served>>
      /\ activations' = Append(activations, a)
      /\ a.actor = "stranger" /\ a.tick = turn.tick /\ turn.tick \in Nat /\ time \in Nat
      /\ turn.tick <= time
  BY <1>1, TrialAssumption
  DEF Conclude, Activation, Goes, Stops, InTurn, world, TrialInv, TurnInv, Counts, TypeOK, OrderInv
<1>3. Len(activations) > 0 /\ activations[Len(activations)].actor = "stranger"
         => activations[Len(activations)].tick = a.tick
  BY <1>2 DEF OrderInv, LastTurn, RowTick
<1>4. PICK n \in Nat :
          /\ n = Len(activations) /\ Len(activations') = n + 1 /\ activations'[n + 1] = a
          /\ NpcTurns(n + 1)' = IF a.actor # "stranger" THEN NpcTurns(n) + 1 ELSE NpcTurns(n)
          /\ TurnsAlternate'
  BY <1>2, <1>3, TurnAdded
<1>5. served' = NpcTurns(Len(activations))'
  <2>1. NpcTurns(n + 1)' = NpcTurns(Len(activations))'
    BY <1>4 DEF NpcTurns
  <2>. QED  BY <1>2, <1>4, <2>1 DEF OrderInv
<1>6. pc' \in {"loop", "npc"} => turn.failure \notin {"OBSERVATION_UNAVAILABLE", "SUBMISSION_ERROR"}
  BY DEF Conclude, Stops
<1>7. pc' = "loop" => time = turn.tick
  <2>1. pc' = "loop" => Stalled
    BY <1>6 DEF Conclude, Stops, Goes
  <2>. QED  BY <1>2, <1>6, <2>1
            DEF TrialInv, TurnInv, Stalled, NotSubmitted, SubmissionFailed, Answered, Unanswered
<1>8. pc' = "npc" => turn.tick < time
  <2>1. pc' = "npc" => ~Stalled
    BY <1>6 DEF Conclude, Stops, Goes
  <2>. QED  BY <1>2, <2>1 DEF Stalled
<1>9. LastTurn'
  BY <1>2, <1>4, <1>7, <1>8 DEF LastTurn, RowTick
<1>. QED  BY <1>2, <1>4, <1>5, <1>9 DEF OrderInv

\* The NPC whose turn it is takes it.
LEMMA NpcOrder == TrialInv /\ OrderInv /\ (ActNpc \/ NpcObserveFails) => OrderInv'
<1>. SUFFICES ASSUME TrialInv, OrderInv, ActNpc \/ NpcObserveFails  PROVE OrderInv'
  OBVIOUS
<1>1. PICK a : a = Activation(NextNpc, time)
  OBVIOUS
<1>2. /\ pc = "npc" /\ ~InTurn /\ ~InTurn' /\ pc' \in {"loop", "end"} /\ served' = served + 1
      /\ activations' = Append(activations, a)
      /\ a.actor = NextNpc /\ a.tick = time
  BY <1>1 DEF ActNpc, NpcObserveFails, Activated, Activation, Goes, Stops, InTurn
<1>3. a.actor # "stranger"
  BY <1>2, NpcIsOther
<1>4. PICK n \in Nat :
          /\ n = Len(activations) /\ Len(activations') = n + 1 /\ activations'[n + 1] = a
          /\ NpcTurns(n + 1)' = IF a.actor # "stranger" THEN NpcTurns(n) + 1 ELSE NpcTurns(n)
          /\ TurnsAlternate'
  <2>1. LET last == activations[Len(activations)] IN
        Len(activations) > 0 /\ last.actor = "stranger" /\ last.tick < a.tick
    BY <1>2 DEF OrderInv, LastTurn
  <2>. QED  BY <1>2, <1>3, <2>1, TurnAdded
<1>5. served' = NpcTurns(Len(activations))'
  <2>1. NpcTurns(n + 1)' = NpcTurns(Len(activations))'
    BY <1>4 DEF NpcTurns
  <2>. QED  BY <1>2, <1>3, <1>4, <2>1 DEF OrderInv
<1>6. LastTurn'
  BY <1>2, <1>3, <1>4 DEF LastTurn
<1>. QED  BY <1>2, <1>4, <1>5, <1>6 DEF OrderInv

\* All else takes no turn.
LEMMA OrderStep == TrialInv /\ OrderInv /\ [Next]_vars => OrderInv'
<1>. SUFFICES ASSUME TrialInv, OrderInv, [Next]_vars  PROVE OrderInv'
  OBVIOUS
<1>1. ASSUME UNCHANGED <<activations, served>>, InTurn' => turn'.tick <= time',
             pc' # "npc", pc' = "loop" \/ InTurn' => (pc = "loop" \/ InTurn) /\ RowTick' = RowTick
      PROVE  OrderInv'
  <2>1. TurnsAlternate' /\ NpcTurns(Len(activations))' = NpcTurns(Len(activations))
    BY <1>1 DEF OrderInv, TurnsAlternate, NpcTurns
  <2>. QED  BY <1>1, <2>1 DEF OrderInv, LastTurn
<1>2. time \in Nat /\ EndTick \in Nat /\ time \in 0..EndTick
  BY TrialAssumption DEF TrialInv, Counts, TypeOK
<1>3. CASE Leave
  <2>1. UNCHANGED <<activations, served>> /\ pc' = "end" /\ ~InTurn'
    BY <1>3 DEF Leave, Stops, book, InTurn
  <2>. QED  BY <1>1, <2>1
<1>4. CASE BeginTurn \/ ObserveFails
  <2>1. /\ UNCHANGED <<activations, served, time>> /\ pc = "loop" /\ InTurn' /\ ~InTurn
        /\ pc' \in {"provider", "conclude"}
    BY <1>4 DEF BeginTurn, ObserveFails, Goes, world, book, InTurn
  <2>2. turn'.tick = time
    <3>1. DOMAIN Opening = TurnFields /\ Opening.tick = time
      BY DEF Opening, NoTurn, TurnFields
    <3>2. CASE BeginTurn
      <4>. DEFINE begins == event_mode => Begins(archive, Seen(observed + 1, time, LastReceipt))
      <4>1. \E o, n, q, m : turn' = [Opening EXCEPT
               !.observation = o, !.opportunity = n, !.attempt = q, !.memory = m, !.called = begins,
               !.phase = IF begins THEN "NONE" ELSE "MEMORY_ERROR",
               !.failure = IF begins THEN "NONE" ELSE "CONTROLLER_ERROR"]
        BY <3>2, Zenon DEF BeginTurn
      <4>. HIDE DEF begins
      <4>. QED  BY <3>1, <4>1
    <3>3. CASE ObserveFails
      BY <3>1, <3>3 DEF ObserveFails
    <3>. QED  BY <1>4, <3>2, <3>3
  <2>. QED  BY <1>1, <1>2, <2>1, <2>2 DEF RowTick
<1>5. CASE Decide \/ DecideFails \/ CloseTrace
  <2>1. /\ UNCHANGED <<activations, served, time>> /\ InTurn /\ pc' # "npc" /\ pc' # "loop"
        /\ DOMAIN turn = TurnFields
    BY <1>5 DEF Decide, DecideFails, CloseTrace, Goes, Stops, world, book, InTurn, TrialInv, TurnInv
  <2>2. turn'.tick = turn.tick
    <3>1. CASE Decide
      BY <2>1, <3>1 DEF Decide, TurnFields
    <3>2. CASE DecideFails
      BY <2>1, <3>2 DEF DecideFails, TurnFields
    <3>3. CASE CloseTrace
      <4>1. turn' = turn \/ \E c : turn' = [turn EXCEPT !.closed = c]
        BY <3>3, Zenon DEF CloseTrace
      <4>. QED  BY <2>1, <4>1 DEF TurnFields
    <3>. QED  BY <1>5, <3>1, <3>2, <3>3
  <2>. QED  BY <1>1, <2>1, <2>2 DEF OrderInv, RowTick
<1>6. CASE Submit
  <2>1. PICK s \in Submissions(turn.request.action) :
          /\ Submitted(turn.request, s)
          /\ turn' = [turn EXCEPT
                !.receipt = ReceiptOf(s), !.protocol_failure = s.refusal,
                !.failure = IF s.status = "NONE" THEN "SUBMISSION_ERROR" ELSE "NONE"]
    BY <1>6 DEF Submit
  <2>2. /\ pc = "submit" /\ pc' = "close" /\ UNCHANGED <<activations, served>> /\ InTurn /\ InTurn'
        /\ DOMAIN turn = TurnFields /\ turn.request.action \in Actions
        /\ turn.tick \in Nat /\ time = turn.tick
    BY <1>6 DEF Submit, Goes, book, InTurn, TrialInv, TurnInv, Unanswered
  <2>3. turn'.tick = turn.tick
    BY <2>1, <2>2 DEF TurnFields
  <2>4. time' \in time..EndTick
    BY <1>2, <2>1, <2>2, SubmissionsBounded DEF Submitted
  <2>5. time <= time'
    BY <1>2, <2>4
  <2>. QED  BY <1>1, <2>2, <2>3, <2>5 DEF RowTick
<1>7. CASE WallPasses \/ UNCHANGED vars
  <2>1. UNCHANGED <<activations, served, time, turn, pc>> /\ InTurn' = InTurn /\ RowTick' = RowTick
    BY <1>7 DEF WallPasses, vars, world, book, InTurn, RowTick
  <2>2. TurnsAlternate' /\ NpcTurns(Len(activations))' = NpcTurns(Len(activations))
    BY <2>1 DEF OrderInv, TurnsAlternate, NpcTurns
  <2>. QED  BY <2>1, <2>2 DEF OrderInv, LastTurn
<1>. QED  BY <1>3, <1>4, <1>5, <1>6, <1>7, ConcludeOrder, NpcOrder DEF Next, Turn

\* The record that a trial leaves is found correct, is admitted for the right
\* reasons, and tells of turns taken in their order: for every policy, every
\* cycle of actors, and whatever was asked for and failed.
THEOREM RecordSound == Spec => []RecordIsSound
<1>1. TrialInv /\ AuditInv => RecordIsCorrect
  <2>1. TrialInv /\ stop # "NONE" => ~InTurn
    BY DEF TrialInv, Counts, TypeOK, InTurn
  <2>. QED  BY <2>1, ReadRight DEF RecordIsCorrect, AuditInv, MemoryInv
<1>2. OrderInv => TurnsAlternate
  BY DEF OrderInv
<1>3. Spec => [](RecordIsCorrect /\ TurnsAlternate)
  BY <1>1, <1>2, TrialInit, TrialStep, AuditInit, RecordStep, OrderInit, OrderStep, PTL DEF Spec
<1>. QED  BY <1>3, AdmittedClean, PTL DEF RecordIsSound
=============================================================================
