---------------------------- MODULE PilotProofs ----------------------------
(***************************************************************************)
(* Theorems about a pilot trial and what it leaves on disk, for every      *)
(* policy and every set of answers.                                        *)
(***************************************************************************)
EXTENDS PilotAudit, FiniteSetTheorems, WellFoundedInduction, TLAPS

(***************************************************************************)
(* The invariant says what is known at each point of the loop: what the    *)
(* guards at its head established still holds while a turn is under way,   *)
(* the last row on disk is the one before which control stands, and a      *)
(* failed append has ended the trial.                                      *)
(***************************************************************************)
BeforeEngine == {"observation_error", "provider_intent", "send", "provider_result", "parse",
                 "submit", "engine_intent", "engine"}
Closing == {"decision_finished", "conclude"}
MidTurn == BeforeEngine \union Closing \union {"engine_receipt", "engine_error"}

\* What the bounds leave room for.
RoomInv ==
    /\ pc \in {"trial_started", "head"} \union MidTurn => failures < MaxFailures
    /\ pc \in MidTurn => Len(decisions) < MaxDecisions /\ calls < MaxCalls

\* What a turn knows of its time and its outcome.
TurnInv ==
    /\ pc \in MidTurn => before < EndTick
    /\ pc \in BeforeEngine => time = before /\ turn.refusal = NoFailure
    /\ pc \in {"engine_intent", "engine"} => time + turn.outcome.duration <= EndTick
    /\ pc \in {"submit", "engine_intent", "engine", "engine_receipt"} =>
        /\ turn.outcome.failure = NoFailure /\ turn.failure_code = NoFailure
        /\ turn.refusal = NoFailure
    /\ pc \in {"provider_intent", "send", "provider_result", "parse"} =>
        turn.failure_code = NoFailure
    /\ pc = "observation_error" => turn.failure_code = "OBSERVATION_UNAVAILABLE"
    /\ pc = "engine_error" => turn.failure_code = "SUBMISSION_ERROR" /\ turn.refusal = NoFailure
    /\ pc \in Closing =>
        /\ turn.failure_code = NoFailure => turn.outcome.failure = NoFailure
        /\ turn.failure_code \in {"OBSERVATION_UNAVAILABLE", "CONTROLLER_ERROR"} => time = before
        /\ turn.refusal # NoFailure => time = before

\* Why the loop ended, when it has.
StopInv ==
    pc = "seal" => (stop = "HORIZON") = (time = EndTick /\ stop # "ENGINE_ERROR")

LossInv == failed => pc = "raised"

\* The row before which control stands.
LastInv ==
    /\ pc = "trial_started" => LastKind = "none"
    /\ pc \in {"head", "observation_error", "provider_intent", "seal", "trial_finished"} =>
        LastKind \in {"trial_started", "decision_finished"}
    /\ pc \in {"send", "provider_result"} => LastKind = "provider_intent"
    /\ pc \in {"parse", "submit", "engine_intent"} => LastKind = "provider_result"
    /\ pc \in {"engine", "engine_receipt", "engine_error"} => LastKind = "engine_intent"
    /\ pc = "decision_finished" =>
        LastKind \in {"observation_error", "provider_result", "engine_receipt", "engine_error"}
    /\ pc = "conclude" => LastKind = "decision_finished"

IInv ==
    /\ TypeOK /\ RoomInv /\ TurnInv /\ StopInv /\ LossInv
    /\ InPhaseOrder /\ LastInv
    /\ HorizonRespected

-----------------------------------------------------------------------------
(* Rows and their order                                                    *)

\* Answers are classified by one of the failures, and a decision has the type
\* of decisions.
LEMMA DecisionTyped ==
    ASSUME TypeOK
    PROVE  turn.outcome.failure \in Results /\ Decision \in Decisions
<1>1. turn.outcome.failure \in Results
  BY PilotAssumption DEF TypeOK, Answers, NoOutcome, Results
<1>2. Failure \in Failures
  BY <1>1 DEF Failure, Failures, Results, Transported, Behavioural, NoFailure
<1>. QED  BY <1>1, <1>2 DEF TypeOK, Decision, Decisions

\* The row that is next has the kind at which control stands.
LEMMA Written ==
    ASSUME TypeOK, pc \in Kinds
    PROVE  Row \in Rows /\ Row.kind = pc
<1>. USE DEF Row, Rows
<1>1. CASE pc \in {"trial_started", "observation_error", "provider_intent", "engine_error"}
  BY <1>1
<1>2. CASE pc = "provider_result"
  BY <1>2, DecisionTyped
<1>3. CASE pc = "engine_intent"
  BY <1>3 DEF TypeOK
<1>4. CASE pc = "engine_receipt"
  BY <1>4 DEF TypeOK
<1>5. CASE pc = "decision_finished"
  BY <1>5, DecisionTyped DEF TypeOK
<1>6. CASE pc = "trial_finished"
  BY <1>6 DEF TypeOK, FinishedRow
<1>. QED  BY <1>1, <1>2, <1>3, <1>4, <1>5, <1>6 DEF Kinds

\* Appending it keeps the phase order.
LEMMA Appended ==
    ASSUME TypeOK, InPhaseOrder, LastInv, pc \in Kinds, journal' = Append(journal, Row)
    PROVE  /\ journal' \in Seq(Rows) /\ InPhaseOrder'
           /\ LastKind' = pc
<1>. DEFINE n == Len(journal)
<1>1. journal \in Seq(Rows) /\ n \in Nat
  BY DEF TypeOK
<1>2. Row \in Rows /\ Row.kind = pc
  BY Written
<1>3. /\ journal' \in Seq(Rows) /\ Len(journal') = n + 1 /\ journal'[n + 1] = Row
      /\ \A i \in 1..n : journal'[i] = journal[i]
      /\ DOMAIN journal = 1..n /\ DOMAIN journal' = 1..(n + 1)
  BY <1>1, <1>2
<1>4. LastKind' = pc
  <2>1. journal' # <<>>
    BY <1>1, <1>3
  <2>. QED  BY <1>2, <1>3, <2>1 DEF LastKind
<1>5. pc \in Allowed[LastKind]
  BY DEF Kinds, LastInv, Allowed
<1>6. ASSUME NEW i \in 1..(n + 1)
      PROVE  journal'[i].kind \in Allowed[IF i = 1 THEN "none" ELSE journal'[i - 1].kind]
  <2>1. CASE i = n + 1
    <3>1. (IF i = 1 THEN "none" ELSE journal'[i - 1].kind) = LastKind
      <4>1. CASE n = 0
        BY <4>1, <2>1, <1>1 DEF LastKind
      <4>2. CASE n # 0
        <5>1. journal # <<>> /\ i - 1 = n /\ i # 1 /\ n \in 1..n
          BY <4>2, <2>1, <1>1
        <5>. QED  BY <5>1, <1>3 DEF LastKind
      <4>. QED  BY <4>1, <4>2
    <3>. QED  BY <3>1, <1>5, <1>2, <1>3, <2>1
  <2>2. CASE i # n + 1
    <3>1. i \in 1..n /\ (i # 1 => i - 1 \in 1..n)
      BY <2>2, <1>1
    <3>2. journal[i].kind \in Allowed[IF i = 1 THEN "none" ELSE journal[i - 1].kind]
      BY <3>1, <1>3 DEF InPhaseOrder, KindBefore
    <3>. QED  BY <3>1, <3>2, <1>3
  <2>. QED  BY <2>1, <2>2
<1>. QED  BY <1>3, <1>4, <1>6 DEF InPhaseOrder, KindBefore

\* So does an append that is cut short.
LEMMA CutShort ==
    ASSUME TypeOK, InPhaseOrder, LastInv, pc \in Kinds, Interrupted
    PROVE  journal' \in Seq(Rows) /\ torn' \in BOOLEAN /\ InPhaseOrder'
<1>1. CASE UNCHANGED <<journal, torn>>
  BY <1>1 DEF TypeOK, InPhaseOrder, KindBefore
<1>2. CASE torn' = TRUE /\ UNCHANGED journal
  BY <1>2 DEF TypeOK, InPhaseOrder, KindBefore
<1>3. CASE journal' = Append(journal, Row) /\ UNCHANGED torn
  BY <1>3, Appended DEF TypeOK
<1>. QED  BY <1>1, <1>2, <1>3 DEF Interrupted

\* A step that does not write leaves all that is said of the rows.
LEMMA Unwritten ==
    ASSUME UNCHANGED journal
    PROVE  InPhaseOrder' = InPhaseOrder /\ LastKind' = LastKind
BY DEF InPhaseOrder, KindBefore, LastKind
-----------------------------------------------------------------------------
(* The invariant                                                           *)

\* The numbers are numbers.
LEMMA Numbers ==
    ASSUME TypeOK
    PROVE  /\ EndTick \in Nat /\ MaxDecisions \in Nat /\ MaxCalls \in Nat /\ MaxFailures \in Nat
           /\ MaxDecisions > 0 /\ MaxCalls > 0 /\ MaxFailures > 0
           /\ time \in 0..EndTick /\ before \in 0..EndTick
           /\ Len(decisions) \in Nat /\ calls \in Nat /\ failures \in Nat
           /\ turn.outcome.duration \in Nat
<1>1. turn.outcome \in Answers
  BY DEF TypeOK
<1>2. turn.outcome.duration \in Nat
  BY <1>1, PilotAssumption DEF Answers, NoOutcome
<1>. QED  BY <1>2, PilotAssumption DEF TypeOK

\* A trial that has written nothing satisfies the invariant.
LEMMA Initially == Init => IInv
<1>. SUFFICES ASSUME Init  PROVE IInv
  OBVIOUS
<1>. USE PilotAssumption DEF Init
<1>1. TypeOK
  <2>1. journal \in Seq(Rows) /\ decisions \in Seq(Decisions) /\ Len(decisions) = 0
    OBVIOUS
  <2>2. data \in Records /\ snapshot \in [status : {"MISSING", "INVALID"}]
    BY DEF Records, Missing
  <2>3. turn \in [outcome : Answers, failure_code : TurnFailures, refusal : Refusals,
                 receipt : Statuses \union {NoReceipt}]
    BY DEF NoTurn, Answers, TurnFailures, Refusals
  <2>4. /\ time \in 0..EndTick /\ before \in 0..EndTick
        /\ calls \in 0..MaxCalls /\ failures \in 0..MaxFailures /\ 0 <= MaxDecisions
        /\ sent \in Nat /\ entered \in Nat
    OBVIOUS
  <2>5. stop \in Stops /\ pc \in Kinds /\ torn = FALSE /\ failed = FALSE /\ late = FALSE
    BY DEF Stops, NoStop, Kinds
  <2>. QED  BY <2>1, <2>2, <2>3, <2>4, <2>5 DEF TypeOK
<1>2. RoomInv /\ TurnInv /\ StopInv /\ LossInv /\ HorizonRespected
  BY DEF RoomInv, TurnInv, StopInv, LossInv, HorizonRespected, MidTurn, BeforeEngine, Closing
<1>3. InPhaseOrder /\ LastInv
  BY DEF InPhaseOrder, LastInv, LastKind
<1>. QED  BY <1>1, <1>2, <1>3 DEF IInv

\* The appends.
LEMMA Recording ==
    ASSUME IInv, Record
    PROVE  IInv'
<1>. USE DEF IInv
<1>1. /\ pc \in Kinds /\ journal' = Append(journal, Row) /\ pc' = After[pc]
      /\ UNCHANGED <<torn, snapshot, failed, time, late, loop, before, turn, data, ghosts>>
  BY DEF Record
<1>2. journal' \in Seq(Rows) /\ InPhaseOrder' /\ LastKind' = pc
  BY <1>1, Appended
<1>3. TypeOK'
  BY <1>1, <1>2 DEF TypeOK, After, Kinds, Steps, loop, ghosts
<1>4. RoomInv' /\ LossInv'
  BY <1>1 DEF RoomInv, LossInv, After, Kinds, MidTurn, BeforeEngine, Closing, loop
<1>5. TurnInv'
  BY <1>1 DEF TurnInv, After, Kinds, MidTurn, BeforeEngine, Closing, NoFailure, TypeOK
<1>6. StopInv' /\ HorizonRespected'
  BY <1>1 DEF StopInv, HorizonRespected, After, Kinds, loop
<1>7. LastInv'
  BY <1>1, <1>2 DEF LastInv, After, Kinds
<1>. QED  BY <1>2, <1>3, <1>4, <1>5, <1>6, <1>7

\* The steps that end the trial short of its record.
LEMMA Stopping ==
    ASSUME IInv, RecordFails \/ WriteSnapshotFails \/ Crash
    PROVE  IInv'
<1>. USE DEF IInv
<1>1. /\ pc' \in {"raised", "crashed"} /\ failed' \in BOOLEAN /\ (failed' => pc' = "raised")
      /\ UNCHANGED <<time, late, loop, before, turn, data, ghosts>>
  <2>1. CASE RecordFails
    BY <2>1 DEF RecordFails
  <2>2. CASE WriteSnapshotFails \/ Crash
    <3>1. failed' = failed /\ pc # "raised"
      BY <2>2 DEF WriteSnapshotFails, Crash, Ended
    <3>. QED  BY <2>2, <3>1 DEF WriteSnapshotFails, Crash, LossInv, TypeOK
  <2>. QED  BY <2>1, <2>2
<1>2. journal' \in Seq(Rows) /\ torn' \in BOOLEAN /\ InPhaseOrder'
  <2>1. CASE UNCHANGED <<journal, torn>>
    BY <2>1, Unwritten DEF TypeOK
  <2>2. CASE pc \in Kinds /\ Interrupted
    BY <2>2, CutShort
  <2>. QED  BY <2>1, <2>2 DEF RecordFails, WriteSnapshotFails, Crash
<1>3. snapshot' \in {snapshot, Missing, Invalid, Present(data)}
  BY DEF RecordFails, WriteSnapshotFails, Crash
<1>4. TypeOK'
  BY <1>1, <1>2, <1>3 DEF TypeOK, Missing, Invalid, Present, loop, ghosts
<1>5. RoomInv' /\ TurnInv' /\ StopInv' /\ LossInv' /\ LastInv' /\ HorizonRespected'
  BY <1>1 DEF RoomInv, TurnInv, StopInv, LossInv, LastInv, HorizonRespected, MidTurn,
              BeforeEngine, Closing, TypeOK
<1>. QED  BY <1>2, <1>4, <1>5

\* The steps of a turn.
LEMMA Turning ==
    ASSUME IInv, BeginTurn \/ Send \/ Parse \/ Submit
    PROVE  IInv'
<1>. USE DEF IInv
<1>1. UNCHANGED <<disk, failed, time, late, loop, data>> /\ entered' = entered
  BY DEF BeginTurn, Send, Parse, Submit, ghosts
<1>2. InPhaseOrder' /\ LastKind' = LastKind
  BY <1>1, Unwritten DEF disk
<1>3. CASE BeginTurn
  <2>1. TypeOK'
    BY <1>1, <1>3 DEF TypeOK, BeginTurn, NoTurn, Answers, TurnFailures, Refusals, NoReceipt,
                      Kinds, disk, loop, ghosts
  <2>2. RoomInv'
    BY <1>1, <1>3, Numbers DEF RoomInv, BeginTurn, Bound, MidTurn, BeforeEngine, Closing, loop
  <2>3. TurnInv'
    BY <1>1, <1>3 DEF TurnInv, BeginTurn, NoTurn, MidTurn, BeforeEngine, Closing, TypeOK
  <2>4. StopInv' /\ LossInv' /\ LastInv' /\ HorizonRespected'
    BY <1>1, <1>2, <1>3 DEF StopInv, LossInv, LastInv, HorizonRespected, BeginTurn
  <2>. QED  BY <1>2, <2>1, <2>2, <2>3, <2>4
<1>4. CASE Send
  <2>1. TypeOK'
    BY <1>1, <1>4 DEF TypeOK, Send, Answers, Kinds, disk, loop
  <2>2. RoomInv'
    BY <1>1, <1>4 DEF RoomInv, Send, MidTurn, BeforeEngine, Closing, loop
  <2>3. TurnInv'
    BY <1>1, <1>4 DEF TurnInv, Send, MidTurn, BeforeEngine, Closing, TypeOK
  <2>4. StopInv' /\ LossInv' /\ LastInv' /\ HorizonRespected'
    BY <1>1, <1>2, <1>4 DEF StopInv, LossInv, LastInv, HorizonRespected, Send
  <2>. QED  BY <1>2, <2>1, <2>2, <2>3, <2>4
<1>5. CASE Parse
  <2>1. TypeOK'
    BY <1>1, <1>5 DEF TypeOK, Parse, TurnFailures, Kinds, Steps, disk, loop, ghosts
  <2>2. RoomInv'
    BY <1>1, <1>5 DEF RoomInv, Parse, MidTurn, BeforeEngine, Closing, loop
  <2>3. TurnInv'
    BY <1>1, <1>5 DEF TurnInv, Parse, MidTurn, BeforeEngine, Closing, TypeOK, NoFailure
  <2>4. StopInv' /\ LossInv' /\ LastInv' /\ HorizonRespected'
    BY <1>1, <1>2, <1>5 DEF StopInv, LossInv, LastInv, HorizonRespected, Parse
  <2>. QED  BY <1>2, <2>1, <2>2, <2>3, <2>4
<1>6. CASE Submit
  <2>1. TypeOK'
    BY <1>1, <1>6 DEF TypeOK, Submit, Precheck, TurnFailures, Refusals, Kinds, Steps, disk,
                      loop, ghosts
  <2>2. RoomInv'
    BY <1>1, <1>6 DEF RoomInv, Submit, MidTurn, BeforeEngine, Closing, loop
  <2>3. TurnInv'
    <3>1. CASE pc' = "engine_intent" /\ UNCHANGED turn
      <4>1. time + turn.outcome.duration <= EndTick
        BY <1>6, <3>1, Numbers DEF Submit, Precheck, NoFailure
      <4>. QED  BY <1>1, <1>6, <3>1, <4>1 DEF TurnInv, Submit, MidTurn, BeforeEngine, Closing
    <3>2. CASE pc' = "decision_finished" /\ turn'.failure_code = "SUBMISSION_ERROR"
      BY <1>1, <1>6, <3>2 DEF TurnInv, Submit, MidTurn, BeforeEngine, Closing, NoFailure
    <3>. QED  BY <1>6, <3>1, <3>2 DEF Submit, TypeOK
  <2>4. StopInv' /\ LossInv' /\ LastInv' /\ HorizonRespected'
    BY <1>1, <1>2, <1>6 DEF StopInv, LossInv, LastInv, HorizonRespected, Submit
  <2>. QED  BY <1>2, <2>1, <2>2, <2>3, <2>4
<1>. QED  BY <1>3, <1>4, <1>5, <1>6

\* The engine: the time it may take was checked before.
LEMMA Executing ==
    ASSUME IInv, Engine \/ EngineFails
    PROVE  IInv'
<1>. USE DEF IInv
<1>1. /\ pc = "engine" /\ UNCHANGED <<disk, failed, late, loop, before, data>>
      /\ sent' = sent /\ entered' = entered + 1
  BY DEF Engine, EngineFails
<1>2. InPhaseOrder' /\ LastKind' = LastKind
  BY <1>1, Unwritten DEF disk
<1>3. time' \in 0..EndTick
  <2>1. time + turn.outcome.duration <= EndTick
    BY <1>1 DEF TurnInv
  <2>2. time' \in time..(time + turn.outcome.duration)
    BY Numbers DEF Engine, EngineFails
  <2>. QED  BY <2>1, <2>2, Numbers
<1>4. turn.outcome.status \in Statuses /\ turn.outcome.failure = NoFailure
      /\ turn.failure_code = NoFailure /\ turn.refusal = NoFailure
  <2>1. turn.outcome \in Answers
    BY DEF TypeOK
  <2>2. turn.outcome.status \in Statuses
    BY <2>1, PilotAssumption DEF Answers, NoOutcome, Statuses
  <2>. QED  BY <2>2, <1>1 DEF TurnInv
<1>5. CASE Engine
  <2>1. pc' = "engine_receipt" /\ turn' = [turn EXCEPT !.receipt = turn.outcome.status]
    BY <1>5 DEF Engine
  <2>2. TypeOK'
    BY <2>1, <1>1, <1>3, <1>4 DEF TypeOK, Kinds, disk, loop
  <2>3. RoomInv'
    BY <2>1, <1>1 DEF RoomInv, MidTurn, BeforeEngine, Closing, loop
  <2>4. TurnInv'
    BY <2>1, <1>1, <1>4 DEF TurnInv, MidTurn, BeforeEngine, Closing, TypeOK
  <2>5. StopInv' /\ LossInv' /\ LastInv' /\ HorizonRespected'
    BY <2>1, <1>1, <1>2, <1>3 DEF StopInv, LossInv, LastInv, HorizonRespected
  <2>. QED  BY <1>2, <2>2, <2>3, <2>4, <2>5
<1>6. CASE EngineFails
  <2>1. pc' = "engine_error" /\ turn' = [turn EXCEPT !.failure_code = "SUBMISSION_ERROR"]
    BY <1>6 DEF EngineFails
  <2>2. TypeOK'
    BY <2>1, <1>1, <1>3 DEF TypeOK, TurnFailures, Kinds, disk, loop
  <2>3. RoomInv'
    BY <2>1, <1>1 DEF RoomInv, MidTurn, BeforeEngine, Closing, loop
  <2>4. TurnInv'
    BY <2>1, <1>1, <1>4 DEF TurnInv, MidTurn, BeforeEngine, Closing, TypeOK
  <2>5. StopInv' /\ LossInv' /\ LastInv' /\ HorizonRespected'
    BY <2>1, <1>1, <1>2, <1>3 DEF StopInv, LossInv, LastInv, HorizonRespected
  <2>. QED  BY <1>2, <2>2, <2>3, <2>4, <2>5
<1>. QED  BY <1>5, <1>6

\* A stop reason that a decision gives, other than a failing engine's, comes in a
\* turn that did not move time, and so short of the horizon.
LEMMA StoppedShort ==
    ASSUME IInv, pc = "conclude", StopAfter(Stalled) # "NONE"
    PROVE  /\ StopAfter(Stalled) # "HORIZON"
           /\ StopAfter(Stalled) # "ENGINE_ERROR" => time # EndTick
<1>. USE DEF IInv
<1>1. before < EndTick /\ MaxFailures > 0
  BY Numbers DEF TurnInv, MidTurn, Closing
<1>2. turn.failure_code \in TurnFailures /\ turn.refusal \in Refusals
  BY DEF TypeOK
<1>3. CASE turn.failure_code \in {"OBSERVATION_UNAVAILABLE", "CONTROLLER_ERROR"}
  <2>1. time = before
    BY <1>3 DEF TurnInv, Closing
  <2>2. StopAfter(Stalled) # "HORIZON"
    BY <1>2, <1>3 DEF StopAfter, Refusals
  <2>. QED  BY <2>1, <2>2, <1>1, Numbers
<1>4. CASE turn.failure_code = "SUBMISSION_ERROR"
  BY <1>1, <1>2, <1>4, Numbers DEF StopAfter, TurnInv, Closing, Refusals, NoFailure
<1>5. CASE turn.failure_code = NoFailure
  <2>1. turn.outcome.failure = NoFailure
    BY <1>5 DEF TurnInv, Closing
  <2>2. Failure = NoFailure
    BY <1>5, <2>1 DEF Failure, NoFailure
  <2>3. Stalled >= MaxFailures /\ StopAfter(Stalled) = "CONSECUTIVE_FAILURES"
    BY <1>5, <2>2 DEF StopAfter, NoFailure
  <2>4. time = before
    BY <2>3, <1>1, Numbers DEF Stalled
  <2>. QED  BY <2>3, <2>4, <1>1, Numbers
<1>. QED  BY <1>2, <1>3, <1>4, <1>5 DEF TurnFailures

\* The end of a turn.
LEMMA Concluding ==
    ASSUME IInv, Conclude
    PROVE  IInv'
<1>. USE DEF IInv
<1>1. /\ pc = "conclude" /\ decisions' = Append(decisions, Decision)
      /\ calls' \in {calls, calls + 1} /\ stop' = StopAfter(Stalled)
      /\ UNCHANGED <<disk, failed, time, late, before, turn, data, ghosts>>
  BY DEF Conclude
<1>2. InPhaseOrder' /\ LastKind' = LastKind
  BY <1>1, Unwritten DEF disk
<1>3. Len(decisions) < MaxDecisions /\ calls < MaxCalls /\ failures < MaxFailures
  BY <1>1 DEF RoomInv, MidTurn, Closing
<1>4. Stalled \in 0..MaxFailures
  BY <1>3, Numbers DEF Stalled
<1>5. failures' \in 0..MaxFailures
  BY <1>3, <1>4, Numbers DEF Conclude
<1>6. stop' \in Stops
  BY <1>1 DEF StopAfter, Stops, NoStop, TypeOK, Refusals
<1>7. decisions' \in Seq(Decisions) /\ Len(decisions') <= MaxDecisions
  <2>1. Decision \in Decisions
    BY DecisionTyped
  <2>. QED  BY <1>1, <1>3, <2>1, Numbers DEF TypeOK
<1>8. pc' = IF stop' = "NONE" THEN "head" ELSE "seal"
  BY <1>1 DEF Conclude
<1>9. TypeOK'
  BY <1>1, <1>3, <1>5, <1>6, <1>7, <1>8, Numbers DEF TypeOK, Steps, disk, ghosts
<1>10. RoomInv'
  <2>1. SUFFICES ASSUME pc' = "head"  PROVE failures' < MaxFailures
    BY <1>8 DEF RoomInv, MidTurn, BeforeEngine, Closing
  <2>2. StopAfter(Stalled) = "NONE"
    BY <2>1, <1>1, <1>8
  <2>3. ~(Stalled >= MaxFailures)
    BY <2>2 DEF StopAfter, NoFailure
  <2>. QED  BY <2>3, <1>3, <1>4, Numbers DEF Conclude
<1>11. TurnInv' /\ LossInv'
  BY <1>1, <1>8 DEF TurnInv, LossInv, MidTurn, BeforeEngine, Closing
<1>12. StopInv' /\ HorizonRespected'
  BY <1>1, <1>8, StoppedShort DEF StopInv, HorizonRespected
<1>13. LastInv'
  BY <1>1, <1>2, <1>8 DEF LastInv
<1>. QED  BY <1>2, <1>9, <1>10, <1>11, <1>12, <1>13

\* The end of the trial.
LEMMA Finishing ==
    ASSUME IInv, Leave \/ Seal \/ WriteSnapshot \/ WallPasses
    PROVE  IInv'
<1>. USE DEF IInv
<1>1. UNCHANGED <<journal, torn, failed, time, decisions, calls, failures, before, turn,
                  ghosts>>
  BY DEF Leave, Seal, WriteSnapshot, WallPasses, disk, loop
<1>2. InPhaseOrder' /\ LastKind' = LastKind
  BY <1>1, Unwritten
<1>3. CASE Leave
  <2>1. pc = "head" /\ pc' = "seal" /\ UNCHANGED <<snapshot, late, data>>
    BY <1>3 DEF Leave, disk
  <2>2. stop' \in Stops /\ ((stop' = "HORIZON") = (time = EndTick)) /\ stop' # "ENGINE_ERROR"
    BY <1>3, Numbers DEF Leave, Bound, Stops, NoStop
  <2>3. TypeOK'
    BY <1>1, <2>1, <2>2 DEF TypeOK, Steps, ghosts
  <2>. QED
    BY <1>1, <1>2, <2>1, <2>2, <2>3 DEF RoomInv, TurnInv, StopInv, LossInv, LastInv,
       HorizonRespected, MidTurn, BeforeEngine, Closing
<1>4. CASE Seal
  <2>1. /\ pc = "seal" /\ pc' = "trial_finished" /\ UNCHANGED <<snapshot, late, stop>>
        /\ data' = [stop_reason |-> stop, decisions |-> decisions, simulation_end |-> time,
                    late |-> late]
    BY <1>4 DEF Seal, disk, loop
  <2>2. data' \in Records
    BY <2>1 DEF TypeOK, Records
  <2>3. TypeOK'
    BY <1>1, <2>1, <2>2 DEF TypeOK, Kinds, ghosts
  <2>4. HorizonRespected'
    BY <1>1, <2>1 DEF HorizonRespected, StopInv
  <2>. QED
    BY <1>1, <1>2, <2>1, <2>3, <2>4 DEF RoomInv, TurnInv, StopInv, LossInv, LastInv,
       MidTurn, BeforeEngine, Closing
<1>5. CASE WriteSnapshot
  <2>1. /\ pc' = "done" /\ snapshot' = Present(data) /\ UNCHANGED <<late, data, stop>>
        /\ pc = "snapshot"
    BY <1>5 DEF WriteSnapshot, loop
  <2>2. TypeOK'
    BY <1>1, <2>1 DEF TypeOK, Present, ghosts
  <2>. QED
    BY <1>1, <1>2, <2>1, <2>2 DEF RoomInv, TurnInv, StopInv, LossInv, LastInv,
       HorizonRespected, MidTurn, BeforeEngine, Closing
<1>6. CASE WallPasses
  <2>1. late' = TRUE /\ UNCHANGED <<snapshot, data, stop, pc>>
    BY <1>6 DEF WallPasses, disk, loop
  <2>2. TypeOK'
    BY <1>1, <2>1 DEF TypeOK, ghosts
  <2>. QED
    BY <1>1, <1>2, <2>1, <2>2 DEF RoomInv, TurnInv, StopInv, LossInv, LastInv, HorizonRespected
<1>. QED  BY <1>3, <1>4, <1>5, <1>6

\* Every step of the runner, a crash and the wall clock keep it.
LEMMA Stepwise == IInv /\ [Next]_vars => IInv'
<1>. SUFFICES ASSUME IInv, [Next]_vars  PROVE IInv'
  OBVIOUS
<1>1. CASE UNCHANGED vars
  <2>1. InPhaseOrder' /\ LastKind' = LastKind
    BY <1>1, Unwritten DEF IInv, vars, disk
  <2>. QED
    BY <1>1, <2>1 DEF IInv, TypeOK, RoomInv, TurnInv, StopInv, LossInv, LastInv,
       HorizonRespected, vars, disk, loop, ghosts
<1>. QED
  BY <1>1, Recording, Stopping, Turning, Executing, Concluding, Finishing DEF Next, Runner

\* The inductive invariant holds in every state of every trial.
\* The inductive invariant of a trial and its disk.
THEOREM Invariance == Spec => []IInv
BY Initially, Stepwise, PTL DEF Spec
-----------------------------------------------------------------------------
(* What follows from it                                                    *)

\* Types are kept, and with them the bounds of the policy.
THEOREM TypeCorrect == Spec => []TypeOK
<1>1. IInv => TypeOK
  BY DEF IInv
<1>. QED  BY <1>1, Invariance, PTL

\* No action passes the horizon, and HORIZON says that it was reached.
THEOREM StaysWithin == Spec => []HorizonRespected
<1>1. IInv => HorizonRespected
  BY DEF IInv
<1>. QED  BY <1>1, Invariance, PTL

\* Once a row is lost nothing goes out, is executed or is written.
THEOREM LossIsFinal == Spec => NothingAfterLoss
<1>1. IInv /\ [Next]_vars => [failed => UNCHANGED <<journal, sent, entered, time>>]_vars
  <2>. SUFFICES ASSUME IInv, Next, failed
                PROVE  UNCHANGED <<journal, sent, entered, time>>
    OBVIOUS
  <2>1. pc = "raised"
    BY DEF IInv, LossInv
  <2>. QED
    BY <2>1 DEF Next, Runner, Record, RecordFails, Kinds, Leave, BeginTurn, Send, Parse, Submit,
       Engine, EngineFails, Conclude, Seal, WriteSnapshot, WriteSnapshotFails, Crash, Ended,
       WallPasses
<1>. QED  BY <1>1, Invariance, PTL DEF Spec, NothingAfterLoss
-----------------------------------------------------------------------------
(* The journal is written ahead.  What is on disk is counted against what  *)
(* went out: exactly while control is elsewhere, and within one of it when *)
(* the trial has ended in the middle of an append.                         *)

CountInv ==
    /\ Count(journal, "provider_intent") \in
        IF pc = "send" THEN {sent + 1} ELSE IF Ended THEN sent..(sent + 1) ELSE {sent}
    /\ Count(journal, "engine_intent") \in
        IF pc = "engine" THEN {entered + 1}
        ELSE IF Ended THEN entered..(entered + 1) ELSE {entered}
    /\ Count(journal, "provider_result") \in
        IF pc = "provider_result" THEN {sent - 1}
        ELSE IF Ended THEN (sent - 1)..sent ELSE {sent}
    /\ Count(journal, "engine_receipt") + Count(journal, "engine_error") \in
        IF pc \in {"engine_receipt", "engine_error"} THEN {entered - 1}
        ELSE IF Ended THEN (entered - 1)..entered ELSE {entered}

\* A count of rows is a natural number.
LEMMA CountIsNat ==
    ASSUME NEW rows \in Seq(Rows), NEW kind
    PROVE  Count(rows, kind) \in Nat
<1>. DEFINE S == {i \in DOMAIN rows : rows[i].kind = kind}
<1>1. DOMAIN rows = 1..Len(rows) /\ Len(rows) \in Nat
  OBVIOUS
<1>2. IsFiniteSet(1..Len(rows))
  BY <1>1, FS_Interval
<1>3. IsFiniteSet(S)
  BY <1>1, <1>2, FS_Subset
<1>. QED  BY <1>3, FS_CardinalityType DEF Count

\* Appending a row counts it among its kind.
LEMMA CountAppended ==
    ASSUME NEW rows \in Seq(Rows), NEW row \in Rows, NEW kind
    PROVE  Count(Append(rows, row), kind)
             = IF row.kind = kind THEN Count(rows, kind) + 1 ELSE Count(rows, kind)
<1>. DEFINE n == Len(rows)
            longer == Append(rows, row)
            S == {i \in DOMAIN rows : rows[i].kind = kind}
            T == {i \in DOMAIN longer : longer[i].kind = kind}
<1>1. /\ n \in Nat /\ DOMAIN rows = 1..n /\ DOMAIN longer = 1..(n + 1)
      /\ longer[n + 1] = row /\ \A i \in 1..n : longer[i] = rows[i]
  OBVIOUS
<1>2. IsFiniteSet(S) /\ n + 1 \notin S
  <2>1. IsFiniteSet(1..n)
    BY <1>1, FS_Interval
  <2>. QED  BY <1>1, <2>1, FS_Subset
<1>3. CASE row.kind = kind
  <2>1. T = S \union {n + 1}
    BY <1>1, <1>3
  <2>2. Cardinality(T) = Cardinality(S) + 1
    BY <1>2, <2>1, FS_AddElement
  <2>. QED  BY <1>3, <2>2 DEF Count
<1>4. CASE row.kind # kind
  <2>1. T = S
    BY <1>1, <1>4
  <2>. QED  BY <1>4, <2>1 DEF Count
<1>. QED  BY <1>3, <1>4

\* At the start nothing is written, sent or entered.
LEMMA CountInitially == Init => CountInv
<1>. SUFFICES ASSUME Init  PROVE CountInv
  OBVIOUS
<1>1. journal = <<>> /\ sent = 0 /\ entered = 0 /\ pc = "trial_started"
  BY DEF Init
<1>2. ASSUME NEW kind  PROVE Count(journal, kind) = 0
  <2>1. {i \in DOMAIN journal : journal[i].kind = kind} = {}
    BY <1>1
  <2>. QED  BY <2>1, FS_EmptySet DEF Count
<1>. QED  BY <1>1, <1>2 DEF CountInv, Ended

\* What an append does to the counts when it is whole.
LEMMA CountWritten ==
    ASSUME TypeOK, pc \in Kinds, journal' = Append(journal, Row), NEW kind
    PROVE  /\ Count(journal, kind) \in Nat
           /\ Count(journal', kind)
                = IF pc = kind THEN Count(journal, kind) + 1 ELSE Count(journal, kind)
<1>1. journal \in Seq(Rows)
  BY DEF TypeOK
<1>2. Row \in Rows /\ Row.kind = pc
  BY Written
<1>. QED  BY <1>1, <1>2, CountIsNat, CountAppended

\* Intents, effects and answers are counted in step.
LEMMA CountStepwise == IInv /\ CountInv /\ [Next]_vars => CountInv'
<1>. SUFFICES ASSUME IInv, CountInv, [Next]_vars  PROVE CountInv'
  OBVIOUS
<1>0. TypeOK /\ sent \in Nat /\ entered \in Nat
  BY DEF IInv, TypeOK
<1>a. ASSUME NEW kind  PROVE Count(journal, kind) \in Nat
  BY <1>0, CountIsNat DEF TypeOK
<1>1. CASE Record
  <2>1. /\ pc \in Kinds /\ journal' = Append(journal, Row) /\ pc' = After[pc]
        /\ UNCHANGED <<sent, entered>>
    BY <1>1 DEF Record, ghosts
  <2>2. ASSUME NEW kind
        PROVE  Count(journal', kind)
                 = IF pc = kind THEN Count(journal, kind) + 1 ELSE Count(journal, kind)
    BY <1>0, <2>1, CountWritten
  <2>. QED  BY <2>1, <2>2, <1>0, <1>a DEF CountInv, After, Kinds, Ended
<1>2. CASE RecordFails \/ (Crash /\ pc \in Kinds)
  <2>1. /\ pc \in Kinds /\ Interrupted /\ pc' \in {"raised", "crashed"}
        /\ UNCHANGED <<sent, entered>>
    BY <1>2 DEF RecordFails, Crash, ghosts
  <2>2. CASE UNCHANGED journal
    BY <2>1, <2>2, <1>0, <1>a DEF CountInv, Kinds, Ended
  <2>3. CASE journal' = Append(journal, Row)
    <3>1. ASSUME NEW kind
          PROVE  Count(journal', kind)
                   = IF pc = kind THEN Count(journal, kind) + 1 ELSE Count(journal, kind)
      BY <1>0, <2>1, <2>3, CountWritten
    <3>. QED  BY <2>1, <3>1, <1>0, <1>a DEF CountInv, Kinds, Ended
  <2>. QED  BY <2>1, <2>2, <2>3 DEF Interrupted
<1>3. CASE Crash /\ pc \notin Kinds
  <2>1. /\ UNCHANGED <<journal, sent, entered>> /\ pc' = "crashed" /\ ~Ended
    BY <1>3 DEF Crash, ghosts
  <2>. QED  BY <2>1, <1>3, <1>0, <1>a DEF CountInv, Ended, Kinds
<1>4. CASE Send
  <2>1. /\ pc = "send" /\ pc' = "provider_result" /\ sent' = sent + 1
        /\ UNCHANGED <<journal, entered>>
    BY <1>4 DEF Send, disk
  <2>. QED  BY <2>1, <1>0, <1>a DEF CountInv, Ended
<1>5. CASE Engine \/ EngineFails
  <2>1. /\ pc = "engine" /\ pc' \in {"engine_receipt", "engine_error"}
        /\ entered' = entered + 1 /\ UNCHANGED <<journal, sent>>
    BY <1>5 DEF Engine, EngineFails, disk
  <2>. QED  BY <2>1, <1>0, <1>a DEF CountInv, Ended
<1>6. CASE \/ Leave \/ BeginTurn \/ Parse \/ Submit \/ Conclude \/ Seal
           \/ WriteSnapshot \/ WriteSnapshotFails
  <2>1. /\ UNCHANGED <<journal, sent, entered>>
        /\ pc \in {"head", "parse", "submit", "conclude", "seal", "snapshot"}
        /\ pc' \notin {"send", "engine", "provider_result", "engine_receipt", "engine_error"}
    BY <1>6 DEF Leave, BeginTurn, Parse, Submit, Conclude, Seal, WriteSnapshot,
                WriteSnapshotFails, disk, ghosts
  <2>. QED  BY <2>1, <1>0, <1>a DEF CountInv, Ended
<1>7. CASE WallPasses \/ UNCHANGED vars
  <2>1. UNCHANGED <<journal, sent, entered, pc>>
    BY <1>7 DEF WallPasses, vars, disk, ghosts
  <2>. QED  BY <2>1 DEF CountInv, Ended
<1>. QED  BY <1>1, <1>2, <1>3, <1>4, <1>5, <1>6, <1>7 DEF Next, Runner

\* No failure or crash leaves rows that the inspection takes for corruption; on
\* disk there is an intent for every effect, and at most one effect is without
\* its answer, whenever the process dies and whatever append fails.
THEOREM WrittenAhead == Spec => []WriteAhead
<1>1. Spec => []CountInv
  BY CountInitially, CountStepwise, Invariance, PTL DEF Spec
<1>2. IInv /\ CountInv => IntentsCoverEffects
  <2>. SUFFICES ASSUME IInv, CountInv  PROVE IntentsCoverEffects
    OBVIOUS
  <2>1. sent \in Nat /\ entered \in Nat
    BY DEF IInv, TypeOK
  <2>2. ASSUME NEW kind  PROVE Count(journal, kind) \in Nat
    BY CountIsNat DEF IInv, TypeOK
  <2>. QED  BY <2>1, <2>2 DEF CountInv, IntentsCoverEffects
<1>3. IInv => PrefixAccepted
  BY DEF IInv, PrefixAccepted
<1>. QED  BY <1>1, <1>2, <1>3, Invariance, PTL DEF WriteAhead
-----------------------------------------------------------------------------
(* The directory tells whether the trial was interrupted: its last row and *)
(* its snapshot are the record that was sealed, or there is no snapshot.   *)

LastRecord == LastKind = "trial_finished" /\ journal[Len(journal)].record = data

LinkInv ==
    /\ torn => pc \in {"raised", "crashed"}
    /\ pc = "snapshot" => LastRecord
    /\ snapshot.status = "PRESENT" => Ended /\ LastRecord /\ snapshot.record = data
    /\ pc = "done" => snapshot.status = "PRESENT"

\* Only the steps at the end of a trial concern the snapshot.
LEMMA LinkStepwise == IInv /\ LinkInv /\ [Next]_vars => LinkInv'
<1>. SUFFICES ASSUME IInv, LinkInv, [Next]_vars  PROVE LinkInv'
  OBVIOUS
<1>0. TypeOK /\ InPhaseOrder /\ LastInv
  BY DEF IInv
<1>1. CASE Record
  <2>1. /\ pc \in Kinds /\ journal' = Append(journal, Row) /\ pc' = After[pc]
        /\ UNCHANGED <<torn, snapshot, data>>
    BY <1>1 DEF Record
  <2>2. LastKind' = pc
    BY <1>0, <2>1, Appended
  <2>3. snapshot.status # "PRESENT" /\ ~torn
    BY <2>1, <1>0 DEF LinkInv, Ended, Kinds, TypeOK
  <2>4. pc' = "snapshot" => pc = "trial_finished"
    BY <2>1 DEF After, Kinds
  <2>5. pc = "trial_finished" => LastRecord'
    <3>. SUFFICES ASSUME pc = "trial_finished"  PROVE LastRecord'
      OBVIOUS
    <3>1. Row = [kind |-> "trial_finished", record |-> data]
      BY DEF Row, FinishedRow
    <3>2. Row \in Rows /\ journal \in Seq(Rows)
      BY <1>0, <2>1, Written DEF TypeOK
    <3>3. journal'[Len(journal')] = Row
      BY <2>1, <3>2
    <3>. QED  BY <2>1, <2>2, <3>1, <3>3 DEF LastRecord
  <2>6. pc' # "done" /\ pc' \notin {"raised", "crashed"}
    BY <2>1 DEF After, Kinds
  <2>. QED  BY <2>1, <2>3, <2>4, <2>5, <2>6 DEF LinkInv
<1>2. CASE RecordFails \/ (Crash /\ pc \in Kinds)
  <2>1. /\ pc \in Kinds /\ pc' \in {"raised", "crashed"} /\ snapshot' = snapshot
    BY <1>2 DEF RecordFails, Crash, Kinds
  <2>2. snapshot.status # "PRESENT"
    BY <2>1, <1>0 DEF LinkInv, Ended, Kinds, TypeOK
  <2>. QED  BY <2>1, <2>2 DEF LinkInv
<1>3. CASE WriteSnapshot \/ WriteSnapshotFails \/ (Crash /\ pc = "snapshot")
  <2>1. /\ pc = "snapshot" /\ pc' \in {"done", "raised", "crashed"}
        /\ UNCHANGED <<journal, torn, data>>
        /\ snapshot' \in {Missing, Invalid, Present(data)}
        /\ pc' = "done" => snapshot' = Present(data)
    BY <1>3 DEF WriteSnapshot, WriteSnapshotFails, Crash, Kinds
  <2>2. LastRecord' /\ ~torn'
    BY <2>1 DEF LinkInv, LastRecord, LastKind
  <2>. QED  BY <2>1, <2>2 DEF LinkInv, Ended, Missing, Invalid, Present
<1>4. CASE Crash /\ pc \notin Kinds /\ pc # "snapshot"
  <2>1. ~Ended /\ pc' = "crashed" /\ snapshot' = snapshot
    BY <1>4 DEF Crash
  <2>. QED  BY <2>1 DEF LinkInv
<1>5. CASE \/ Leave \/ BeginTurn \/ Send \/ Parse \/ Submit \/ Engine \/ EngineFails
           \/ Conclude \/ Seal
  <2>1. /\ UNCHANGED <<snapshot, torn>>
        /\ pc \in {"head", "send", "parse", "submit", "engine", "conclude", "seal"}
        /\ pc' \notin {"snapshot", "done"}
    BY <1>5 DEF Leave, BeginTurn, Send, Parse, Submit, Engine, EngineFails, Conclude, Seal, disk
  <2>2. ~torn /\ snapshot.status # "PRESENT"
    BY <2>1 DEF LinkInv, Ended
  <2>. QED  BY <2>1, <2>2 DEF LinkInv
<1>6. CASE WallPasses \/ UNCHANGED vars
  <2>1. UNCHANGED <<journal, torn, snapshot, data, pc>>
    BY <1>6 DEF WallPasses, vars, disk
  <2>. QED  BY <2>1 DEF LinkInv, LastRecord, LastKind, Ended
<1>. QED  BY <1>1, <1>2, <1>3, <1>4, <1>5, <1>6 DEF Next, Runner

\* inspect_trial calls a trial interrupted exactly when its directory does not
\* show all of it, whatever was being written when it ended; audit_export is
\* never more trusting.
THEOREM InterruptionIsTold == Spec => []InterruptionTold
<1>1. Init => LinkInv
  BY DEF Init, LinkInv, Missing
<1>2. IInv /\ LinkInv => InterruptionTold
  <2>. SUFFICES ASSUME IInv, LinkInv  PROVE InterruptionTold
    OBVIOUS
  <2>1. snapshot.status = "PRESENT" => Linked /\ snapshot.record = data
    BY DEF IInv, LinkInv, LastRecord, Linked
  <2>2. pc = "done" => snapshot.status = "PRESENT" /\ ~torn
    BY DEF LinkInv
  <2>3. Verified => snapshot.status = "PRESENT" /\ ~torn
    BY DEF Verified
  <2>4. ~InspectedInterrupted => snapshot.status = "PRESENT"
    BY DEF InspectedInterrupted, Linked
  <2>. QED  BY <2>1, <2>2, <2>3, <2>4 DEF InterruptionTold, InspectedInterrupted
<1>. QED  BY <1>1, <1>2, LinkStepwise, Invariance, PTL DEF Spec

\* Whatever append fails and wherever the process dies, how the trial ended is told
\* as it was.
THEOREM EndsAsTold == Spec => []EndIsTold
BY StaysWithin, InterruptionIsTold, PTL DEF EndIsTold
-----------------------------------------------------------------------------
(* Evidence of a failure of the system is on disk when a decision tells of *)
(* one, and the turn that left the evidence becomes such a decision.       *)

\* A row that is evidence.
Evident(row) ==
    \/ row.kind \in {"observation_error", "engine_error"}
    \/ row.kind = "provider_result" /\ row.failure = "INFRASTRUCTURE_FAILURE"

Told == \E i \in DOMAIN decisions : SystemFailure(decisions[i])

\* Before the answer nothing has failed in this turn.
Unanswered == {"trial_started", "head", "observation_error", "provider_intent", "send"}

EvidenceInv ==
    /\ Told => InfrastructureFailure
    /\ InfrastructureFailure => Told \/ (SystemFailure(Decision) /\ pc \notin Unanswered)
    /\ pc = "observation_error" => turn.outcome = NoOutcome
    /\ pc \in {"provider_result", "parse"} => turn.outcome.failure \in Transported
    /\ pc = "parse" => (turn.outcome.failure = "INFRASTRUCTURE_FAILURE" => InfrastructureFailure)
    /\ pc \in Closing => (SystemFailure(Decision) => InfrastructureFailure)

\* What the failures of a turn come to.
LEMMA FailureOf ==
    ASSUME TypeOK
    PROVE  /\ SystemFailure(Decision) <=>
                \/ turn.failure_code = "SUBMISSION_ERROR" /\ turn.refusal = NoFailure
                \/ turn.outcome.failure \in {"INFRASTRUCTURE_FAILURE", "OBSERVATION_UNAVAILABLE"}
<1>1. turn.outcome.failure \in Results
  BY DecisionTyped
<1>2. Decision.failure = Failure
  BY DEF Decision
<1>. QED
  BY <1>1, <1>2 DEF SystemFailure, Failure, Results, Transported, Behavioural, NoFailure

\* A row that is appended adds what it is evidence of.
LEMMA EvidenceAppended ==
    ASSUME TypeOK, pc \in Kinds, journal' = Append(journal, Row)
    PROVE  InfrastructureFailure' <=> InfrastructureFailure \/ Evident(Row)
<1>1. journal \in Seq(Rows) /\ Row \in Rows
  BY Written DEF TypeOK
<1>2. /\ Len(journal) \in Nat /\ DOMAIN journal = 1..Len(journal)
      /\ DOMAIN journal' = 1..(Len(journal) + 1) /\ journal'[Len(journal) + 1] = Row
      /\ \A i \in 1..Len(journal) : journal'[i] = journal[i]
  BY <1>1
<1>3. InfrastructureFailure <=> \E i \in DOMAIN journal : Evident(journal[i])
  BY DEF InfrastructureFailure, Evident
<1>4. InfrastructureFailure' <=> \E i \in DOMAIN journal' : Evident(journal'[i])
  BY DEF InfrastructureFailure, Evident
<1>. QED  BY <1>2, <1>3, <1>4

\* The row at which control stands is evidence when the turn has failed so.
LEMMA RowEvident ==
    ASSUME IInv, EvidenceInv, pc \in Kinds
    PROVE  /\ Evident(Row) <=>
                \/ pc \in {"observation_error", "engine_error"}
                \/ pc = "provider_result" /\ turn.outcome.failure = "INFRASTRUCTURE_FAILURE"
           /\ Evident(Row) => SystemFailure(Decision)
<1>1. TypeOK /\ TurnInv
  BY DEF IInv
<1>2. Row.kind = pc
  BY <1>1, Written
<1>3. pc = "provider_result" => Row.failure = turn.outcome.failure
  BY DEF Row
<1>4. Evident(Row) <=>
        \/ pc \in {"observation_error", "engine_error"}
        \/ pc = "provider_result" /\ turn.outcome.failure = "INFRASTRUCTURE_FAILURE"
  BY <1>2, <1>3 DEF Evident
<1>5. pc = "observation_error" => turn.outcome.failure = "OBSERVATION_UNAVAILABLE"
  BY DEF EvidenceInv, NoOutcome
<1>6. pc = "engine_error" => turn.failure_code = "SUBMISSION_ERROR" /\ turn.refusal = NoFailure
  BY <1>1 DEF TurnInv
<1>. QED  BY <1>1, <1>4, <1>5, <1>6, FailureOf

\* The appends.
LEMMA EvidenceRecorded == ASSUME IInv, EvidenceInv, Record  PROVE EvidenceInv'
<1>1. /\ pc \in Kinds /\ journal' = Append(journal, Row) /\ pc' = After[pc]
      /\ UNCHANGED <<decisions, turn, before>>
  BY DEF Record, loop
<1>2. TypeOK /\ TurnInv
  BY DEF IInv
<1>3. InfrastructureFailure' <=> InfrastructureFailure \/ Evident(Row)
  BY <1>1, <1>2, EvidenceAppended
<1>4. (Told' <=> Told) /\ (SystemFailure(Decision)' <=> SystemFailure(Decision))
  BY <1>1 DEF Told, SystemFailure, Decision, Failure
<1>5. /\ Evident(Row) <=>
            \/ pc \in {"observation_error", "engine_error"}
            \/ pc = "provider_result" /\ turn.outcome.failure = "INFRASTRUCTURE_FAILURE"
      /\ Evident(Row) => SystemFailure(Decision)
  BY <1>1, RowEvident
<1>6. InfrastructureFailure' => Told' \/ (SystemFailure(Decision)' /\ pc' \notin Unanswered)
  <2>1. CASE Evident(Row)
    BY <1>1, <1>4, <1>5, <2>1 DEF After, Kinds, Unanswered
  <2>2. CASE ~Evident(Row) /\ Told
    BY <1>4, <2>2
  <2>3. CASE ~Evident(Row) /\ pc \notin Unanswered
    <3>1. pc' = "head" => FALSE
      BY <1>1, <2>3 DEF After, Kinds, Unanswered
    <3>. QED  BY <1>1, <1>3, <1>4, <2>3, <3>1 DEF EvidenceInv, After, Kinds, Unanswered
  <2>. QED  BY <1>3, <2>1, <2>2, <2>3 DEF EvidenceInv
<1>7. pc' \in Closing => (SystemFailure(Decision)' => InfrastructureFailure')
  <2>1. CASE pc \in {"observation_error", "engine_error"}
    BY <1>3, <1>5, <2>1
  <2>2. CASE pc = "engine_receipt"
    <3>1. ~SystemFailure(Decision)
      BY <1>2, <2>2, FailureOf DEF TurnInv, NoFailure
    <3>. QED  BY <1>4, <3>1
  <2>3. CASE pc = "decision_finished"
    BY <1>3, <1>4, <2>3 DEF EvidenceInv, Closing
  <2>. QED  BY <1>1, <2>1, <2>2, <2>3 DEF After, Kinds, Closing
<1>8. pc' = "parse" => /\ turn'.outcome.failure \in Transported
                       /\ turn'.outcome.failure = "INFRASTRUCTURE_FAILURE" => InfrastructureFailure'
  BY <1>1, <1>3, <1>5 DEF EvidenceInv, After, Kinds
<1>9. pc' \notin {"observation_error", "provider_result"}
  BY <1>1 DEF After, Kinds
<1>10. Told' => InfrastructureFailure'
  BY <1>3, <1>4 DEF EvidenceInv
<1>. QED  BY <1>6, <1>7, <1>8, <1>9, <1>10 DEF EvidenceInv

\* An append that is cut short, a failing snapshot and a crash.
LEMMA EvidenceStopped ==
    ASSUME IInv, EvidenceInv, RecordFails \/ WriteSnapshotFails \/ Crash
    PROVE  EvidenceInv'
<1>1. pc' \in {"raised", "crashed"} /\ UNCHANGED <<decisions, turn, before>>
  BY DEF RecordFails, WriteSnapshotFails, Crash, loop
<1>2. (Told' <=> Told) /\ (SystemFailure(Decision)' <=> SystemFailure(Decision))
  BY <1>1 DEF Told, SystemFailure, Decision, Failure
<1>3. \/ InfrastructureFailure' <=> InfrastructureFailure
      \/ pc \in Kinds /\ journal' = Append(journal, Row)
  <2>1. UNCHANGED journal => (InfrastructureFailure' <=> InfrastructureFailure)
    BY DEF InfrastructureFailure
  <2>. QED  BY <2>1 DEF RecordFails, WriteSnapshotFails, Crash, Interrupted
<1>4. /\ InfrastructureFailure => InfrastructureFailure'
      /\ InfrastructureFailure' => InfrastructureFailure \/ SystemFailure(Decision)
  <2>1. CASE pc \in Kinds /\ journal' = Append(journal, Row)
    <3>1. InfrastructureFailure' <=> InfrastructureFailure \/ Evident(Row)
      BY <2>1, EvidenceAppended DEF IInv
    <3>2. Evident(Row) => SystemFailure(Decision)
      BY <2>1, RowEvident
    <3>. QED  BY <3>1, <3>2
  <2>. QED  BY <1>3, <2>1
<1>. QED  BY <1>1, <1>2, <1>4 DEF EvidenceInv, Unanswered, Closing

\* The steps of a turn and of the engine.
LEMMA EvidenceTurned ==
    ASSUME IInv, EvidenceInv, BeginTurn \/ Send \/ Parse \/ Submit \/ Engine \/ EngineFails
    PROVE  EvidenceInv'
<1>1. UNCHANGED <<journal, decisions>>
  BY DEF BeginTurn, Send, Parse, Submit, Engine, EngineFails, disk, loop
<1>2. (Told' <=> Told) /\ (InfrastructureFailure' <=> InfrastructureFailure)
  BY <1>1 DEF Told, InfrastructureFailure
<1>3. TypeOK /\ TypeOK' /\ TurnInv
  BY Stepwise DEF IInv, Next, Runner
<1>4. SystemFailure(Decision) <=>
        \/ turn.failure_code = "SUBMISSION_ERROR" /\ turn.refusal = NoFailure
        \/ turn.outcome.failure \in {"INFRASTRUCTURE_FAILURE", "OBSERVATION_UNAVAILABLE"}
  BY <1>3, FailureOf
<1>5. SystemFailure(Decision)' <=>
        \/ turn'.failure_code = "SUBMISSION_ERROR" /\ turn'.refusal = NoFailure
        \/ turn'.outcome.failure \in {"INFRASTRUCTURE_FAILURE", "OBSERVATION_UNAVAILABLE"}
  <2>1. turn'.outcome.failure \in Results
    <3>1. turn'.outcome \in Answers
      BY <1>3 DEF TypeOK
    <3>. QED  BY <3>1, PilotAssumption DEF Answers, NoOutcome, Results
  <2>2. Decision'.failure = Failure'
    BY DEF Decision
  <2>. QED
    BY <2>1, <2>2 DEF SystemFailure, Failure, Results, Transported, Behavioural, NoFailure
<1>6. CASE BeginTurn
  <2>1. /\ pc = "head" /\ pc' \in {"observation_error", "provider_intent"}
        /\ turn'.outcome = NoOutcome
    BY <1>6 DEF BeginTurn, NoTurn
  <2>2. InfrastructureFailure => Told
    BY <2>1 DEF EvidenceInv, Unanswered
  <2>. QED  BY <1>2, <2>1, <2>2 DEF EvidenceInv, Closing
<1>7. CASE Send
  <2>1. /\ pc = "send" /\ pc' = "provider_result" /\ turn'.outcome \in Outcomes
    <3>1. turn \in [outcome : Answers, failure_code : TurnFailures, refusal : Refusals,
                    receipt : Statuses \union {NoReceipt}]
      BY <1>3 DEF TypeOK
    <3>. QED  BY <1>7, <3>1 DEF Send
  <2>2. InfrastructureFailure => Told
    BY <2>1 DEF EvidenceInv, Unanswered
  <2>3. turn'.outcome.failure \in Transported
    BY <2>1, PilotAssumption
  <2>. QED  BY <1>2, <2>1, <2>2, <2>3 DEF EvidenceInv, Closing
<1>8. CASE Parse
  <2>1. pc = "parse" /\ pc' \in {"decision_finished", "submit"}
        /\ turn'.outcome = turn.outcome /\ turn'.failure_code \in {turn.failure_code, "CONTROLLER_ERROR"}
        /\ turn'.refusal = turn.refusal
    <3>1. turn \in [outcome : Answers, failure_code : TurnFailures, refusal : Refusals,
                    receipt : Statuses \union {NoReceipt}]
      BY <1>3 DEF TypeOK
    <3>. QED  BY <1>8, <3>1 DEF Parse
  <2>2. turn.failure_code = NoFailure /\ turn.outcome.failure \in Transported
    BY <2>1, <1>3 DEF TurnInv, EvidenceInv
  <2>3. SystemFailure(Decision) <=> turn.outcome.failure = "INFRASTRUCTURE_FAILURE"
    BY <1>4, <2>2 DEF NoFailure, Transported, Behavioural
  <2>4. SystemFailure(Decision)' <=> turn.outcome.failure = "INFRASTRUCTURE_FAILURE"
    BY <1>5, <2>1, <2>2 DEF NoFailure, Transported, Behavioural
  <2>. QED  BY <1>2, <2>1, <2>3, <2>4 DEF EvidenceInv, Closing, Unanswered
<1>9. CASE Submit
  <2>1. /\ pc = "submit" /\ pc' \in {"decision_finished", "engine_intent"}
        /\ turn'.outcome = turn.outcome
        /\ \/ turn' = turn
           \/ turn'.failure_code = "SUBMISSION_ERROR" /\ turn'.refusal # NoFailure
    <3>1. turn \in [outcome : Answers, failure_code : TurnFailures, refusal : Refusals,
                    receipt : Statuses \union {NoReceipt}]
      BY <1>3 DEF TypeOK
    <3>. QED  BY <1>9, <3>1 DEF Submit
  <2>2. turn.failure_code = NoFailure /\ turn.outcome.failure = NoFailure
    BY <2>1, <1>3 DEF TurnInv
  <2>3. ~SystemFailure(Decision) /\ ~SystemFailure(Decision)'
    BY <1>4, <1>5, <2>1, <2>2 DEF NoFailure
  <2>. QED  BY <1>2, <2>1, <2>3 DEF EvidenceInv, Closing, Unanswered
<1>10. CASE Engine \/ EngineFails
  <2>1. /\ pc = "engine" /\ pc' \in {"engine_receipt", "engine_error"}
    BY <1>10 DEF Engine, EngineFails
  <2>2. turn.failure_code = NoFailure /\ turn.outcome.failure = NoFailure
    BY <2>1, <1>3 DEF TurnInv
  <2>3. ~SystemFailure(Decision)
    BY <1>4, <2>2 DEF NoFailure
  <2>. QED  BY <1>2, <2>1, <2>3 DEF EvidenceInv, Closing, Unanswered
<1>. QED  BY <1>6, <1>7, <1>8, <1>9, <1>10

\* A turn that is over becomes a decision.
LEMMA EvidenceConcluded == ASSUME IInv, EvidenceInv, Conclude  PROVE EvidenceInv'
<1>1. /\ pc = "conclude" /\ decisions' = Append(decisions, Decision)
      /\ pc' \in {"head", "seal"} /\ UNCHANGED <<journal, turn, before>>
  BY DEF Conclude, disk
<1>2. InfrastructureFailure' <=> InfrastructureFailure
  BY <1>1 DEF InfrastructureFailure
<1>3. Told' <=> Told \/ SystemFailure(Decision)
  <2>1. decisions \in Seq(Decisions) /\ Decision \in Decisions
    BY DecisionTyped DEF IInv, TypeOK
  <2>2. /\ Len(decisions) \in Nat /\ DOMAIN decisions = 1..Len(decisions)
        /\ DOMAIN decisions' = 1..(Len(decisions) + 1)
        /\ decisions'[Len(decisions) + 1] = Decision
        /\ \A i \in 1..Len(decisions) : decisions'[i] = decisions[i]
    BY <1>1, <2>1
  <2>3. Told' <=> \E i \in DOMAIN decisions' : SystemFailure(decisions'[i])
    BY DEF Told, SystemFailure
  <2>. QED  BY <2>2, <2>3 DEF Told
<1>4. SystemFailure(Decision) => InfrastructureFailure
  BY <1>1 DEF EvidenceInv, Closing
<1>. QED  BY <1>1, <1>2, <1>3, <1>4 DEF EvidenceInv, Closing

\* Every step keeps evidence and decisions together.
LEMMA EvidenceStepwise == IInv /\ EvidenceInv /\ [Next]_vars => EvidenceInv'
<1>. SUFFICES ASSUME IInv, EvidenceInv, [Next]_vars  PROVE EvidenceInv'
  OBVIOUS
<1>1. CASE Leave \/ Seal \/ WriteSnapshot \/ WallPasses \/ UNCHANGED vars
  <2>1. /\ UNCHANGED <<journal, decisions, turn, before>>
        /\ \/ pc' = pc
           \/ pc = "head" /\ pc' = "seal"
           \/ pc \in {"seal", "snapshot"} /\ pc' \in {"trial_finished", "done"}
    BY <1>1 DEF Leave, Seal, WriteSnapshot, WallPasses, vars, disk, loop
  <2>2. /\ Told' <=> Told
        /\ InfrastructureFailure' <=> InfrastructureFailure
        /\ SystemFailure(Decision)' <=> SystemFailure(Decision)
    BY <2>1 DEF Told, InfrastructureFailure, SystemFailure, Decision, Failure
  <2>. QED  BY <2>1, <2>2 DEF EvidenceInv, Closing, Unanswered
<1>. QED
  BY <1>1, EvidenceRecorded, EvidenceStopped, EvidenceTurned, EvidenceConcluded DEF Next, Runner

\* No evidence of a failure of the system is lost, and there is none without a
\* failure, whatever append fails and wherever the process dies.
THEOREM EvidenceIsKept == Spec => []EvidenceKept
<1>1. Init => EvidenceInv
  BY DEF Init, EvidenceInv, Told, InfrastructureFailure, Closing
<1>2. EvidenceInv => EvidenceKept
  BY DEF EvidenceInv, EvidenceKept, Told
<1>. QED  BY <1>1, <1>2, EvidenceStepwise, Invariance, PTL DEF Spec
-----------------------------------------------------------------------------
(* The auditor's reconstruction, decision by decision.  A fold is a        *)
(* function that is defined over the sets of indices; that there is one    *)
(* is shown by induction, in the form of a least counterexample.           *)

Before == {p \in Nat \X Nat : p[1] < p[2]}

\* A set of naturals that is not empty has a least element.
LEMMA Smallest ==
    ASSUME NEW T, T \subseteq Nat, T # {}
    PROVE  \E m \in T : \A k \in T : m <= k
<1>1. OpToRel(<, Nat) = Before
  BY Zenon DEF OpToRel, Before
<1>2. IsWellFoundedOn(Before, Nat)
  BY NatLessThanWellFounded, <1>1
<1>3. PICK m \in T : \A k \in T : ~ (<<k, m>> \in Before)
  BY <1>2, WFMin
<1>4. \A k \in T : k < m => <<k, m>> \in Before
  BY DEF Before
<1>5. \A k \in T : k \in Nat /\ m \in Nat
  OBVIOUS
<1>6. \A k \in T : ~ (k < m)
  BY <1>3, <1>4, Zenon
<1>7. \A k \in T : m <= k
  BY <1>5, <1>6
<1>. QED  BY <1>7

\* Induction: a set that has 0, and n + 1 with every n, has every natural.
LEMMA EveryNatural ==
    ASSUME NEW S, 0 \in S, \A n \in Nat : n \in S => n + 1 \in S
    PROVE  Nat \subseteq S
<1>. SUFFICES ASSUME Nat \ S # {}  PROVE FALSE
  OBVIOUS
<1>1. PICK m \in Nat \ S : \A k \in Nat \ S : m <= k
  BY Smallest
<1>2. m # 0 /\ m \in Nat
  OBVIOUS
<1>3. m - 1 \in Nat /\ m - 1 < m
  BY <1>2
<1>4. m - 1 \in S
  BY <1>1, <1>3
<1>5. (m - 1) + 1 \in S
  BY <1>3, <1>4
<1>. QED  BY <1>2, <1>5

\* The greatest number of a set that has it.
LEMMA GreatestIs ==
    ASSUME NEW S, S \subseteq Nat, NEW m \in S, \A i \in S : i <= m
    PROVE  Max(S) = m
<1>1. \A x \in S : (\A y \in S : x >= y) => x = m
  OBVIOUS
<1>2. \E x \in S : \A y \in S : x >= y
  OBVIOUS
<1>. QED  BY <1>1, <1>2 DEF Max

\* The reconstruction of the decisions of which the indices are in a set.
Replays(f, S, s) ==
    f = [T \in SUBSET S |->
            IF T = {} THEN Begun
            ELSE Replayed(f[T \ {Max(T)}], s[Max(T)])]

\* There is one for every number of decisions.
LEMMA ReplaysExists ==
    ASSUME NEW s, NEW n \in Nat
    PROVE  \E f : Replays(f, 1..n, s)
<1>. DEFINE S == {k \in Nat : \E f : Replays(f, 1..k, s)}
<1>1. 0 \in S
  <2>. DEFINE f == [T \in SUBSET (1..0) |-> Begun]
  <2>1. \A T \in SUBSET (1..0) : T = {}
    OBVIOUS
  <2>2. Replays(f, 1..0, s)
    BY <2>1 DEF Replays
  <2>. QED  BY <2>2
<1>2. ASSUME NEW k \in Nat, k \in S
      PROVE  k + 1 \in S
  <2>1. PICK f : Replays(f, 1..k, s)
    BY <1>2
  <2>. DEFINE g == [T \in SUBSET (1..(k + 1)) |->
                      IF T = {} THEN Begun
                      ELSE IF k + 1 \in T THEN Replayed(f[T \ {k + 1}], s[k + 1])
                      ELSE f[T]]
  <2>2. ASSUME NEW T \in SUBSET (1..(k + 1)), T # {}
        PROVE  g[T] = Replayed(g[T \ {Max(T)}], s[Max(T)])
    <3>1. CASE k + 1 \in T
      <4>1. Max(T) = k + 1
        <5>1. T \subseteq Nat /\ \A i \in T : i <= k + 1
          OBVIOUS
        <5>. QED  BY <3>1, <5>1, GreatestIs
      <4>2. T \ {k + 1} \in SUBSET (1..k) /\ T \ {k + 1} \in SUBSET (1..(k + 1))
        OBVIOUS
      <4>3. g[T \ {k + 1}] = f[T \ {k + 1}]
        <5>1. CASE T \ {k + 1} = {}
          BY <2>1, <4>2, <5>1 DEF Replays
        <5>2. CASE T \ {k + 1} # {}
          BY <4>2, <5>2
        <5>. QED  BY <5>1, <5>2
      <4>. QED  BY <2>2, <3>1, <4>1, <4>3
    <3>2. CASE k + 1 \notin T
      <4>1. T \in SUBSET (1..k)
        BY <3>2
      <4>2. f[T] = Replayed(f[T \ {Max(T)}], s[Max(T)])
        BY <2>1, <2>2, <4>1 DEF Replays
      <4>3. T \ {Max(T)} \in SUBSET (1..k) /\ T \ {Max(T)} \in SUBSET (1..(k + 1))
            /\ k + 1 \notin T \ {Max(T)}
        BY <4>1, <3>2
      <4>4. g[T \ {Max(T)}] = f[T \ {Max(T)}]
        <5>1. CASE T \ {Max(T)} = {}
          BY <2>1, <4>3, <5>1 DEF Replays
        <5>2. CASE T \ {Max(T)} # {}
          BY <4>3, <5>2
        <5>. QED  BY <5>1, <5>2
      <4>. QED  BY <2>2, <3>2, <4>2, <4>4
    <3>. QED  BY <3>1, <3>2
  <2>3. g[{}] = Begun
    OBVIOUS
  <2>4. Replays(g, 1..(k + 1), s)
    <3>1. \A T \in SUBSET (1..(k + 1)) :
             g[T] = IF T = {} THEN Begun ELSE Replayed(g[T \ {Max(T)}], s[Max(T)])
      BY <2>2, <2>3
    <3>2. g = [T \in SUBSET (1..(k + 1)) |-> g[T]]
      OBVIOUS
    <3>. HIDE DEF g
    <3>. QED  BY <3>1, <3>2 DEF Replays
  <2>. QED  BY <2>4
<1>. HIDE DEF S
<1>3. Nat \subseteq S
  BY <1>1, <1>2, EveryNatural
<1>. QED  BY <1>3 DEF S

\* The states of the reconstruction, one after the other.
Follows(r, s) ==
    /\ r[0] = Begun
    /\ \A i \in 1..Len(s) : r[i] = Replayed(r[i - 1], s[i])

\* The fold goes through them and comes to the last.
LEMMA FoldFollows ==
    ASSUME NEW s \in Seq(Decisions)
    PROVE  \E r : Follows(r, s) /\ FoldLeft(Replayed, Begun, s) = r[Len(s)]
<1>. DEFINE n == Len(s)
            F == CHOOSE f : Replays(f, DOMAIN s, s)
            r == [k \in 0..n |-> F[1..k]]
<1>1. n \in Nat /\ DOMAIN s = 1..n
  OBVIOUS
<1>2. FoldLeft(Replayed, Begun, s) = F[DOMAIN s]
  BY Zenon DEF FoldLeft, MapThenFoldSet, Replays
<1>. HIDE DEF n
<1>3. Replays(F, 1..n, s)
  BY <1>1, ReplaysExists
<1>. HIDE DEF F
<1>4. r[0] = Begun
  <2>1. 1..0 = {} /\ 1..0 \in SUBSET (1..n) /\ 0 \in 0..n
    BY <1>1
  <2>2. F[1..0] = Begun
    BY <1>3, <2>1 DEF Replays
  <2>. QED  BY <2>1, <2>2
<1>5. ASSUME NEW i \in 1..n  PROVE r[i] = Replayed(r[i - 1], s[i])
  <2>1. Max(1..i) = i
    <3>1. 1..i \subseteq Nat /\ i \in 1..i /\ \A j \in 1..i : j <= i
      OBVIOUS
    <3>. QED  BY <3>1, GreatestIs
  <2>2. (1..i) \ {i} = 1..(i - 1) /\ 1..i # {} /\ 1..i \in SUBSET (1..n)
    BY <1>1
  <2>3. F[1..i] = Replayed(F[1..(i - 1)], s[i])
    BY <1>3, <2>1, <2>2 DEF Replays
  <2>4. i \in 0..n /\ i - 1 \in 0..n
    BY <1>1
  <2>. QED  BY <2>3, <2>4
<1>6. Follows(r, s)
  BY <1>4, <1>5 DEF Follows, n
<1>7. FoldLeft(Replayed, Begun, s) = r[n]
  BY <1>1, <1>2
<1>. QED  BY <1>6, <1>7 DEF n

\* The fold over a longer sequence goes one step further.
LEMMA FoldAppended ==
    ASSUME NEW s \in Seq(Decisions), NEW d \in Decisions
    PROVE  FoldLeft(Replayed, Begun, Append(s, d)) = Replayed(FoldLeft(Replayed, Begun, s), d)
<1>. DEFINE n == Len(s)
            t == Append(s, d)
<1>1. /\ n \in Nat /\ t \in Seq(Decisions) /\ Len(t) = n + 1 /\ t[n + 1] = d
      /\ \A i \in 1..n : t[i] = s[i]
  OBVIOUS
<1>2. PICK p : Follows(p, s) /\ FoldLeft(Replayed, Begun, s) = p[n]
  BY FoldFollows
<1>. HIDE DEF t
<1>3. PICK q : Follows(q, t) /\ FoldLeft(Replayed, Begun, t) = q[n + 1]
  BY <1>1, FoldFollows
<1>. DEFINE S == {k \in Nat : k <= n => p[k] = q[k]}
<1>4. 0 \in S
  BY <1>2, <1>3 DEF Follows
<1>5. ASSUME NEW k \in Nat, k \in S  PROVE k + 1 \in S
  <2>. SUFFICES ASSUME k + 1 <= n  PROVE p[k + 1] = q[k + 1]
    OBVIOUS
  <2>1. k + 1 \in 1..n /\ k + 1 \in 1..(n + 1) /\ (k + 1) - 1 = k /\ p[k] = q[k]
    BY <1>1, <1>5
  <2>2. p[k + 1] = Replayed(p[(k + 1) - 1], s[k + 1])
    BY <1>2, <2>1 DEF Follows
  <2>3. q[k + 1] = Replayed(q[(k + 1) - 1], t[k + 1])
    BY <1>1, <1>3, <2>1 DEF Follows
  <2>. QED  BY <1>1, <2>1, <2>2, <2>3
<1>. HIDE DEF S
<1>6. n \in S
  BY <1>1, <1>4, <1>5, EveryNatural
<1>7. p[n] = q[n]
  BY <1>1, <1>6 DEF S
<1>8. q[n + 1] = Replayed(q[n], d)
  <2>1. n + 1 \in 1..(n + 1) /\ (n + 1) - 1 = n
    BY <1>1
  <2>2. q[n + 1] = Replayed(q[(n + 1) - 1], t[n + 1])
    BY <1>1, <1>3, <2>1 DEF Follows
  <2>. QED  BY <1>1, <2>1, <2>2
<1>. QED  BY <1>2, <1>3, <1>7, <1>8 DEF t

\* The fold over nothing is where it begins.
LEMMA FoldEmpty == FoldLeft(Replayed, Begun, <<>>) = Begun
<1>1. <<>> \in Seq(Decisions) /\ Len(<<>>) = 0
  OBVIOUS
<1>2. PICK r : Follows(r, <<>>) /\ FoldLeft(Replayed, Begun, <<>>) = r[Len(<<>>)]
  BY <1>1, FoldFollows
<1>. QED  BY <1>1, <1>2 DEF Follows
-----------------------------------------------------------------------------
(* The record of the trial and the auditor's reconstruction of it.         *)

Replay == FoldLeft(Replayed, Begun, decisions)

\* What the auditor's engine can repeat: nothing failed in it but the model.
Repeatable(d) ==
    /\ d.failure \notin {"OBSERVATION_UNAVAILABLE", "ENGINE_ERROR"}
    /\ d.outcome.failure # "PARSER_ERROR"
AllRepeatable == \A i \in DOMAIN decisions : Repeatable(decisions[i])

\* The trial has not broken off.
Unbroken == pc \notin {"raised", "crashed"}
Finished == {"trial_finished", "snapshot", "done"}

\* What a turn leaves when it is over, by how it came to its end.
TurnKnown ==
    /\ pc \in {"provider_result", "parse", "submit", "engine_intent", "engine", "engine_receipt",
               "engine_error"} =>
        turn.outcome \in Outcomes
    /\ pc \in BeforeEngine \union {"engine_error"} => turn.receipt = NoReceipt
    /\ pc \in {"observation_error", "provider_intent", "send"} => turn.outcome = NoOutcome
    /\ pc \in {"engine_receipt", "engine_error"} => turn.outcome.failure = NoFailure
    /\ pc = "engine_receipt" =>
        turn.receipt = turn.outcome.status /\ time = before + turn.outcome.duration
    /\ pc \in Closing =>
        \/ /\ turn.failure_code = "OBSERVATION_UNAVAILABLE" /\ turn.refusal = NoFailure
           /\ turn.outcome = NoOutcome /\ turn.receipt = NoReceipt
        \/ /\ turn.failure_code = "CONTROLLER_ERROR" /\ turn.refusal = NoFailure
           /\ turn.outcome \in Outcomes /\ turn.outcome.failure # NoFailure
           /\ turn.receipt = NoReceipt
        \/ /\ turn.failure_code = "SUBMISSION_ERROR" /\ turn.outcome \in Outcomes
           /\ turn.outcome.failure = NoFailure /\ turn.receipt = NoReceipt
           /\ \/ turn.refusal = NoFailure
              \/ turn.refusal = "WALL_TIMEOUT" /\ late
              \/ turn.refusal = "HORIZON_ACTION" /\ Precheck(before, turn.outcome) = "HORIZON_ACTION"
        \/ /\ turn.failure_code = NoFailure /\ turn.refusal = NoFailure
           /\ turn.outcome \in Outcomes /\ turn.outcome.failure = NoFailure
           /\ turn.receipt = turn.outcome.status /\ time = before + turn.outcome.duration

\* The turn can become a repeatable decision.
Regular ==
    /\ turn.failure_code # "OBSERVATION_UNAVAILABLE"
    /\ ~(turn.failure_code = "SUBMISSION_ERROR" /\ turn.refusal = NoFailure)

\* The rows of the turn that are on disk.
IntentRow == [kind |-> "provider_intent"]
ResultRow == [kind |-> "provider_result", failure |-> turn.outcome.failure]
ActionRow == [kind |-> "engine_intent", action |-> turn.outcome]
ReceiptRow == [kind |-> "engine_receipt", receipt |-> turn.receipt]
FinalRow == [kind |-> "decision_finished", decision |-> Decision, tick |-> time]

AnsweredRows ==
    IF turn.receipt = NoReceipt THEN <<IntentRow, ResultRow>>
    ELSE <<IntentRow, ResultRow, ActionRow, ReceiptRow>>

TurnRows ==
    CASE pc \in {"send", "provider_result"} -> <<IntentRow>>
      [] pc \in {"parse", "submit", "engine_intent"} -> <<IntentRow, ResultRow>>
      [] pc \in {"engine", "engine_receipt"} -> <<IntentRow, ResultRow, ActionRow>>
      [] pc = "decision_finished" -> AnsweredRows
      [] pc = "conclude" -> Append(AnsweredRows, FinalRow)
      [] OTHER -> <<>>

\* What is on disk are the rows of the reconstruction and of what it has not got to.
RowsInv ==
    /\ Replay.journal \in Seq(Rows)
    /\ pc = "trial_started" => journal = <<>> /\ decisions = <<>>
    /\ pc \in {"head", "seal", "trial_finished"} => journal = Replay.journal
    /\ pc \in MidTurn /\ Regular => journal = Replay.journal \o TurnRows
    /\ pc \in {"snapshot", "done"} =>
        journal = Replay.journal \o <<[kind |-> "trial_finished", record |-> data]>>

\* The stop reason of the reconstruction.
StoppedBy == IF Replay.stop = NoStop THEN LoopStop(Replay) ELSE Replay.stop

ReplayInv ==
    /\ Replay.ok = TRUE
    /\ Replay.time = IF pc \in MidTurn THEN before ELSE time
    /\ Replay.calls = calls /\ Replay.decided = Len(decisions)
    /\ pc \in {"trial_started", "head"} \union MidTurn =>
        Replay.stop = NoStop /\ Replay.failures = failures
    /\ pc = "seal" => StopAgrees(StoppedBy, [stop_reason |-> stop, late |-> late])
    /\ pc \in Finished => StopAgrees(StoppedBy, data)
    /\ RowsInv

RecordedInv ==
    pc \in Finished \/ snapshot.status = "PRESENT" =>
        data.decisions = decisions /\ data.simulation_end = time

RepeatInv == Unbroken /\ AllRepeatable => ReplayInv

\* What the record counts, and what went out.
Asked(d) == d.outcome # NoOutcome
Acted(d) == d.receipt # NoReceipt \/ d.failure = "ENGINE_ERROR"
Asks(ds) == Cardinality({i \in DOMAIN ds : Asked(ds[i])})
Acts(ds) == Cardinality({i \in DOMAIN ds : Acted(ds[i])})
Responds(ds) == \E i \in DOMAIN ds : Responded(ds[i])
Whole == Unbroken \/ snapshot.status = "PRESENT"

GhostInv ==
    Whole =>
        /\ sent = Asks(decisions) + IF pc \in MidTurn /\ Asked(Decision) THEN 1 ELSE 0
        /\ entered = Acts(decisions) + IF pc \in MidTurn /\ Acted(Decision) THEN 1 ELSE 0
        /\ Answered <=> \/ Responds(decisions)
                        \/ pc \in MidTurn \ {"provider_result"} /\ Responded(Decision)

\* An answer of the model is classified by what the transport may return.
LEMMA OutcomeIs ==
    ASSUME NEW o \in Outcomes
    PROVE  /\ o.failure \in Transported /\ o # NoOutcome /\ o.status \in Statuses
           /\ o.status # NoReceipt /\ o.duration \in Nat
<1>1. o.failure \in Transported /\ o.status \in Statuses /\ o.duration \in Nat
  BY PilotAssumption
<1>2. NoOutcome.failure \notin Transported
  BY DEF NoOutcome, Transported, Behavioural, NoFailure
<1>. QED  BY <1>1, <1>2 DEF Statuses, NoReceipt

TurnType == [outcome : Answers, failure_code : TurnFailures, refusal : Refusals,
             receipt : Statuses \union {NoReceipt}]

\* What a turn knows is kept while it is under way.
LEMMA KnownStepwise == IInv /\ TurnKnown /\ [Next]_vars => TurnKnown'
<1>. SUFFICES ASSUME IInv, TurnKnown, [Next]_vars  PROVE TurnKnown'
  OBVIOUS
<1>0. TypeOK /\ TurnInv /\ turn \in TurnType
  BY DEF IInv, TypeOK, TurnType
<1>. USE DEF BeforeEngine, Closing
<1>1. CASE Record
  <2>1. pc \in Kinds /\ pc' = After[pc] /\ UNCHANGED <<time, late, before, turn>>
    BY <1>1 DEF Record
  <2>2. CASE pc \in {"trial_started", "provider_intent", "provider_result", "engine_intent",
                     "trial_finished"}
    BY <1>0, <2>1, <2>2 DEF TurnKnown, After, Kinds
  <2>3. CASE pc \in {"observation_error", "engine_receipt", "engine_error", "decision_finished"}
    <3>1. pc' \in {"decision_finished", "conclude"}
      BY <2>1, <2>3 DEF After, Kinds
    <3>2. CASE pc = "observation_error"
      BY <1>0, <2>1, <3>1, <3>2 DEF TurnKnown, TurnInv, MidTurn
    <3>3. CASE pc = "engine_receipt"
      <4>1. turn.outcome \in Outcomes /\ turn.outcome.failure = NoFailure
        BY <3>3 DEF TurnKnown
      <4>. QED  BY <1>0, <2>1, <3>1, <3>3, <4>1 DEF TurnKnown, TurnInv, MidTurn
    <3>4. CASE pc = "engine_error"
      BY <1>0, <2>1, <3>1, <3>4 DEF TurnKnown, TurnInv, MidTurn
    <3>5. CASE pc = "decision_finished"
      BY <1>0, <2>1, <3>1, <3>5 DEF TurnKnown
    <3>. QED  BY <2>3, <3>2, <3>3, <3>4, <3>5
  <2>. QED  BY <2>1, <2>2, <2>3 DEF Kinds
<1>2. CASE RecordFails \/ WriteSnapshotFails \/ Crash
  <2>1. pc' \in {"raised", "crashed"}
    BY <1>2 DEF RecordFails, WriteSnapshotFails, Crash
  <2>. QED  BY <2>1 DEF TurnKnown
<1>3. CASE Leave \/ Seal \/ WriteSnapshot \/ Conclude
  <2>1. pc' \in {"head", "seal", "trial_finished", "done"}
    BY <1>3 DEF Leave, Seal, WriteSnapshot, Conclude
  <2>. QED  BY <2>1 DEF TurnKnown
<1>4. CASE BeginTurn
  BY <1>4 DEF BeginTurn, TurnKnown, NoTurn
<1>5. CASE Send
  <2>1. PICK o \in Outcomes : turn' = [turn EXCEPT !.outcome = o]
    BY <1>5 DEF Send
  <2>2. pc = "send" /\ pc' = "provider_result"
    BY <1>5 DEF Send
  <2>. QED  BY <1>0, <2>1, <2>2 DEF TurnKnown, TurnType
<1>6. CASE Parse
  <2>1. /\ pc = "parse" /\ UNCHANGED <<time, before>> /\ turn.outcome \in Outcomes
        /\ turn.receipt = NoReceipt /\ turn.refusal = NoFailure
    BY <1>0, <1>6 DEF Parse, TurnKnown, TurnInv
  <2>2. CASE turn.outcome.failure # NoFailure
    BY <1>0, <1>6, <2>1, <2>2 DEF Parse, TurnKnown, TurnType
  <2>3. CASE turn.outcome.failure = NoFailure
    BY <1>6, <2>1, <2>3 DEF Parse, TurnKnown
  <2>. QED  BY <2>2, <2>3
<1>7. CASE Submit
  <2>1. /\ pc = "submit" /\ UNCHANGED <<time, before, late>> /\ turn.outcome \in Outcomes
        /\ turn.receipt = NoReceipt /\ turn.refusal = NoFailure /\ time = before
        /\ turn.outcome.failure = NoFailure
    BY <1>0, <1>7 DEF Submit, TurnKnown, TurnInv
  <2>2. PICK r : r = IF late THEN "WALL_TIMEOUT" ELSE Precheck(time, turn.outcome)
    OBVIOUS
  <2>3. r \in {"WALL_TIMEOUT", "HORIZON_ACTION", NoFailure}
    BY <2>2 DEF Precheck
  <2>4. CASE r # NoFailure
    <3>1. /\ turn' = [turn EXCEPT !.refusal = r, !.failure_code = "SUBMISSION_ERROR"]
          /\ pc' = "decision_finished"
      BY <1>7, <2>2, <2>4 DEF Submit
    <3>2. /\ turn'.refusal = r /\ turn'.failure_code = "SUBMISSION_ERROR"
          /\ turn'.outcome = turn.outcome /\ turn'.receipt = turn.receipt
      BY <1>0, <3>1 DEF TurnType
    <3>3. \/ r = "WALL_TIMEOUT" /\ late
          \/ r = "HORIZON_ACTION" /\ Precheck(before, turn.outcome) = "HORIZON_ACTION"
      BY <2>1, <2>2, <2>3, <2>4 DEF Precheck
    <3>4. (turn'.refusal = "WALL_TIMEOUT" /\ late') \/
          (turn'.refusal = "HORIZON_ACTION" /\ Precheck(before, turn.outcome)' = "HORIZON_ACTION")
      BY <2>1, <3>2, <3>3 DEF Precheck
    <3>. QED  BY <2>1, <3>1, <3>2, <3>4 DEF TurnKnown
  <2>5. CASE r = NoFailure
    <3>1. pc' = "engine_intent" /\ turn' = turn
      BY <1>7, <2>2, <2>5 DEF Submit
    <3>. QED  BY <2>1, <3>1 DEF TurnKnown
  <2>. QED  BY <2>4, <2>5
<1>8. CASE Engine
  <2>1. /\ pc = "engine" /\ pc' = "engine_receipt" /\ before' = before
        /\ time' = time + turn.outcome.duration /\ time = before
        /\ turn' = [turn EXCEPT !.receipt = turn.outcome.status]
        /\ turn.outcome \in Outcomes /\ turn.outcome.failure = NoFailure
    BY <1>0, <1>8 DEF Engine, TurnKnown, TurnInv
  <2>2. turn'.outcome = turn.outcome /\ turn'.receipt = turn.outcome.status
    BY <1>0, <2>1 DEF TurnType
  <2>. QED  BY <2>1, <2>2 DEF TurnKnown
<1>9. CASE EngineFails
  <2>1. /\ pc = "engine" /\ pc' = "engine_error"
        /\ turn' = [turn EXCEPT !.failure_code = "SUBMISSION_ERROR"]
        /\ turn.outcome \in Outcomes /\ turn.outcome.failure = NoFailure /\ turn.receipt = NoReceipt
    BY <1>0, <1>9 DEF EngineFails, TurnKnown, TurnInv
  <2>2. turn'.outcome = turn.outcome /\ turn'.receipt = turn.receipt
    BY <1>0, <2>1 DEF TurnType
  <2>. QED  BY <2>1, <2>2 DEF TurnKnown
<1>10. CASE WallPasses \/ UNCHANGED vars
  <2>1. UNCHANGED <<time, before, turn, pc>> /\ (late => late')
    BY <1>10 DEF WallPasses, vars
  <2>2. Precheck(before, turn.outcome)' = Precheck(before, turn.outcome)
    BY <2>1 DEF Precheck
  <2>3. CASE pc \in Closing
    BY <2>1, <2>2, <2>3 DEF TurnKnown
  <2>4. CASE pc \notin Closing
    BY <2>1, <2>4 DEF TurnKnown
  <2>. QED  BY <2>3, <2>4
<1>. QED
  BY <1>1, <1>2, <1>3, <1>4, <1>5, <1>6, <1>7, <1>8, <1>9, <1>10 DEF Next, Runner

\* The sealed record tells the decisions and the time of the trial.
LEMMA RecordedStepwise == IInv /\ LinkInv /\ RecordedInv /\ [Next]_vars => RecordedInv'
<1>. SUFFICES ASSUME IInv, LinkInv, RecordedInv, [Next]_vars  PROVE RecordedInv'
  OBVIOUS
<1>1. CASE Seal
  BY <1>1 DEF Seal, RecordedInv, loop
<1>2. CASE Record
  <2>1. /\ UNCHANGED <<data, decisions, time, snapshot>> /\ pc \in Kinds
        /\ (pc' \in Finished => pc \in Finished)
    BY <1>2 DEF Record, After, Kinds, Finished, loop
  <2>. QED  BY <2>1 DEF RecordedInv
<1>3. CASE WriteSnapshot \/ WriteSnapshotFails \/ Crash \/ RecordFails
  <2>1. /\ UNCHANGED <<data, decisions, time>> /\ (pc' \in Finished => pc \in Finished)
        /\ (snapshot'.status = "PRESENT" => snapshot.status = "PRESENT" \/ pc = "snapshot")
    BY <1>3 DEF WriteSnapshot, WriteSnapshotFails, Crash, RecordFails, Finished, Missing, Invalid, loop
  <2>. QED  BY <2>1 DEF RecordedInv, Finished
<1>4. CASE BeginTurn \/ Send \/ Parse \/ Submit \/ Engine \/ EngineFails \/ Conclude \/ Leave
  <2>1. /\ pc \in {"head", "send", "parse", "submit", "engine", "conclude"} /\ snapshot' = snapshot
        /\ pc' \notin Finished
    BY <1>4 DEF BeginTurn, Send, Parse, Submit, Engine, EngineFails, Conclude, Leave, disk, Finished
  <2>2. snapshot.status # "PRESENT"
    BY <2>1 DEF LinkInv, Ended
  <2>. QED  BY <2>1, <2>2 DEF RecordedInv
<1>5. CASE WallPasses \/ UNCHANGED vars
  BY <1>5 DEF WallPasses, vars, RecordedInv, disk, loop
<1>. QED  BY <1>1, <1>2, <1>3, <1>4, <1>5 DEF Next, Runner

-----------------------------------------------------------------------------
\* Rows that are put behind others.
LEMMA Concatenated ==
    ASSUME NEW s \in Seq(Rows), NEW t \in Seq(Rows), NEW e \in Rows
    PROVE  /\ s \o <<>> = s
           /\ Append(s, e) = s \o <<e>>
           /\ Append(s \o t, e) = s \o Append(t, e)
OBVIOUS

\* The rows of a turn are rows.
LEMMA RowTypes ==
    ASSUME TypeOK
    PROVE  /\ IntentRow \in Rows /\ ResultRow \in Rows /\ ActionRow \in Rows
           /\ ReceiptRow \in Rows /\ FinalRow \in Rows /\ TurnRows \in Seq(Rows)
<1>1. /\ IntentRow \in Rows /\ ResultRow \in Rows /\ ActionRow \in Rows
      /\ ReceiptRow \in Rows /\ FinalRow \in Rows
  BY DecisionTyped DEF IntentRow, ResultRow, ActionRow, ReceiptRow, FinalRow, Rows, TypeOK
<1>. HIDE DEF IntentRow, ResultRow, ActionRow, ReceiptRow, FinalRow
<1>2. AnsweredRows \in Seq(Rows)
  BY <1>1 DEF AnsweredRows
<1>3. TurnRows \in Seq(Rows)
  BY <1>1, <1>2 DEF TurnRows
<1>. QED  BY <1>1, <1>3

\* The row that is next is the next of the turn.
LEMMA RowIs ==
    ASSUME TypeOK
    PROVE  /\ pc = "provider_intent" => Row = IntentRow
           /\ pc = "provider_result" => Row = ResultRow
           /\ pc = "engine_intent" => Row = ActionRow
           /\ pc = "engine_receipt" => Row = ReceiptRow
           /\ pc = "decision_finished" => Row = FinalRow
           /\ pc = "trial_finished" => Row = [kind |-> "trial_finished", record |-> data]
           /\ pc = "trial_started" => Row = [kind |-> "trial_started"]
BY DEF Row, IntentRow, ResultRow, ActionRow, ReceiptRow, FinalRow, FinishedRow

\* A decision that can be repeated is what the auditor makes of it.
LEMMA DecidedAgrees ==
    ASSUME IInv, TurnKnown, pc = "conclude", Repeatable(Decision), NEW s,
           s.stop = NoStop, s.time = before, s.decided = Len(decisions), s.calls = calls,
           s.failures = failures
    PROVE  /\ Regular /\ Agrees(s, Decision) /\ TimeAfter(s, Decision) = time
           /\ StalledAfter(s, Decision) = Stalled /\ StopsAt(s, Decision) = StopAfter(Stalled)
           /\ RowsOf(s, Decision) = TurnRows
           /\ StopAfter(Stalled) = "WALL_TIMEOUT" => late
<1>. DEFINE d == Decision
            o == turn.outcome
<1>1. /\ d.tick = before /\ d.outcome = o /\ d.failure = Failure
      /\ d.turn_failure = turn.failure_code /\ d.protocol_failure = turn.refusal
      /\ d.receipt = turn.receipt
  BY DEF Decision
<1>2. /\ before < EndTick /\ Len(decisions) < MaxDecisions /\ calls < MaxCalls
      /\ EndTick \in Nat /\ before \in Nat /\ time \in 0..EndTick
  BY Numbers DEF IInv, TurnInv, RoomInv, MidTurn, Closing
<1>3. Failure \notin {"OBSERVATION_UNAVAILABLE", "ENGINE_ERROR"} /\ o.failure # "PARSER_ERROR"
  BY <1>1 DEF Repeatable
<1>4. Regular
  <2>1. turn.failure_code = "OBSERVATION_UNAVAILABLE" => o = NoOutcome
    BY DEF TurnKnown, Closing, NoFailure
  <2>2. turn.failure_code = "OBSERVATION_UNAVAILABLE" => Failure = "OBSERVATION_UNAVAILABLE"
    BY <2>1 DEF Failure, NoOutcome
  <2>. QED  BY <1>3, <2>2 DEF Regular, Failure
<1>5. Failure = o.failure
  BY <1>3 DEF Failure
<1>6. \/ /\ turn.failure_code = "CONTROLLER_ERROR" /\ turn.refusal = NoFailure
         /\ o \in Outcomes /\ o.failure # NoFailure /\ turn.receipt = NoReceipt
      \/ /\ turn.failure_code = "SUBMISSION_ERROR" /\ o \in Outcomes
         /\ o.failure = NoFailure /\ turn.receipt = NoReceipt
         /\ \/ turn.refusal = "WALL_TIMEOUT" /\ late
            \/ turn.refusal = "HORIZON_ACTION" /\ Precheck(before, o) = "HORIZON_ACTION"
      \/ /\ turn.failure_code = NoFailure /\ turn.refusal = NoFailure
         /\ o \in Outcomes /\ o.failure = NoFailure
         /\ turn.receipt = o.status /\ time = before + o.duration
  BY <1>4 DEF TurnKnown, Closing, Regular
<1>7. o \in Outcomes => o # NoOutcome /\ o.status # NoReceipt /\ o.duration \in Nat
  BY OutcomeIs
<1>8. turn.failure_code \in {"OBSERVATION_UNAVAILABLE", "CONTROLLER_ERROR"} \/ turn.refusal # NoFailure
        => time = before
  BY DEF IInv, TurnInv, Closing
<1>. HIDE DEF d, o
<1>9. CASE turn.failure_code = "CONTROLLER_ERROR"
  <2>1. /\ turn.refusal = NoFailure /\ o \in Outcomes /\ o.failure # NoFailure
        /\ turn.receipt = NoReceipt /\ time = before
    BY <1>6, <1>8, <1>9 DEF NoFailure
  <2>2. Refusal(s, d) = NoFailure /\ ~Executes(s, d)
    BY <1>1, <2>1 DEF Refusal, Executes
  <2>3. TimeAfter(s, d) = time
    BY <2>1, <2>2 DEF TimeAfter
  <2>4. StalledAfter(s, d) = Stalled
    BY <2>1, <2>3 DEF StalledAfter, Stalled
  <2>5. Agrees(s, d)
    BY <1>1, <1>2, <1>3, <1>5, <1>7, <1>9, <2>1, <2>2 DEF Agrees
  <2>6. StopsAt(s, d) = StopAfter(Stalled)
    BY <1>1, <1>5, <1>9, <2>2, <2>4 DEF StopsAt, StopAfter, NoStop
  <2>7. RowsOf(s, d) = TurnRows
    <3>1. RowsOf(s, d) =
            <<[kind |-> "provider_intent"], [kind |-> "provider_result", failure |-> d.outcome.failure]>>
             \o <<>> \o <<[kind |-> "decision_finished", decision |-> d, tick |-> time]>>
      BY <2>2, <2>3 DEF RowsOf
    <3>2. RowsOf(s, d) = <<IntentRow, ResultRow>> \o <<>> \o <<FinalRow>>
      BY <1>1, <3>1 DEF IntentRow, ResultRow, FinalRow, d, o
    <3>3. TurnRows = Append(<<IntentRow, ResultRow>>, FinalRow)
      BY <2>1 DEF TurnRows, AnsweredRows
    <3>. QED  BY <3>2, <3>3
  <2>8. StopAfter(Stalled) # "WALL_TIMEOUT"
    BY <1>9 DEF StopAfter
  <2>. QED  BY <1>4, <2>3, <2>4, <2>5, <2>6, <2>7, <2>8 DEF d
<1>10. CASE turn.failure_code = "SUBMISSION_ERROR"
  <2>1. /\ o \in Outcomes /\ o.failure = NoFailure /\ turn.receipt = NoReceipt
        /\ \/ turn.refusal = "WALL_TIMEOUT" /\ late
           \/ turn.refusal = "HORIZON_ACTION" /\ Precheck(before, o) = "HORIZON_ACTION"
    BY <1>6, <1>10 DEF NoFailure
  <2>2. turn.refusal # NoFailure /\ time = before
    BY <1>8, <2>1 DEF NoFailure
  <2>3. Refusal(s, d) = turn.refusal /\ ~Executes(s, d)
    BY <1>1, <2>1, <2>2 DEF Refusal, Executes, NoFailure
  <2>4. TimeAfter(s, d) = time
    BY <2>2, <2>3 DEF TimeAfter
  <2>5. StalledAfter(s, d) = Stalled
    BY <2>2, <2>4 DEF StalledAfter, Stalled
  <2>6. Agrees(s, d)
    BY <1>1, <1>2, <1>3, <1>5, <1>7, <1>10, <2>1, <2>2, <2>3 DEF Agrees
  <2>7. StopAfter(Stalled) = turn.refusal /\ StopsAt(s, d) = turn.refusal
    BY <1>1, <1>10, <2>1, <2>2, <2>3 DEF StopsAt, StopAfter, NoFailure
  <2>8. RowsOf(s, d) = TurnRows
    <3>1. RowsOf(s, d) =
            <<[kind |-> "provider_intent"], [kind |-> "provider_result", failure |-> d.outcome.failure]>>
             \o <<>> \o <<[kind |-> "decision_finished", decision |-> d, tick |-> time]>>
      BY <2>3, <2>4 DEF RowsOf
    <3>2. RowsOf(s, d) = <<IntentRow, ResultRow>> \o <<>> \o <<FinalRow>>
      BY <1>1, <3>1 DEF IntentRow, ResultRow, FinalRow, d, o
    <3>3. TurnRows = Append(<<IntentRow, ResultRow>>, FinalRow)
      BY <2>1 DEF TurnRows, AnsweredRows
    <3>. QED  BY <3>2, <3>3
  <2>. QED  BY <1>4, <2>1, <2>4, <2>5, <2>6, <2>7, <2>8 DEF d
<1>11. CASE turn.failure_code = NoFailure
  <2>1. /\ turn.refusal = NoFailure /\ o \in Outcomes /\ o.failure = NoFailure
        /\ turn.receipt = o.status /\ time = before + o.duration
    BY <1>6, <1>11 DEF NoFailure
  <2>2. Precheck(before, o) = NoFailure
    BY <1>2, <1>7, <2>1 DEF Precheck
  <2>3. Refusal(s, d) = NoFailure /\ Executes(s, d)
    BY <1>1, <2>1, <2>2 DEF Refusal, Executes, NoFailure
  <2>4. TimeAfter(s, d) = time
    BY <1>1, <2>1, <2>3 DEF TimeAfter
  <2>5. StalledAfter(s, d) = Stalled
    BY <2>4 DEF StalledAfter, Stalled
  <2>6. Agrees(s, d)
    BY <1>1, <1>2, <1>3, <1>5, <1>7, <1>11, <2>1, <2>3 DEF Agrees
  <2>7. StopsAt(s, d) = StopAfter(Stalled) /\ StopAfter(Stalled) # "WALL_TIMEOUT"
    BY <1>1, <1>5, <1>11, <2>1, <2>3, <2>5 DEF StopsAt, StopAfter, NoStop, NoFailure
  <2>8. RowsOf(s, d) = TurnRows
    <3>1. RowsOf(s, d) =
            <<[kind |-> "provider_intent"], [kind |-> "provider_result", failure |-> d.outcome.failure]>>
             \o <<[kind |-> "engine_intent", action |-> d.outcome],
                  [kind |-> "engine_receipt", receipt |-> d.outcome.status]>>
             \o <<[kind |-> "decision_finished", decision |-> d, tick |-> time]>>
      BY <2>3, <2>4 DEF RowsOf
    <3>2. RowsOf(s, d) = <<IntentRow, ResultRow>> \o <<ActionRow, ReceiptRow>> \o <<FinalRow>>
      BY <1>1, <2>1, <3>1 DEF IntentRow, ResultRow, ActionRow, ReceiptRow, FinalRow, d, o
    <3>3. turn.receipt # NoReceipt
      BY <1>7, <2>1
    <3>4. TurnRows = Append(<<IntentRow, ResultRow, ActionRow, ReceiptRow>>, FinalRow)
      BY <3>3 DEF TurnRows, AnsweredRows
    <3>. QED  BY <3>2, <3>4
  <2>. QED  BY <1>4, <2>4, <2>5, <2>6, <2>7, <2>8 DEF d
<1>. QED  BY <1>6, <1>9, <1>10, <1>11
-----------------------------------------------------------------------------
(* A record without failures of the system is repeated.                    *)

\* A trial that has broken off does not go on, and a decision once made is not
\* taken back.
LEMMA StillRepeatable ==
    ASSUME IInv, [Next]_vars, Unbroken', AllRepeatable'
    PROVE  /\ Unbroken /\ AllRepeatable
           /\ ~Conclude => UNCHANGED <<decisions, calls, failures>>
           /\ ~RecordFails /\ ~WriteSnapshotFails /\ ~Crash
<1>1. ~RecordFails /\ ~WriteSnapshotFails /\ ~Crash
  BY DEF RecordFails, WriteSnapshotFails, Crash, Unbroken
<1>2. ~Conclude => UNCHANGED <<decisions, calls, failures>>
  BY <1>1 DEF Next, Runner, Record, Leave, BeginTurn, Send, Parse, Submit, Engine, EngineFails,
              Seal, WriteSnapshot, WallPasses, vars, loop
<1>3. Unbroken
  BY <1>1 DEF Next, Runner, Record, Leave, BeginTurn, Send, Parse, Submit, Engine, EngineFails,
              Conclude, Seal, WriteSnapshot, WallPasses, vars, Unbroken, Kinds, Ended
<1>4. AllRepeatable
  <2>1. CASE ~Conclude
    BY <1>2, <2>1 DEF AllRepeatable
  <2>2. CASE Conclude
    <3>1. decisions \in Seq(Decisions) /\ decisions' = Append(decisions, Decision)
      BY <2>2 DEF Conclude, IInv, TypeOK
    <3>2. DOMAIN decisions \subseteq DOMAIN decisions'
          /\ \A i \in DOMAIN decisions : decisions'[i] = decisions[i]
      BY <3>1
    <3>. QED  BY <3>2 DEF AllRepeatable, Repeatable
  <2>. QED  BY <2>1, <2>2
<1>. QED  BY <1>1, <1>2, <1>3, <1>4

\* Writing a row writes the one that the reconstruction has next.
LEMMA RowsRecorded ==
    ASSUME IInv, TurnKnown, RowsInv, Record, NEW R, R = Replay, R = Replay'
    PROVE  RowsInv'
<1>. DEFINE J == R.journal
<1>1. /\ pc \in Kinds /\ pc' = After[pc] /\ journal' = Append(journal, Row)
      /\ UNCHANGED <<time, before, turn, data, decisions>>
  BY DEF Record, loop
<1>2. J \in Seq(Rows) /\ TypeOK /\ Row \in Rows
  BY <1>1, Written DEF IInv, RowsInv
<1>3. /\ IntentRow' = IntentRow /\ ResultRow' = ResultRow /\ ActionRow' = ActionRow
      /\ ReceiptRow' = ReceiptRow /\ FinalRow' = FinalRow /\ (Regular' <=> Regular)
      /\ AnsweredRows' = AnsweredRows
  BY <1>1 DEF IntentRow, ResultRow, ActionRow, ReceiptRow, FinalRow, Decision, Failure, Regular,
              AnsweredRows
<1>4. TurnRows \in Seq(Rows) /\ IntentRow \in Rows /\ ResultRow \in Rows /\ ActionRow \in Rows
      /\ ReceiptRow \in Rows /\ FinalRow \in Rows
  BY <1>2, RowTypes
<1>. HIDE DEF J
<1>5. CASE pc = "trial_started"
  <2>1. pc' = "head" /\ journal = <<>> /\ decisions = <<>> /\ Row = [kind |-> "trial_started"]
    BY <1>1, <1>2, <1>5, RowIs DEF After, RowsInv
  <2>2. R = Begun
    BY <2>1, FoldEmpty DEF Replay
  <2>3. journal' = <<[kind |-> "trial_started"]>>
    BY <1>1, <1>2, <2>1
  <2>4. journal' = J
    BY <2>2, <2>3 DEF Begun, J
  <2>. QED  BY <1>2, <2>1, <2>4 DEF RowsInv, J, MidTurn, BeforeEngine, Closing
<1>6. CASE pc = "trial_finished"
  <2>1. pc' = "snapshot" /\ journal = J /\ Row = [kind |-> "trial_finished", record |-> data]
    BY <1>1, <1>2, <1>6, RowIs DEF After, RowsInv, J
  <2>2. journal' = J \o <<Row>>
    BY <1>1, <1>2, <2>1, Concatenated
  <2>3. journal' = J \o <<[kind |-> "trial_finished", record |-> data']>>
    BY <1>1, <2>1, <2>2
  <2>. QED  BY <1>2, <2>1, <2>3 DEF RowsInv, J, MidTurn, BeforeEngine, Closing
<1>7. CASE pc \in Kinds \ {"trial_started", "trial_finished"}
  <2>1. pc \in MidTurn /\ pc' \in MidTurn
    BY <1>1, <1>7 DEF Kinds, After, MidTurn, BeforeEngine, Closing
  <2>2. ASSUME Regular  PROVE journal' = J \o TurnRows'
    <3>1. journal = J \o TurnRows /\ pc \notin {"observation_error", "engine_error"}
      BY <1>1, <2>1, <2>2 DEF RowsInv, J, IInv, TurnInv, Regular
    <3>2. journal' = J \o Append(TurnRows, Row)
      BY <1>1, <1>2, <1>4, <3>1, Concatenated
    <3>3. TurnRows' = Append(TurnRows, Row)
      <4>1. CASE pc = "provider_intent"
        BY <1>1, <1>2, <1>3, <4>1, RowIs DEF TurnRows, After
      <4>2. CASE pc = "provider_result"
        BY <1>1, <1>2, <1>3, <4>2, RowIs DEF TurnRows, After
      <4>3. CASE pc = "engine_intent"
        BY <1>1, <1>2, <1>3, <4>3, RowIs DEF TurnRows, After
      <4>4. CASE pc = "engine_receipt"
        <5>1. turn.receipt # NoReceipt
          <6>1. turn.receipt = turn.outcome.status /\ turn.outcome \in Outcomes
            BY <4>4 DEF TurnKnown
          <6>. QED  BY <6>1, OutcomeIs
        <5>. QED  BY <1>1, <1>2, <1>3, <4>4, <5>1, RowIs DEF TurnRows, After, AnsweredRows
      <4>5. CASE pc = "decision_finished"
        BY <1>1, <1>2, <1>3, <4>5, RowIs DEF TurnRows, After
      <4>. QED  BY <1>7, <3>1, <4>1, <4>2, <4>3, <4>4, <4>5 DEF Kinds
    <3>. QED  BY <3>2, <3>3
  <2>. QED
    BY <1>2, <1>3, <2>1, <2>2 DEF RowsInv, J, MidTurn, BeforeEngine, Closing
<1>. QED  BY <1>1, <1>5, <1>6, <1>7 DEF Kinds

\* Within a turn, a step that writes nothing leaves the rows of the turn.
LEMMA RowsTurned ==
    ASSUME IInv, TurnKnown, RowsInv, Send \/ Parse \/ Submit \/ Engine \/ EngineFails,
           NEW R, R = Replay, R = Replay'
    PROVE  RowsInv' /\ pc \in MidTurn /\ pc' \in MidTurn /\ before' = before
<1>. DEFINE J == R.journal
<1>1. UNCHANGED <<journal, before, decisions>>
  BY DEF Send, Parse, Submit, Engine, EngineFails, disk, loop
<1>2. J \in Seq(Rows) /\ TypeOK /\ TurnInv /\ turn \in TurnType
  BY DEF IInv, TypeOK, TurnType, RowsInv
<1>. HIDE DEF J
<1>3. pc \in MidTurn /\ pc' \in MidTurn
  BY DEF Send, Parse, Submit, Engine, EngineFails, MidTurn, BeforeEngine, Closing
<1>4. ASSUME Regular'  PROVE Regular /\ TurnRows' = TurnRows
  <2>1. CASE Send
    <3>1. pc = "send" /\ pc' = "provider_result" /\ turn.failure_code = NoFailure
      BY <1>2, <2>1 DEF Send, TurnInv
    <3>. QED  BY <3>1 DEF TurnRows, Regular, NoFailure, IntentRow
  <2>2. CASE Parse
    <3>1. pc = "parse" /\ turn.failure_code = NoFailure /\ turn.receipt = NoReceipt
      BY <1>2, <2>2 DEF Parse, TurnInv, TurnKnown, BeforeEngine
    <3>2. turn'.outcome = turn.outcome /\ turn'.receipt = NoReceipt
          /\ pc' \in {"decision_finished", "submit"}
      BY <1>2, <2>2, <3>1 DEF Parse, TurnType
    <3>3. IntentRow' = IntentRow /\ ResultRow' = ResultRow
      BY <3>2 DEF IntentRow, ResultRow
    <3>. QED  BY <3>1, <3>2, <3>3 DEF TurnRows, AnsweredRows, Regular, NoFailure
  <2>3. CASE Submit
    <3>1. pc = "submit" /\ turn.failure_code = NoFailure /\ turn.receipt = NoReceipt
      BY <1>2, <2>3 DEF Submit, TurnInv, TurnKnown, BeforeEngine
    <3>2. turn'.outcome = turn.outcome /\ turn'.receipt = NoReceipt
          /\ pc' \in {"decision_finished", "engine_intent"}
      BY <1>2, <2>3, <3>1 DEF Submit, TurnType
    <3>3. IntentRow' = IntentRow /\ ResultRow' = ResultRow
      BY <3>2 DEF IntentRow, ResultRow
    <3>. QED  BY <3>1, <3>2, <3>3 DEF TurnRows, AnsweredRows, Regular, NoFailure
  <2>4. CASE Engine
    <3>1. pc = "engine" /\ pc' = "engine_receipt" /\ turn.failure_code = NoFailure
          /\ turn'.outcome = turn.outcome
      BY <1>2, <2>4 DEF Engine, TurnInv, TurnType
    <3>2. IntentRow' = IntentRow /\ ResultRow' = ResultRow /\ ActionRow' = ActionRow
      BY <3>1 DEF IntentRow, ResultRow, ActionRow
    <3>. QED  BY <3>1, <3>2 DEF TurnRows, Regular, NoFailure
  <2>5. CASE EngineFails
    <3>1. pc = "engine" /\ turn.refusal = NoFailure
          /\ turn' = [turn EXCEPT !.failure_code = "SUBMISSION_ERROR"]
      BY <1>2, <2>5 DEF EngineFails, TurnInv
    <3>2. turn'.failure_code = "SUBMISSION_ERROR" /\ turn'.refusal = NoFailure
      BY <1>2, <3>1 DEF TurnType
    <3>. QED  BY <1>4, <3>2 DEF Regular
  <2>. QED  BY <2>1, <2>2, <2>3, <2>4, <2>5
<1>5. Regular' => journal' = J \o TurnRows'
  BY <1>1, <1>3, <1>4 DEF RowsInv, J
<1>6. RowsInv'
  BY <1>2, <1>3, <1>5 DEF RowsInv, J, MidTurn, BeforeEngine, Closing
<1>. QED  BY <1>1, <1>3, <1>6

\* The auditor's loop ends where the runner's did, but for the clock.
LEMMA LeftAgrees ==
    ASSUME IInv, ReplayInv, Leave, NEW R, R = Replay, R = Replay'
    PROVE  StopAgrees(StoppedBy, [stop_reason |-> stop, late |-> late])'
<1>1. /\ pc = "head" /\ R.stop = NoStop /\ R.time = time /\ R.calls = calls
      /\ R.decided = Len(decisions) /\ late' = late
      /\ stop' = IF time >= EndTick THEN "HORIZON" ELSE Bound
      /\ time >= EndTick \/ Bound # "NONE"
  BY DEF Leave, ReplayInv, MidTurn, BeforeEngine, Closing
<1>2. EndTick \in Nat /\ time \in 0..EndTick
  BY Numbers DEF IInv
<1>3. (time >= EndTick) <=> (time = EndTick)
  BY <1>2
<1>4. StoppedBy' = LoopStop(R)
  BY <1>1 DEF StoppedBy
<1>5. LoopStop(R) = IF time = EndTick THEN "HORIZON"
                    ELSE IF Len(decisions) >= MaxDecisions THEN "MAX_DECISIONS"
                    ELSE IF calls >= MaxCalls THEN "MAX_PROVIDER_CALLS" ELSE "WALL_TIMEOUT"
  BY <1>1 DEF LoopStop
<1>. QED  BY <1>1, <1>3, <1>4, <1>5 DEF StopAgrees, Bound

\* A repeatable decision takes the reconstruction one step further, to where
\* the trial is.
LEMMA RepeatConcluded ==
    ASSUME IInv, TurnKnown, ReplayInv, Conclude, AllRepeatable'
    PROVE  ReplayInv'
<1>. DEFINE R == Replay
            n == Len(decisions)
<1>1. /\ pc = "conclude" /\ decisions \in Seq(Decisions) /\ decisions' = Append(decisions, Decision)
      /\ Decision \in Decisions /\ n \in Nat
      /\ UNCHANGED <<journal, time, late>>
      /\ stop' = StopAfter(Stalled)
      /\ pc' = IF StopAfter(Stalled) = "NONE" THEN "head" ELSE "seal"
  BY DecisionTyped DEF Conclude, IInv, TypeOK, disk
<1>2. /\ R.ok = TRUE /\ R.time = before /\ R.calls = calls /\ R.decided = n
      /\ R.stop = NoStop /\ R.failures = failures /\ R.journal \in Seq(Rows)
      /\ Regular => journal = R.journal \o TurnRows
  BY <1>1 DEF ReplayInv, RowsInv, MidTurn, Closing
<1>3. Repeatable(Decision)
  <2>1. n + 1 \in DOMAIN decisions' /\ decisions'[n + 1] = Decision
    BY <1>1
  <2>2. Repeatable(decisions'[n + 1])
    BY <2>1 DEF AllRepeatable, Repeatable
  <2>. QED  BY <2>1, <2>2
<1>. HIDE DEF R, n
<1>4. PICK s : s = R
  OBVIOUS
<1>5. /\ Regular /\ Agrees(s, Decision) /\ TimeAfter(s, Decision) = time
      /\ StalledAfter(s, Decision) = Stalled /\ StopsAt(s, Decision) = StopAfter(Stalled)
      /\ RowsOf(s, Decision) = TurnRows
      /\ (StopAfter(Stalled) = "WALL_TIMEOUT" => late)
  BY <1>1, <1>2, <1>3, <1>4, DecidedAgrees DEF n
<1>6. PICK d : d = Decision
  OBVIOUS
<1>7. Replay' = Replayed(s, d)
  <2>1. PICK ds : ds = decisions
    OBVIOUS
  <2>2. FoldLeft(Replayed, Begun, Append(ds, d)) = Replayed(FoldLeft(Replayed, Begun, ds), d)
    BY <1>1, <1>6, <2>1, FoldAppended
  <2>. QED  BY <1>1, <1>4, <1>6, <2>1, <2>2 DEF Replay, R
<1>8. PICK q : q = Replay'
  OBVIOUS
<1>9. /\ q.ok = TRUE /\ q.stop = StopAfter(Stalled) /\ q.time = time /\ q.failures = Stalled
      /\ q.calls = calls + 1 /\ q.decided = n + 1 /\ q.journal = journal
  <2>1. /\ q.ok = (s.ok /\ Agrees(s, d)) /\ q.stop = StopsAt(s, d) /\ q.time = TimeAfter(s, d)
        /\ q.failures = StalledAfter(s, d) /\ q.calls = s.calls + 1 /\ q.decided = s.decided + 1
        /\ q.journal = s.journal \o RowsOf(s, d)
    BY <1>7, <1>8 DEF Replayed
  <2>2. q.journal = journal
    BY <1>2, <1>4, <1>5, <1>6, <2>1
  <2>3. q.ok = TRUE
    BY <1>2, <1>4, <1>5, <1>6, <2>1
  <2>. QED  BY <1>2, <1>4, <1>5, <1>6, <2>1, <2>2, <2>3
<1>10. Len(decisions') = n + 1 /\ calls' = calls + 1
  <2>1. turn.failure_code # "OBSERVATION_UNAVAILABLE"
    BY <1>5 DEF Regular
  <2>. QED  BY <1>1, <2>1 DEF Conclude, n
<1>11. StopAfter(Stalled) = "NONE" => failures' = Stalled
  <2>1. StopAfter(Stalled) = "NONE" => StopAfter(0) = "NONE"
    BY Numbers DEF StopAfter, IInv, NoFailure
  <2>. QED  BY <2>1 DEF Conclude
<1>12. pc' = "seal" => StopAgrees(StoppedBy, [stop_reason |-> stop, late |-> late])'
  <2>. SUFFICES ASSUME pc' = "seal"
                PROVE  StopAgrees(StoppedBy, [stop_reason |-> stop, late |-> late])'
    OBVIOUS
  <2>1. StopAfter(Stalled) # "NONE"
    BY <1>1
  <2>2. StoppedBy' = StopAfter(Stalled)
    BY <1>8, <1>9, <2>1 DEF StoppedBy, NoStop
  <2>. QED  BY <1>1, <1>5, <2>2 DEF StopAgrees
<1>13. RowsInv'
  BY <1>1, <1>2, <1>8, <1>9 DEF RowsInv, MidTurn, BeforeEngine, Closing, IInv, TypeOK
<1>. QED
  BY <1>1, <1>8, <1>9, <1>10, <1>11, <1>12, <1>13
  DEF ReplayInv, MidTurn, BeforeEngine, Closing, Finished, NoStop

LEMMA RepeatStepwise ==
    IInv /\ LinkInv /\ TurnKnown /\ RepeatInv /\ [Next]_vars => RepeatInv'
<1>. SUFFICES ASSUME IInv, LinkInv, TurnKnown, RepeatInv, [Next]_vars, Unbroken', AllRepeatable'
              PROVE  ReplayInv'
  BY DEF RepeatInv
<1>1. /\ Unbroken /\ AllRepeatable /\ ~RecordFails /\ ~WriteSnapshotFails /\ ~Crash
      /\ ~Conclude => UNCHANGED <<decisions, calls, failures>>
  BY StillRepeatable
<1>2. ReplayInv
  BY <1>1 DEF RepeatInv
<1>3. PICK R : R = Replay
  OBVIOUS
<1>4. ~Conclude => R = Replay'
  BY <1>1, <1>3 DEF Replay
<1>5. R.ok = TRUE /\ R.calls = calls /\ R.decided = Len(decisions) /\ RowsInv
      /\ R.journal \in Seq(Rows)
  BY <1>2, <1>3 DEF ReplayInv, RowsInv
<1>. USE DEF MidTurn, BeforeEngine, Closing, Finished
<1>6. CASE Conclude
  BY <1>2, <1>6, RepeatConcluded
<1>7. CASE Record
  <2>1. ~Conclude
    BY <1>7 DEF Record, Conclude, Kinds
  <2>2. RowsInv'
    BY <1>3, <1>4, <1>5, <1>7, <2>1, RowsRecorded
  <2>3. /\ pc \in Kinds /\ pc' = After[pc] /\ UNCHANGED <<time, before, data, late>>
    BY <1>7 DEF Record
  <2>4. R.time = (IF pc' \in MidTurn THEN before' ELSE time')
    <3>1. R.time = (IF pc \in MidTurn THEN before ELSE time)
      BY <1>2, <1>3 DEF ReplayInv
    <3>. QED  BY <2>3, <3>1 DEF Kinds, After
  <2>5. /\ pc' \in {"trial_started", "head"} \union MidTurn => pc \in {"trial_started", "head"} \union MidTurn
        /\ pc' # "seal"
        /\ pc' \in Finished => pc \in Finished
    BY <2>3 DEF Kinds, After
  <2>6. StoppedBy' = StoppedBy
    BY <1>3, <1>4, <2>1 DEF StoppedBy
  <2>7. pc' \in Finished => StopAgrees(StoppedBy', data')
    BY <1>2, <2>3, <2>5, <2>6 DEF ReplayInv
  <2>. QED  BY <1>1, <1>2, <1>3, <1>4, <1>5, <2>1, <2>2, <2>4, <2>5, <2>7 DEF ReplayInv
<1>8. CASE Send \/ Parse \/ Submit \/ Engine \/ EngineFails
  <2>1. ~Conclude
    BY <1>8 DEF Send, Parse, Submit, Engine, EngineFails, Conclude
  <2>2. RowsInv' /\ pc \in MidTurn /\ pc' \in MidTurn /\ before' = before
    BY <1>3, <1>4, <1>5, <1>8, <2>1, RowsTurned
  <2>. QED  BY <1>1, <1>2, <1>3, <1>4, <1>5, <2>1, <2>2 DEF ReplayInv
<1>9. CASE BeginTurn
  <2>1. ~Conclude /\ pc = "head" /\ pc' \in {"observation_error", "provider_intent"} /\ before' = time
        /\ UNCHANGED <<time, journal, data>>
    BY <1>9 DEF BeginTurn, Conclude, disk
  <2>2. pc' = "provider_intent" \/ ~Regular'
    BY <1>9 DEF BeginTurn, Regular, NoTurn
  <2>3. journal' = R.journal
    BY <1>3, <1>5, <2>1 DEF RowsInv
  <2>4. RowsInv'
    <3>1. Regular' => journal' = R.journal \o TurnRows'
      BY <1>5, <2>2, <2>3, Concatenated DEF TurnRows
    <3>. QED  BY <1>3, <1>4, <1>5, <2>1, <2>3, <3>1 DEF RowsInv
  <2>. QED  BY <1>1, <1>2, <1>3, <1>4, <1>5, <2>1, <2>4 DEF ReplayInv
<1>10. CASE Leave
  <2>1. ~Conclude /\ pc = "head" /\ pc' = "seal" /\ UNCHANGED <<time, journal, late>>
    BY <1>10 DEF Leave, Conclude, disk
  <2>2. StopAgrees(StoppedBy, [stop_reason |-> stop, late |-> late])'
    BY <1>2, <1>3, <1>4, <1>10, <2>1, LeftAgrees
  <2>3. RowsInv'
    BY <1>3, <1>4, <1>5, <2>1 DEF RowsInv
  <2>. QED  BY <1>1, <1>2, <1>3, <1>4, <1>5, <2>1, <2>2, <2>3 DEF ReplayInv
<1>11. CASE Seal
  <2>1. /\ ~Conclude /\ pc = "seal" /\ pc' = "trial_finished" /\ UNCHANGED <<time, journal>>
        /\ data'.stop_reason = stop /\ data'.late = late
    BY <1>11 DEF Seal, Conclude, disk
  <2>2. StoppedBy' = StoppedBy
    BY <1>3, <1>4, <2>1 DEF StoppedBy
  <2>3. StopAgrees(StoppedBy', data')
    BY <1>2, <2>1, <2>2 DEF ReplayInv, StopAgrees
  <2>4. RowsInv'
    BY <1>3, <1>4, <1>5, <2>1 DEF RowsInv
  <2>. QED  BY <1>1, <1>2, <1>3, <1>4, <1>5, <2>1, <2>3, <2>4 DEF ReplayInv
<1>12. CASE WriteSnapshot
  <2>1. ~Conclude /\ pc = "snapshot" /\ pc' = "done" /\ UNCHANGED <<time, journal, data>>
    BY <1>12 DEF WriteSnapshot, Conclude
  <2>2. StoppedBy' = StoppedBy
    BY <1>3, <1>4, <2>1 DEF StoppedBy
  <2>3. RowsInv'
    BY <1>3, <1>4, <1>5, <2>1 DEF RowsInv
  <2>. QED  BY <1>1, <1>2, <1>3, <1>4, <1>5, <2>1, <2>2, <2>3 DEF ReplayInv
<1>13. CASE WallPasses \/ UNCHANGED vars
  <2>1. UNCHANGED <<time, before, journal, data, turn, pc, stop, decisions, calls, failures>>
        /\ (late => late')
    BY <1>13 DEF WallPasses, vars, disk, loop
  <2>2. StoppedBy' = StoppedBy /\ R = Replay'
    BY <1>3, <2>1 DEF StoppedBy, Replay
  <2>3. TurnRows' = TurnRows /\ (Regular' <=> Regular)
    BY <2>1 DEF TurnRows, Regular, AnsweredRows, IntentRow, ResultRow, ActionRow, ReceiptRow, FinalRow,
                Decision, Failure
  <2>4. RowsInv'
    BY <1>3, <1>5, <2>1, <2>2, <2>3 DEF RowsInv
  <2>5. pc' = "seal" => StopAgrees(StoppedBy, [stop_reason |-> stop, late |-> late])'
    BY <1>2, <2>1, <2>2 DEF ReplayInv, StopAgrees
  <2>. QED  BY <1>2, <1>3, <2>1, <2>2, <2>4, <2>5 DEF ReplayInv
<1>. QED
  BY <1>1, <1>6, <1>7, <1>8, <1>9, <1>10, <1>11, <1>12, <1>13 DEF Next, Runner

\* All of it together is inductive.
RecordInv == IInv /\ LinkInv /\ TurnKnown /\ RecordedInv /\ RepeatInv

LEMMA RecordInitially == Init => RecordInv
<1>. SUFFICES ASSUME Init  PROVE RecordInv
  OBVIOUS
<1>1. IInv
  BY Initially
<1>2. LinkInv /\ TurnKnown /\ RecordedInv
  BY DEF Init, LinkInv, TurnKnown, RecordedInv, BeforeEngine, Closing, Finished, Missing
<1>3. Replay = Begun
  BY FoldEmpty DEF Init, Replay
<1>4. Begun.journal \in Seq(Rows)
  BY DEF Begun, Rows
<1>5. RepeatInv
  BY <1>3, <1>4 DEF Init, RepeatInv, ReplayInv, RowsInv, MidTurn, BeforeEngine, Closing, Finished, Begun
<1>. QED  BY <1>1, <1>2, <1>5 DEF RecordInv

LEMMA RecordAlways == Spec => []RecordInv
<1>1. RecordInv /\ [Next]_vars => RecordInv'
  BY Stepwise, LinkStepwise, KnownStepwise, RecordedStepwise, RepeatStepwise DEF RecordInv
<1>. QED  BY <1>1, RecordInitially, PTL DEF Spec

\* The audit repeats a finished trial: played through an engine of its own, the
\* exported record comes to the rows, the time and the stop reason that the
\* runner left, though the runner decided from live state with several stop
\* conditions true at once.
THEOREM AuditRepeats == Spec => []AuditAgrees
<1>1. RecordInv => AuditAgrees
  <2>. SUFFICES ASSUME RecordInv, pc = "done", AllRepeatable  PROVE Verified
    BY DEF AuditAgrees, AllRepeatable, Repeatable
  <2>1. ReplayInv /\ snapshot.status = "PRESENT" /\ snapshot.record = data /\ ~torn
    BY DEF RecordInv, RepeatInv, Unbroken, LinkInv
  <2>2. data.decisions = decisions /\ data.simulation_end = time
    BY <2>1 DEF RecordInv, RecordedInv
  <2>3. /\ Replay.ok /\ Replay.time = time /\ StopAgrees(StoppedBy, data)
        /\ journal = Replay.journal \o <<[kind |-> "trial_finished", record |-> data]>>
    BY <2>1 DEF ReplayInv, RowsInv, MidTurn, BeforeEngine, Closing, Finished
  <2>4. FoldLeft(Replayed, Begun, data.decisions) = Replay
    BY <2>2 DEF Replay
  <2>5. Reconstructs(data, journal)
    BY <2>2, <2>3, <2>4 DEF Reconstructs, StoppedBy
  <2>. QED  BY <2>1, <2>5 DEF Verified
<1>. QED  BY <1>1, RecordAlways, PTL
-----------------------------------------------------------------------------
(* What the decisions count, and what went out.                            *)

\* How many elements of a sequence are in a set.
HowMany(s, X) == Cardinality({i \in DOMAIN s : s[i] \in X})

\* It is one more when one is appended.
LEMMA OneMore ==
    ASSUME NEW s \in Seq(Decisions), NEW e \in Decisions, NEW X
    PROVE  /\ HowMany(s, X) \in Nat
           /\ HowMany(Append(s, e), X) = IF e \in X THEN HowMany(s, X) + 1 ELSE HowMany(s, X)
<1>. DEFINE n == Len(s)
            t == Append(s, e)
            U == {i \in DOMAIN s : s[i] \in X}
            V == {i \in DOMAIN t : t[i] \in X}
<1>1. /\ n \in Nat /\ DOMAIN s = 1..n /\ DOMAIN t = 1..(n + 1)
      /\ t[n + 1] = e /\ \A i \in 1..n : t[i] = s[i]
  OBVIOUS
<1>2. IsFiniteSet(U) /\ n + 1 \notin U
  <2>1. IsFiniteSet(1..n)
    BY <1>1, FS_Interval
  <2>. QED  BY <1>1, <2>1, FS_Subset
<1>3. Cardinality(U) \in Nat
  BY <1>2, FS_CardinalityType
<1>4. e \in X => Cardinality(V) = Cardinality(U) + 1
  <2>. SUFFICES ASSUME e \in X  PROVE Cardinality(V) = Cardinality(U) + 1
    OBVIOUS
  <2>1. V = U \union {n + 1}
    BY <1>1
  <2>. QED  BY <1>2, <2>1, FS_AddElement
<1>5. e \notin X => V = U
  BY <1>1
<1>6. HowMany(s, X) = Cardinality(U) /\ HowMany(t, X) = Cardinality(V)
  BY DEF HowMany
<1>. HIDE DEF U, V, t
<1>7. HowMany(s, X) \in Nat /\ HowMany(t, X) = IF e \in X THEN HowMany(s, X) + 1 ELSE HowMany(s, X)
  BY <1>3, <1>4, <1>5, <1>6
<1>. QED  BY <1>7 DEF t

\* What a decision adds to the counts of a record.
LEMMA RecordGrows ==
    ASSUME NEW s \in Seq(Decisions), NEW d \in Decisions, NEW t, t = Append(s, d)
    PROVE  /\ Asks(s) \in Nat /\ Asks(t) = IF Asked(d) THEN Asks(s) + 1 ELSE Asks(s)
           /\ Acts(s) \in Nat /\ Acts(t) = IF Acted(d) THEN Acts(s) + 1 ELSE Acts(s)
           /\ Responds(t) <=> Responds(s) \/ Responded(d)
<1>. DEFINE X == {e \in Decisions : Asked(e)}
            Y == {e \in Decisions : Acted(e)}
<1>1. t \in Seq(Decisions)
  OBVIOUS
<1>2. \A i \in DOMAIN t : t[i] \in Decisions
  BY <1>1
<1>3. Asks(s) = HowMany(s, X) /\ Acts(s) = HowMany(s, Y)
  <2>1. /\ {i \in DOMAIN s : Asked(s[i])} = {i \in DOMAIN s : s[i] \in X}
        /\ {i \in DOMAIN s : Acted(s[i])} = {i \in DOMAIN s : s[i] \in Y}
    OBVIOUS
  <2>. QED  BY <2>1 DEF HowMany, Asks, Acts
<1>4. Asks(t) = HowMany(t, X) /\ Acts(t) = HowMany(t, Y)
  <2>1. /\ {i \in DOMAIN t : Asked(t[i])} = {i \in DOMAIN t : t[i] \in X}
        /\ {i \in DOMAIN t : Acted(t[i])} = {i \in DOMAIN t : t[i] \in Y}
    BY <1>2
  <2>. QED  BY <2>1 DEF HowMany, Asks, Acts
<1>. HIDE DEF X, Y
<1>5. \A Z : /\ HowMany(s, Z) \in Nat
             /\ HowMany(Append(s, d), Z) = IF d \in Z THEN HowMany(s, Z) + 1 ELSE HowMany(s, Z)
  BY OneMore
<1>6. (d \in X <=> Asked(d)) /\ (d \in Y <=> Acted(d))
  BY DEF X, Y
<1>7. Responds(t) <=> Responds(s) \/ Responded(d)
  <2>1. /\ Len(s) \in Nat /\ DOMAIN s = 1..Len(s) /\ DOMAIN t = 1..(Len(s) + 1)
        /\ t[Len(s) + 1] = d /\ \A i \in 1..Len(s) : t[i] = s[i]
    OBVIOUS
  <2>. QED  BY <2>1 DEF Responds
<1>. QED  BY <1>3, <1>4, <1>5, <1>6, <1>7

\* A count is a number.
LEMMA CountsAreNat ==
    ASSUME NEW s \in Seq(Decisions)
    PROVE  Asks(s) \in Nat /\ Acts(s) \in Nat
<1>1. IsFiniteSet(DOMAIN s)
  <2>1. DOMAIN s = 1..Len(s) /\ Len(s) \in Nat
    OBVIOUS
  <2>. QED  BY <2>1, FS_Interval
<1>2. IsFiniteSet({i \in DOMAIN s : Asked(s[i])}) /\ IsFiniteSet({i \in DOMAIN s : Acted(s[i])})
  BY <1>1, FS_Subset
<1>. QED  BY <1>2, FS_CardinalityType DEF Asks, Acts

\* What the decision in progress counts for.
LEMMA DecisionCounts ==
    ASSUME TypeOK
    PROVE  /\ Asked(Decision) <=> turn.outcome # NoOutcome
           /\ Acted(Decision) <=> \/ turn.receipt # NoReceipt
                                  \/ turn.failure_code = "SUBMISSION_ERROR" /\ turn.refusal = NoFailure
           /\ Responded(Decision) <=>
                turn.outcome.failure \notin {"OBSERVATION_UNAVAILABLE", "INFRASTRUCTURE_FAILURE"}
<1>1. turn.outcome.failure # "ENGINE_ERROR"
  BY DecisionTyped DEF Results, Transported, Behavioural, NoFailure
<1>2. Decision.outcome = turn.outcome /\ Decision.failure = Failure /\ Decision.receipt = turn.receipt
  BY DEF Decision
<1>. QED  BY <1>1, <1>2 DEF Asked, Acted, Responded, Failure

\* A result that is appended answers, when it does.
LEMMA AnswerAppended ==
    ASSUME TypeOK, pc \in Kinds, journal' = Append(journal, Row)
    PROVE  Answered' <=> \/ Answered
                         \/ pc = "provider_result" /\ turn.outcome.failure # "INFRASTRUCTURE_FAILURE"
<1>1. journal \in Seq(Rows) /\ Row \in Rows /\ Row.kind = pc
  BY Written DEF TypeOK
<1>2. /\ Len(journal) \in Nat /\ DOMAIN journal = 1..Len(journal)
      /\ DOMAIN journal' = 1..(Len(journal) + 1) /\ journal'[Len(journal) + 1] = Row
      /\ \A i \in 1..Len(journal) : journal'[i] = journal[i]
  BY <1>1
<1>3. pc = "provider_result" => Row.failure = turn.outcome.failure
  BY DEF Row
<1>. QED  BY <1>1, <1>2, <1>3 DEF Answered

\* A trial with a snapshot was not broken off before it was sealed.
LEMMA StillWhole ==
    ASSUME LinkInv, [Next]_vars, Whole'
    PROVE  /\ Whole /\ ~RecordFails
           /\ WriteSnapshotFails \/ Crash => pc = "snapshot"
<1>1. ~RecordFails
  <2>. SUFFICES ASSUME RecordFails  PROVE FALSE
    OBVIOUS
  <2>1. pc \in Kinds /\ snapshot' = snapshot /\ pc' = "raised"
    BY DEF RecordFails
  <2>. QED  BY <2>1 DEF Kinds, LinkInv, Ended, Whole, Unbroken
<1>2. WriteSnapshotFails \/ Crash => pc = "snapshot"
  <2>1. WriteSnapshotFails => pc = "snapshot"
    BY DEF WriteSnapshotFails
  <2>2. ASSUME Crash, pc # "snapshot"  PROVE FALSE
    <3>1. ~Ended /\ snapshot' = snapshot /\ pc' = "crashed"
      BY <2>2 DEF Crash
    <3>. QED  BY <3>1 DEF LinkInv, Whole, Unbroken
  <2>. QED  BY <2>1, <2>2
<1>3. Whole
  <2>1. CASE WriteSnapshotFails \/ Crash
    BY <1>2, <2>1 DEF Whole, Unbroken
  <2>2. CASE ~(WriteSnapshotFails \/ Crash)
    BY <1>1, <2>2 DEF Next, Runner, Record, Leave, BeginTurn, Send, Parse, Submit, Engine, EngineFails,
              Conclude, Seal, WriteSnapshot, WallPasses, vars, disk, Whole, Unbroken, Kinds, Ended
  <2>. QED  BY <2>1, <2>2
<1>. QED  BY <1>1, <1>2, <1>3

LEMMA GhostStepwise == IInv /\ LinkInv /\ TurnKnown /\ GhostInv /\ [Next]_vars => GhostInv'
<1>. SUFFICES ASSUME IInv, LinkInv, TurnKnown, GhostInv, [Next]_vars, Whole'
              PROVE  /\ sent' = Asks(decisions)' + IF (pc \in MidTurn /\ Asked(Decision))' THEN 1 ELSE 0
                     /\ entered' = Acts(decisions)' + IF (pc \in MidTurn /\ Acted(Decision))' THEN 1 ELSE 0
                     /\ Answered' <=>
                          \/ Responds(decisions)'
                          \/ (pc \in MidTurn \ {"provider_result"} /\ Responded(Decision))'
  BY DEF GhostInv
<1>1. Whole /\ ~RecordFails /\ (WriteSnapshotFails \/ Crash => pc = "snapshot")
  BY StillWhole
<1>2. /\ sent = Asks(decisions) + IF pc \in MidTurn /\ Asked(Decision) THEN 1 ELSE 0
      /\ entered = Acts(decisions) + IF pc \in MidTurn /\ Acted(Decision) THEN 1 ELSE 0
      /\ Answered <=> \/ Responds(decisions)
                      \/ pc \in MidTurn \ {"provider_result"} /\ Responded(Decision)
  BY <1>1 DEF GhostInv
<1>3. TypeOK /\ TurnInv /\ turn \in TurnType
  BY DEF IInv, TypeOK, TurnType
<1>4. PICK ds \in Seq(Decisions) : ds = decisions
  BY <1>3 DEF TypeOK
<1>5. PICK d \in Decisions : d = Decision
  BY <1>3, DecisionTyped
<1>6. Asks(ds) \in Nat /\ Acts(ds) \in Nat
  BY CountsAreNat
<1>7. decisions' = decisions =>
        Asks(decisions)' = Asks(ds) /\ Acts(decisions)' = Acts(ds)
        /\ (Responds(decisions)' <=> Responds(ds))
  BY <1>4 DEF Asks, Acts, Responds, Asked, Acted, Responded
<1>8. /\ Asked(Decision) <=> turn.outcome # NoOutcome
      /\ Acted(Decision) <=> \/ turn.receipt # NoReceipt
                             \/ turn.failure_code = "SUBMISSION_ERROR" /\ turn.refusal = NoFailure
      /\ Responded(Decision) <=>
           turn.outcome.failure \notin {"OBSERVATION_UNAVAILABLE", "INFRASTRUCTURE_FAILURE"}
  BY <1>3, DecisionCounts
<1>9. TypeOK'
  BY Stepwise DEF IInv
<1>10. /\ Asked(Decision)' <=> turn'.outcome # NoOutcome
       /\ Acted(Decision)' <=> \/ turn'.receipt # NoReceipt
                               \/ turn'.failure_code = "SUBMISSION_ERROR" /\ turn'.refusal = NoFailure
       /\ Responded(Decision)' <=>
            turn'.outcome.failure \notin {"OBSERVATION_UNAVAILABLE", "INFRASTRUCTURE_FAILURE"}
  <2>1. turn'.outcome.failure # "ENGINE_ERROR"
    <3>1. turn'.outcome \in Answers
      BY <1>9 DEF TypeOK
    <3>2. turn'.outcome = NoOutcome \/ turn'.outcome \in Outcomes
      BY <3>1 DEF Answers
    <3>. QED  BY <3>2, OutcomeIs DEF NoOutcome, Transported, Behavioural, NoFailure
  <2>2. /\ Decision'.outcome = turn'.outcome /\ Decision'.receipt = turn'.receipt
        /\ Decision'.failure = Failure'
    BY DEF Decision
  <2>. QED  BY <2>1, <2>2 DEF Asked, Acted, Responded, Failure
<1>. USE DEF MidTurn, BeforeEngine, Closing
<1>11. CASE Record
  <2>1. /\ pc \in Kinds /\ pc' = After[pc] /\ journal' = Append(journal, Row)
        /\ UNCHANGED <<turn, decisions, sent, entered>>
    BY <1>11 DEF Record, loop, ghosts
  <2>2. Answered' <=> \/ Answered
                      \/ pc = "provider_result" /\ turn.outcome.failure # "INFRASTRUCTURE_FAILURE"
    BY <1>3, <2>1, AnswerAppended
  <2>3. pc \in MidTurn <=> pc' \in MidTurn
    BY <2>1 DEF Kinds, After
  <2>4. pc' = "provider_result" => FALSE
    BY <2>1 DEF Kinds, After
  <2>5. pc = "provider_result" => turn.outcome.failure # "OBSERVATION_UNAVAILABLE"
    <3>1. pc = "provider_result" => turn.outcome \in Outcomes
      BY DEF TurnKnown
    <3>. QED  BY <3>1, OutcomeIs DEF Transported, Behavioural, NoFailure
  <2>6. sent' = Asks(decisions)' + IF (pc \in MidTurn /\ Asked(Decision))' THEN 1 ELSE 0
    BY <1>2, <1>4, <1>7, <1>8, <1>10, <2>1, <2>3
  <2>7. entered' = Acts(decisions)' + IF (pc \in MidTurn /\ Acted(Decision))' THEN 1 ELSE 0
    BY <1>2, <1>4, <1>7, <1>8, <1>10, <2>1, <2>3
  <2>8. Answered' <=> \/ Responds(decisions)'
                      \/ (pc \in MidTurn \ {"provider_result"} /\ Responded(Decision))'
    BY <1>2, <1>4, <1>7, <1>8, <1>10, <2>1, <2>2, <2>3, <2>4, <2>5
  <2>. QED  BY <2>6, <2>7, <2>8
<1>12. CASE Conclude
  <2>1. /\ pc = "conclude" /\ pc' \in {"head", "seal"} /\ decisions' = Append(ds, d)
        /\ UNCHANGED <<journal, sent, entered>>
    BY <1>4, <1>5, <1>12 DEF Conclude, disk, ghosts
  <2>2. PICK t : t = Append(ds, d)
    OBVIOUS
  <2>3. /\ Asks(t) = IF Asked(d) THEN Asks(ds) + 1 ELSE Asks(ds)
        /\ Acts(t) = IF Acted(d) THEN Acts(ds) + 1 ELSE Acts(ds)
        /\ Responds(t) <=> Responds(ds) \/ Responded(d)
    BY <2>2, RecordGrows
  <2>4. Asks(decisions)' = Asks(t) /\ Acts(decisions)' = Acts(t)
        /\ (Responds(decisions)' <=> Responds(t))
    BY <2>1, <2>2 DEF Asks, Acts, Responds, Asked, Acted, Responded
  <2>5. Answered' <=> Answered
    BY <2>1 DEF Answered
  <2>. QED  BY <1>2, <1>4, <1>5, <1>6, <2>1, <2>3, <2>4, <2>5
<1>13. CASE Send
  <2>1. PICK o \in Outcomes : turn' = [turn EXCEPT !.outcome = o]
    BY <1>13 DEF Send
  <2>2. /\ pc = "send" /\ pc' = "provider_result" /\ sent' = sent + 1
        /\ UNCHANGED <<journal, decisions, entered>>
        /\ turn.outcome = NoOutcome /\ turn.receipt = NoReceipt /\ turn.failure_code = NoFailure
    BY <1>3, <1>13 DEF Send, disk, loop, TurnKnown, TurnInv
  <2>3. /\ turn'.outcome = o /\ turn'.receipt = NoReceipt /\ turn'.failure_code = NoFailure
        /\ o # NoOutcome
    BY <1>3, <2>1, <2>2, OutcomeIs DEF TurnType
  <2>4. Answered' <=> Answered
    BY <2>2 DEF Answered
  <2>. QED
    BY <1>2, <1>4, <1>6, <1>7, <1>8, <1>10, <2>2, <2>3, <2>4 DEF NoOutcome, NoFailure
<1>14. CASE Parse \/ Submit
  <2>1. /\ pc \in {"parse", "submit"} /\ pc' \in {"decision_finished", "submit", "engine_intent"}
        /\ UNCHANGED <<journal, decisions, sent, entered>>
        /\ turn.receipt = NoReceipt /\ turn.failure_code = NoFailure
    BY <1>3, <1>14 DEF Parse, Submit, disk, loop, ghosts, TurnKnown, TurnInv
  <2>2. /\ turn'.outcome = turn.outcome /\ turn'.receipt = NoReceipt
        /\ ~(turn'.failure_code = "SUBMISSION_ERROR" /\ turn'.refusal = NoFailure)
    BY <1>3, <1>14, <2>1 DEF Parse, Submit, TurnType, NoFailure
  <2>3. Answered' <=> Answered
    BY <2>1 DEF Answered
  <2>. QED
    BY <1>2, <1>4, <1>6, <1>7, <1>8, <1>10, <2>1, <2>2, <2>3 DEF NoFailure
<1>15. CASE Engine \/ EngineFails
  <2>1. /\ pc = "engine" /\ pc' \in {"engine_receipt", "engine_error"} /\ entered' = entered + 1
        /\ UNCHANGED <<journal, decisions, sent>>
        /\ turn.receipt = NoReceipt /\ turn.failure_code = NoFailure /\ turn.refusal = NoFailure
        /\ turn.outcome \in Outcomes
    BY <1>3, <1>15 DEF Engine, EngineFails, disk, loop, TurnKnown, TurnInv
  <2>2. turn.outcome.status # NoReceipt
    BY <2>1, OutcomeIs
  <2>3. /\ turn'.outcome = turn.outcome
        /\ \/ turn'.receipt # NoReceipt
           \/ (turn'.failure_code = "SUBMISSION_ERROR" /\ turn'.refusal = NoFailure)
    BY <1>3, <1>15, <2>1, <2>2 DEF Engine, EngineFails, TurnType
  <2>4. Answered' <=> Answered
    BY <2>1 DEF Answered
  <2>. QED
    BY <1>2, <1>4, <1>6, <1>7, <1>8, <1>10, <2>1, <2>3, <2>4 DEF NoFailure
<1>16. CASE BeginTurn
  <2>1. /\ pc = "head" /\ pc' \in {"observation_error", "provider_intent"}
        /\ UNCHANGED <<journal, decisions, sent, entered>>
        /\ turn'.outcome = NoOutcome /\ turn'.receipt = NoReceipt
        /\ turn'.failure_code # "SUBMISSION_ERROR"
    BY <1>16 DEF BeginTurn, disk, loop, ghosts, NoTurn, NoFailure
  <2>2. Answered' <=> Answered
    BY <2>1 DEF Answered
  <2>. QED
    BY <1>2, <1>4, <1>6, <1>7, <1>10, <2>1, <2>2 DEF NoOutcome
<1>17. CASE Leave \/ Seal \/ WriteSnapshot \/ WriteSnapshotFails \/ Crash
  <2>1. /\ pc \notin MidTurn /\ pc' \notin MidTurn /\ UNCHANGED <<journal, decisions, sent, entered>>
    BY <1>1, <1>17 DEF Leave, Seal, WriteSnapshot, WriteSnapshotFails, Crash, disk, loop, ghosts, Kinds
  <2>2. Answered' <=> Answered
    BY <2>1 DEF Answered
  <2>. QED  BY <1>2, <1>4, <1>6, <1>7, <2>1, <2>2
<1>18. CASE WallPasses \/ UNCHANGED vars
  <2>1. UNCHANGED <<journal, decisions, sent, entered, pc, turn>>
    BY <1>18 DEF WallPasses, vars, disk, loop, ghosts
  <2>2. Answered' <=> Answered
    BY <2>1 DEF Answered
  <2>. QED  BY <1>2, <1>4, <1>6, <1>7, <1>8, <1>10, <2>1, <2>2
<1>. QED
  BY <1>1, <1>11, <1>12, <1>13, <1>14, <1>15, <1>16, <1>17, <1>18 DEF Next, Runner

\* A reconstruction that is well at the end was well at every decision.
LEMMA FoldAgrees ==
    ASSUME NEW s \in Seq(Decisions), FoldLeft(Replayed, Begun, s).ok
    PROVE  \A i \in DOMAIN s : \E q : Agrees(q, s[i])
<1>. DEFINE n == Len(s)
<1>1. n \in Nat /\ DOMAIN s = 1..n
  OBVIOUS
<1>2. PICK r : Follows(r, s) /\ FoldLeft(Replayed, Begun, s) = r[n]
  BY FoldFollows
<1>. HIDE DEF n
<1>3. ASSUME NEW i \in 1..n  PROVE r[i].ok <=> r[i - 1].ok /\ Agrees(r[i - 1], s[i])
  <2>1. r[i] = Replayed(r[i - 1], s[i])
    BY <1>2 DEF Follows, n
  <2>2. PICK a, b, d : a = r[i - 1] /\ b = r[i] /\ d = s[i]
    OBVIOUS
  <2>3. b = Replayed(a, d)
    BY <2>1, <2>2
  <2>4. b.ok = (a.ok /\ Agrees(a, d))
    BY <2>3 DEF Replayed
  <2>5. b.ok <=> a.ok /\ Agrees(a, d)
    BY <2>4
  <2>. QED  BY <2>2, <2>5
<1>. DEFINE S == {k \in Nat : k <= n => r[n - k].ok}
<1>4. 0 \in S
  <2>1. n - 0 = n
    BY <1>1
  <2>. QED  BY <1>2, <2>1
<1>5. ASSUME NEW k \in Nat, k \in S  PROVE k + 1 \in S
  <2>1. CASE k + 1 <= n
    <3>1. n - k \in 1..n /\ (n - k) - 1 = n - (k + 1) /\ k <= n
      BY <1>1, <2>1
    <3>2. r[n - k].ok
      BY <1>5, <3>1
    <3>3. r[(n - k) - 1].ok
      BY <1>3, <3>1, <3>2
    <3>. QED  BY <3>1, <3>3
  <2>2. CASE ~(k + 1 <= n)
    BY <2>2
  <2>. QED  BY <2>1, <2>2
<1>. HIDE DEF S
<1>6. \A k \in Nat : k \in S
  BY <1>4, <1>5, EveryNatural
<1>7. ASSUME NEW i \in 1..n  PROVE Agrees(r[i - 1], s[i])
  <2>1. n - i \in Nat /\ n - i <= n /\ n - (n - i) = i
    BY <1>1
  <2>2. r[i].ok
    BY <1>6, <2>1 DEF S
  <2>. QED  BY <1>3, <2>2
<1>. QED  BY <1>1, <1>7

\* What the auditor agrees to was asked of the model, and failed in nothing
\* but the model.
LEMMA AgreedIs ==
    ASSUME NEW d \in Decisions, NEW q, Agrees(q, d)
    PROVE  /\ Asked(d)
           /\ d.failure \notin {"OBSERVATION_UNAVAILABLE", "ENGINE_ERROR"}
           /\ Acted(d) <=> d.receipt # NoReceipt
           /\ SystemFailure(d) <=> ~Responded(d)
<1>1. d.outcome # NoOutcome /\ d.failure = d.outcome.failure
  BY DEF Agrees
<1>2. d.outcome \in Outcomes
  BY <1>1 DEF Decisions, Answers
<1>3. d.failure \in Transported
  BY <1>1, <1>2, OutcomeIs
<1>4. d.failure \notin {"OBSERVATION_UNAVAILABLE", "ENGINE_ERROR"}
  BY <1>3 DEF Transported, Behavioural, NoFailure
<1>. QED  BY <1>1, <1>4 DEF Asked, Acted, SystemFailure, Responded

\* A verified record is the record of the trial, each of its decisions is agreed
\* to, and it counts what went out.
LEMMA VerifiedTells ==
    ASSUME RecordInv, GhostInv, Verified
    PROVE  /\ snapshot.record.decisions = decisions /\ snapshot.record.simulation_end = time
           /\ decisions \in Seq(Decisions)
           /\ \A i \in DOMAIN decisions : \E q : Agrees(q, decisions[i])
           /\ sent = Asks(decisions) /\ entered = Acts(decisions)
           /\ Answered <=> Responds(decisions)
<1>1. snapshot.status = "PRESENT" /\ FoldLeft(Replayed, Begun, snapshot.record.decisions).ok
  BY DEF Verified, Reconstructs
<1>2. Ended /\ snapshot.record = data
  BY <1>1 DEF RecordInv, LinkInv
<1>3. data.decisions = decisions /\ data.simulation_end = time
  BY <1>1 DEF RecordInv, RecordedInv
<1>4. decisions \in Seq(Decisions)
  BY DEF RecordInv, IInv, TypeOK
<1>5. \A i \in DOMAIN decisions : \E q : Agrees(q, decisions[i])
  BY <1>1, <1>2, <1>3, <1>4, FoldAgrees
<1>6. pc \notin MidTurn /\ Whole
  BY <1>1, <1>2 DEF Ended, MidTurn, BeforeEngine, Closing, Whole
<1>7. Asks(decisions) \in Nat /\ Acts(decisions) \in Nat
  BY <1>4, CountsAreNat
<1>8. sent = Asks(decisions) /\ entered = Acts(decisions) /\ (Answered <=> Responds(decisions))
  BY <1>6, <1>7 DEF GhostInv
<1>. QED  BY <1>2, <1>3, <1>4, <1>5, <1>8

\* When all were asked, as many were asked as there are.
LEMMA AllAsked ==
    ASSUME NEW s \in Seq(Decisions), \A i \in DOMAIN s : \E q : Agrees(q, s[i])
    PROVE  /\ Asks(s) = Len(s)
           /\ Acts(s) = Cardinality({i \in DOMAIN s : s[i].receipt # NoReceipt})
<1>1. Len(s) \in Nat /\ DOMAIN s = 1..Len(s) /\ \A i \in DOMAIN s : s[i] \in Decisions
  OBVIOUS
<1>2. \A i \in DOMAIN s : Asked(s[i]) /\ (Acted(s[i]) <=> s[i].receipt # NoReceipt)
  BY <1>1, AgreedIs
<1>3. {i \in DOMAIN s : Asked(s[i])} = 1..Len(s)
  BY <1>1, <1>2
<1>4. {i \in DOMAIN s : Acted(s[i])} = {i \in DOMAIN s : s[i].receipt # NoReceipt}
  BY <1>2
<1>5. Cardinality(1..Len(s)) = Len(s)
  <2>1. PICK n \in Nat : n = Len(s)
    BY <1>1
  <2>2. Cardinality(1..n) = IF 1 > n THEN 0 ELSE n - 1 + 1
    BY FS_Interval
  <2>3. Cardinality(1..n) = n
    BY <2>2
  <2>. QED  BY <2>1, <2>3
<1>6. Asks(s) = Len(s)
  BY <1>3, <1>5 DEF Asks
<1>. QED  BY <1>4, <1>6 DEF Acts

\* What is inductive of the record and of what went out together.
LEMMA GhostAlways == Spec => [](RecordInv /\ GhostInv)
<1>1. Init => GhostInv
  <2>. SUFFICES ASSUME Init  PROVE GhostInv
    OBVIOUS
  <2>1. decisions = <<>> /\ journal = <<>> /\ sent = 0 /\ entered = 0 /\ pc = "trial_started"
    BY DEF Init
  <2>2. {i \in DOMAIN decisions : Asked(decisions[i])} = {}
        /\ {i \in DOMAIN decisions : Acted(decisions[i])} = {}
    BY <2>1
  <2>3. Asks(decisions) = 0 /\ Acts(decisions) = 0
    BY <2>2, FS_EmptySet DEF Asks, Acts
  <2>4. ~Answered /\ ~Responds(decisions)
    BY <2>1 DEF Answered, Responds
  <2>. QED  BY <2>1, <2>3, <2>4 DEF GhostInv, MidTurn, BeforeEngine, Closing
<1>2. RecordInv /\ GhostInv /\ [Next]_vars => GhostInv'
  BY GhostStepwise DEF RecordInv
<1>. QED  BY <1>1, <1>2, RecordAlways, PTL DEF Spec

\* What is verified is all that happened, and no evidence of what failed is lost:
\* as many requests went out as the record has decisions, as many actions were
\* executed as it has receipts.
THEOREM EvidenceWhole == Spec => []EvidenceIsWhole
<1>1. RecordInv /\ GhostInv => VerifiedIsAll
  <2>. SUFFICES ASSUME RecordInv, GhostInv, Verified
                PROVE  LET recorded == snapshot.record.decisions IN
                       /\ recorded = decisions
                       /\ sent = Len(recorded)
                       /\ entered = Cardinality({i \in DOMAIN recorded : recorded[i].receipt # NoReceipt})
                       /\ snapshot.record.simulation_end = time
                       /\ \A i \in DOMAIN recorded :
                           recorded[i].failure \notin {"OBSERVATION_UNAVAILABLE", "ENGINE_ERROR"}
    BY DEF VerifiedIsAll
  <2>1. /\ snapshot.record.decisions = decisions /\ snapshot.record.simulation_end = time
        /\ decisions \in Seq(Decisions)
        /\ \A i \in DOMAIN decisions : \E q : Agrees(q, decisions[i])
        /\ sent = Asks(decisions) /\ entered = Acts(decisions)
    BY VerifiedTells
  <2>2. /\ sent = Len(decisions)
        /\ entered = Cardinality({i \in DOMAIN decisions : decisions[i].receipt # NoReceipt})
    BY <2>1, AllAsked
  <2>3. \A i \in DOMAIN decisions :
            decisions[i].failure \notin {"OBSERVATION_UNAVAILABLE", "ENGINE_ERROR"}
    <3>1. \A i \in DOMAIN decisions : decisions[i] \in Decisions
      BY <2>1
    <3>. QED  BY <2>1, <3>1, AgreedIs
  <2>. QED  BY <2>1, <2>2, <2>3
<1>. QED  BY <1>1, GhostAlways, EvidenceIsKept, PTL DEF EvidenceIsWhole

\* A trial that has been answered, if only once and if only by a refusal, stays in
\* the denominator, whatever failed after; only those leave it that asked and
\* were never answered.
THEOREM AnsweredCount == Spec => []DenominatorKeepsAnswered
<1>1. RecordInv /\ GhostInv => DenominatorKeepsAnswered
  <2>. SUFFICES ASSUME RecordInv, GhostInv, Verified
                PROVE  InDenominator(snapshot.record) = (Answered \/ sent = 0)
    BY DEF DenominatorKeepsAnswered
  <2>1. /\ snapshot.record.decisions = decisions /\ decisions \in Seq(Decisions)
        /\ \A i \in DOMAIN decisions : \E q : Agrees(q, decisions[i])
        /\ sent = Asks(decisions) /\ (Answered <=> Responds(decisions))
    BY VerifiedTells
  <2>2. sent = Len(decisions) /\ Len(decisions) \in Nat /\ DOMAIN decisions = 1..Len(decisions)
        /\ \A i \in DOMAIN decisions : decisions[i] \in Decisions
    <3>1. sent = Len(decisions)
      BY <2>1, AllAsked
    <3>. QED  BY <2>1, <3>1
  <2>3. \A i \in DOMAIN decisions : SystemFailure(decisions[i]) <=> ~Responded(decisions[i])
    BY <2>1, <2>2, AgreedIs
  <2>4. InDenominator(snapshot.record) <=>
            \/ \A i \in DOMAIN decisions : Responded(decisions[i])
            \/ Responds(decisions)
    BY <2>1, <2>3 DEF InDenominator, Responds
  <2>5. (\A i \in DOMAIN decisions : Responded(decisions[i])) <=>
            \/ sent = 0
            \/ sent # 0 /\ \A i \in DOMAIN decisions : Responded(decisions[i])
    BY <2>2
  <2>6. sent # 0 => 1 \in DOMAIN decisions
    BY <2>2
  <2>7. InDenominator(snapshot.record) <=> (Answered \/ sent = 0)
    BY <2>1, <2>4, <2>5, <2>6 DEF Responds
  <2>. QED  BY <2>7 DEF InDenominator, Answered
<1>. QED  BY <1>1, GhostAlways, PTL
=============================================================================
