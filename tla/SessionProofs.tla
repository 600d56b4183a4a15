---------------------------- MODULE SessionProofs ----------------------------
(***************************************************************************)
(* Theorems about the live session, for every set of requests and actors.  *)
(***************************************************************************)
EXTENDS Session, WellFoundedInduction, TLAPS

(***************************************************************************)
(* The port call in progress: the guard is taken while a call is running,  *)
(* the engine runs a call exactly when the session waits for it, and what  *)
(* is being executed has its identity reserved.                            *)
(***************************************************************************)
PortInv ==
    /\ busy <=> pc # "idle"
    /\ pc \in {"observe", "check", "engine"} => caller \in Actors
    /\ pc = "engine" <=> call # NoRequest
    /\ pc = "engine" => call = request
    /\ settled => pc = "engine" /\ record[Len(record)].request = request
    /\ pc = "engine" => Len(record) = IF settled THEN offset + 1 ELSE offset
    /\ pc \in {"check", "engine"} =>
           request \in Requests /\ requests[request.id] # NoEntry

TypeInv == TypeOK /\ PortInv

\* What is assumed of requests, in the form the proofs use.
LEMMA RequestFacts ==
    ASSUME NEW r \in Requests
    PROVE  r.id \in Ids /\ r.actor \in Actors /\ r.based_on \in Nat /\ r # NoRequest
BY SessionAssumption DEF Ids

\* The receipts the session makes.
LEMMA ReceiptType ==
    ASSUME NEW a \in Actors, NEW r \in Requests, NEW s \in Statuses,
           NEW reason \in Reasons, NEW t \in 0..MaxTime
    PROVE  Receipt(a, r, s, reason, t) \in Receipts
BY RequestFacts DEF Receipt, Receipts

\* A reserved entry differs from no entry.
LEMMA EntryFacts == \A e \in Entries : e # NoEntry /\ e.actor \in Actors
BY SessionAssumption DEF Entries, NoEntry, NoActor

\* A receipt differs from no receipt, a result from no result.
LEMMA NoneFacts == NoReceipt \notin Receipts /\ NoResult \notin Results
BY DEF NoReceipt, Receipts, NoResult, Results, Statuses

\* Giving an entry its receipt leaves every other entry alone.
LEMMA ReceiptStored ==
    ASSUME requests \in [Ids -> Entries \union {NoEntry}],
           NEW id \in Ids, requests[id] # NoEntry, NEW visible \in Receipts,
           requests' = [requests EXCEPT ![id].receipt = visible]
    PROVE  /\ requests' \in [Ids -> Entries \union {NoEntry}]
           /\ \A other \in Ids : requests'[other] = NoEntry <=> requests[other] = NoEntry
<1>1. requests[id] \in Entries
  OBVIOUS
<1>. DEFINE new == [requests[id] EXCEPT !.receipt = visible]
<1>2. new \in Entries
  BY <1>1 DEF Entries
<1>3. requests' = [requests EXCEPT ![id] = new]
  OBVIOUS
<1>. HIDE DEF new
<1>. QED  BY <1>1, <1>2, <1>3, EntryFacts

\* The invariant of the call holds at the start.
THEOREM TypeInit == Init => TypeInv
<1>. SUFFICES ASSUME Init  PROVE TypeInv
  OBVIOUS
<1>1. /\ requests \in [Ids -> Entries \union {NoEntry}]
      /\ shown \in [Actors -> Receipts \union {NoReceipt}]
      /\ 0 \in 0..MaxTime /\ time \in 0..MaxTime
  BY SessionAssumption DEF Init, EngineInit
<1>2. TypeOK
  <2>1. <<>> \in Seq(Results) /\ <<>> \in Seq(Traces) /\ <<>> \in Seq(Observations)
    OBVIOUS
  <2>. QED  BY <1>1, <2>1 DEF Init, EngineInit, TypeOK
<1>3. PortInv
  BY DEF Init, EngineInit, PortInv
<1>. QED  BY <1>2, <1>3 DEF TypeInv

\* Leaving a call leaves a frame of the right types and takes the guard back.
LEMMA LeaveType ==
    ASSUME Leave
    PROVE  /\ busy' = FALSE /\ pc' = "idle" /\ caller' = NoActor
           /\ request' = NoRequest /\ moment' \in 0..MaxTime /\ offset' \in Nat
BY SessionAssumption DEF Leave

\* The traces the session makes.
LEMMA TraceType ==
    ASSUME traces \in Seq(Traces), NEW r \in Requests,
           NEW result \in Results \union {NoResult},
           NEW receipt \in Receipts \union {NoReceipt},
           NEW submitted \in BOOLEAN, NEW k \in Nat,
           Traced(Trace(r, result, receipt, submitted, k))
    PROVE  traces' \in Seq(Traces)
BY DEF Traced, Trace, Traces

\* A denial has the type of a receipt.
LEMMA DenialType ==
    ASSUME time \in 0..MaxTime, NEW a \in Actors, NEW r \in Requests,
           NEW reason \in Reasons
    PROVE  Denial(a, r, reason) \in Receipts
BY ReceiptType DEF Denial, Statuses

\* A submission that is answered keeps the types and reservations.
LEMMA AnswerType ==
    ASSUME TypeInv, pc \in {"check", "engine"}, NEW result \in Results \union {NoResult},
           NEW visible \in Receipts, NEW submitted \in BOOLEAN,
           Answer(result, visible, submitted)
    PROVE  /\ requests' \in [Ids -> Entries \union {NoEntry}]
           /\ traces' \in Seq(Traces)
           /\ shown' \in [Actors -> Receipts \union {NoReceipt}]
           /\ observations' = observations
           /\ Leave
<1>1. /\ request \in Requests /\ requests[request.id] # NoEntry /\ caller \in Actors
      /\ requests \in [Ids -> Entries \union {NoEntry}]
      /\ shown \in [Actors -> Receipts \union {NoReceipt}]
  BY DEF TypeInv, TypeOK, PortInv
<1>2. requests' \in [Ids -> Entries \union {NoEntry}]
  <2>1. requests' = [requests EXCEPT ![request.id].receipt = visible]
    BY DEF Answer
  <2>. QED  BY <1>1, <2>1, RequestFacts, ReceiptStored
<1>3. traces' \in Seq(Traces)
  BY <1>1, TraceType DEF Answer, TypeInv, TypeOK, Original
<1>4. shown' \in [Actors -> Receipts \union {NoReceipt}]
  BY <1>1 DEF Answer, Show
<1>. QED  BY <1>2, <1>3, <1>4 DEF Answer

\* A set of positions of a sequence, unless empty, has a last one.
LEMMA LastPosition ==
    ASSUME NEW n \in Nat, NEW S \in SUBSET (1..n), S # {}
    PROVE  \E i \in S : \A j \in S : j <= i
<1>. DEFINE T == {k \in 0..n : \E i \in S : k = n - i}
            R == OpToRel(<, Nat)
<1>. HIDE DEF R
<1>0. ASSUME NEW i \in S
      PROVE  n - i \in T
  <2>1. n - i \in 0..n
    OBVIOUS
  <2>2. \E j \in S : n - i = n - j
    OBVIOUS
  <2>. QED  BY <2>1, <2>2
<1>1. T \subseteq Nat /\ T # {}
  <2>1. PICK i \in S : TRUE
    OBVIOUS
  <2>2. n - i \in T
    BY <1>0
  <2>3. T \subseteq 0..n
    OBVIOUS
  <2>. HIDE DEF T
  <2>. QED  BY <2>2, <2>3
<1>2. IsWellFoundedOn(R, Nat)
  BY NatLessThanWellFounded DEF R
<1>3. \A x, y \in Nat : <<x, y>> \in R <=> x < y
  BY DEF R, OpToRel
<1>4. \E x \in T : \A y \in T : ~(<<y, x>> \in R)
  BY <1>1, <1>2, WFMin
<1>5. PICK i \in S : \A y \in T : ~(<<y, n - i>> \in R)
  BY <1>4
<1>6. \A j \in S : ~(n - j < n - i)
  BY <1>0, <1>1, <1>3, <1>5
<1>. QED  BY <1>6

\* The last receipt of an actor is a receipt, or none.
LEMMA LastReceiptType ==
    ASSUME traces \in Seq(Traces), NEW a \in Actors
    PROVE  LastReceipt(a) \in Receipts \union {NoReceipt}
<1>. DEFINE own == {i \in DOMAIN traces : /\ traces[i].receipt # NoReceipt
                                          /\ traces[i].receipt.actor = a}
<1>1. \A i \in DOMAIN traces : traces[i].receipt \in Receipts \union {NoReceipt}
  <2>1. \A i \in DOMAIN traces : traces[i] \in Traces
    OBVIOUS
  <2>. QED  BY <2>1 DEF Traces
<1>2. CASE own = {}
  BY <1>2 DEF LastReceipt
<1>3. CASE own # {}
  <2>1. own \in SUBSET (1..Len(traces)) /\ Len(traces) \in Nat
    OBVIOUS
  <2>2. PICK i \in own : \A j \in own : j <= i
    BY <1>3, <2>1, LastPosition
  <2>3. (CHOOSE k \in own : \A j \in own : j <= k) \in own
    BY <2>2
  <2>. QED  BY <1>1, <1>3, <2>3 DEF LastReceipt
<1>. QED  BY <1>2, <1>3

\* Every step of the engine inside a call leaves the session's types alone.
LEMMA EngineType ==
    ASSUME TypeOK, Elapse \/ Settle \/ Finish \/ Decline \/ Raise
    PROVE  /\ phase' \in {"CREATED", "RUNNING", "CLOSED"} /\ time' \in 0..MaxTime
           /\ record' \in Seq(Results) /\ call' \in Requests \union {NoRequest}
           /\ settled' \in BOOLEAN /\ answer' \in {"none", "returned", "raised"}
<1>. USE DEF TypeOK
<1>1. CASE Elapse
  BY <1>1 DEF Elapse, Ticks
<1>2. ASSUME call # NoRequest, NEW outcome \in Statuses, Recorded(outcome)
      PROVE  record' \in Seq(Results)
  <2>1. [request |-> call, status |-> outcome, resolved |-> time] \in Results
    BY <1>2 DEF Results
  <2>. QED  BY <1>2, <2>1 DEF Recorded
<1>3. CASE Settle
  BY <1>2, <1>3 DEF Settle, Statuses
<1>4. CASE Decline
  BY <1>2, <1>4 DEF Decline, Statuses
<1>5. CASE Finish \/ Raise
  BY <1>5 DEF Finish, Raise
<1>. QED  BY <1>1, <1>3, <1>4, <1>5

\* Every step preserves the types and the invariant of the call.
THEOREM TypeStep == TypeInv /\ [Next]_vars => TypeInv'
<1>. SUFFICES ASSUME TypeInv, [Next]_vars  PROVE TypeInv'
  OBVIOUS
<1>. USE DEF engine, session, stack
<1>1. CASE Owner
  <2>1. pc = "idle" /\ UNCHANGED <<session, stack>> /\ call = NoRequest
    BY <1>1 DEF Owner, TypeInv, PortInv
  <2>2. CASE Boot \/ Close
    BY <2>1, <2>2 DEF Boot, Close, TypeInv, TypeOK, PortInv
  <2>3. CASE Advance
    BY <2>1, <2>3 DEF Advance, Ticks, TypeInv, TypeOK, PortInv
  <2>. QED  BY <1>1, <2>2, <2>3 DEF Owner
<1>2. ASSUME NEW a \in Actors, BeginObserve(a)
      PROVE  TypeInv'
  BY <1>2 DEF BeginObserve, Enter, TypeInv, TypeOK, PortInv
<1>3. ASSUME NEW a \in Actors, NEW r \in Requests,
             SubmitConflicting(a, r) \/ SubmitAgain(a, r)
      PROVE  TypeInv'
  <2>1. /\ requests[r.id] \in Entries /\ requests[r.id].attempt \in Nat
        /\ requests[r.id].receipt \in Receipts \union {NoReceipt}
    BY <1>3, RequestFacts DEF SubmitConflicting, SubmitAgain, TypeInv, TypeOK, Entries
  <2>2. Denial(a, r, "REQUEST_ID_CONFLICT") \in Receipts
    BY DenialType DEF TypeInv, TypeOK, Reasons
  <2>3. PICK receipt \in Receipts \union {NoReceipt} :
            Traced(Trace(r, NoResult, receipt, FALSE, requests[r.id].attempt))
    BY <1>3, <2>1, <2>2 DEF SubmitConflicting, SubmitAgain
  <2>4. traces' \in Seq(Traces)
    BY <2>1, <2>3, TraceType DEF TypeInv, TypeOK
  <2>5. shown' \in [Actors -> Receipts \union {NoReceipt}]
    <3>1. UNCHANGED shown \/ \E visible \in Receipts : Show(a, visible)
      BY <1>3, <2>1, <2>2 DEF SubmitConflicting, SubmitAgain
    <3>. QED  BY <3>1 DEF Show, TypeInv, TypeOK
  <2>6. UNCHANGED <<engine, requests, observations, busy, stack>>
    BY <1>3 DEF SubmitConflicting, SubmitAgain
  <2>. QED  BY <2>4, <2>5, <2>6 DEF TypeInv, TypeOK, PortInv
<1>4. ASSUME NEW a \in Actors, NEW r \in Requests, NEW n \in Nat,
             NEW visible \in Receipts \union {NoReceipt}
      PROVE  Entry(a, r, n, visible) \in Entries
  BY <1>4 DEF Entry, Entries
<1>5. ASSUME NEW a \in Actors, NEW r \in Requests, SubmitDenied(a, r)
      PROVE  TypeInv'
  <2>1. AuthorityReason(a, r) \in Reasons
    BY <1>5 DEF SubmitDenied, AuthorityReason, Reasons, DenialReasons
  <2>0. Denial(a, r, AuthorityReason(a, r)) \in Receipts
    BY <2>1, DenialType DEF TypeInv, TypeOK
  <2>2. PICK visible \in Receipts :
            /\ SetEntry(r.id, Entry(a, r, Len(traces) + 1, visible))
            /\ Traced(Trace(r, NoResult, visible, FALSE, Original))
            /\ Show(a, visible)
    BY <1>5, <2>0 DEF SubmitDenied
  <2>3. requests' \in [Ids -> Entries \union {NoEntry}]
    <3>1. Entry(a, r, Len(traces) + 1, visible) \in Entries
      BY <1>4 DEF TypeInv, TypeOK
    <3>. QED  BY <2>2, <3>1 DEF SetEntry, TypeInv, TypeOK
  <2>4. traces' \in Seq(Traces)
    BY <2>2, TraceType DEF TypeInv, TypeOK, Original
  <2>5. shown' \in [Actors -> Receipts \union {NoReceipt}]
    BY <2>2 DEF Show, TypeInv, TypeOK
  <2>6. UNCHANGED <<engine, observations, busy, stack>> /\ pc = "idle"
    BY <1>5 DEF SubmitDenied, Submission, Enter, TypeInv, PortInv, TypeOK
  <2>. QED  BY <2>3, <2>4, <2>5, <2>6 DEF TypeInv, TypeOK, PortInv
<1>6. ASSUME NEW a \in Actors, NEW r \in Requests, SubmitFresh(a, r)
      PROVE  TypeInv'
  <2>1. /\ pc = "idle" /\ pc' = "check" /\ busy' = TRUE /\ caller' = a /\ request' = r
        /\ UNCHANGED <<engine, traces, observations, shown, moment, offset>>
    BY <1>6 DEF SubmitFresh, Submission, Enter, TypeInv, PortInv, TypeOK
  <2>2. Entry(a, r, Len(traces) + 1, NoReceipt) \in Entries
    BY <1>4 DEF TypeInv, TypeOK
  <2>3. /\ requests' \in [Ids -> Entries \union {NoEntry}]
        /\ requests'[r.id] # NoEntry
    BY <1>6, <2>2, RequestFacts, EntryFacts DEF SubmitFresh, SetEntry, TypeInv, TypeOK
  <2>. QED  BY <2>1, <2>3 DEF TypeInv, TypeOK, PortInv
<1>7. CASE FinishObserve
  <2>1. caller \in Actors /\ moment \in 0..MaxTime
    BY <1>7 DEF FinishObserve, TypeInv, TypeOK, PortInv
  <2>2. [actor |-> caller, time |-> moment, last |-> LastReceipt(caller)] \in Observations
    BY <2>1, LastReceiptType DEF Observations, TypeInv, TypeOK
  <2>3. observations' \in Seq(Observations)
    BY <1>7, <2>2 DEF FinishObserve, TypeInv, TypeOK
  <2>4. UNCHANGED <<engine, requests, traces, shown>> /\ pc = "observe"
    BY <1>7 DEF FinishObserve
  <2>. QED  BY <1>7, <2>3, <2>4, LeaveType DEF FinishObserve, TypeInv, TypeOK, PortInv
<1>8. CASE FailObserve
  BY <1>8, LeaveType DEF FailObserve, TypeInv, TypeOK, PortInv
\* A submission that ends while the engine is not, or no longer, running it.
<1>9. ASSUME pc \in {"check", "engine"}, Leave, call' = NoRequest, settled' = FALSE,
             observations' = observations,
             requests' \in [Ids -> Entries \union {NoEntry}],
             traces' \in Seq(Traces),
             shown' \in [Actors -> Receipts \union {NoReceipt}],
             phase' \in {"CREATED", "RUNNING", "CLOSED"}, time' \in 0..MaxTime,
             record' \in Seq(Results), answer' \in {"none", "returned", "raised"}
      PROVE  TypeInv'
  BY <1>9, LeaveType DEF TypeInv, TypeOK, PortInv
<1>10. CASE DenyContent
  <2>1. Denial(caller, request, "CONTENT_DENIED") \in Receipts
    BY <1>10, DenialType
    DEF DenyContent, TypeInv, TypeOK, PortInv, Reasons, DenialReasons
  <2>2. pc = "check" /\ UNCHANGED engine /\ call = NoRequest /\ settled = FALSE
    BY <1>10 DEF DenyContent, TypeInv, TypeOK, PortInv
  <2>3. Answer(NoResult, Denial(caller, request, "CONTENT_DENIED"), FALSE)
    BY <1>10 DEF DenyContent
  <2>. QED  BY <1>9, <2>1, <2>2, <2>3, AnswerType DEF TypeInv, TypeOK
<1>11. CASE FailKnowledge
  <2>1. pc = "check" /\ UNCHANGED engine /\ call = NoRequest /\ settled = FALSE
    BY <1>11 DEF FailKnowledge, TypeInv, TypeOK, PortInv
  <2>2. requests' \in [Ids -> Entries \union {NoEntry}]
    BY <1>11 DEF FailKnowledge, SetEntry, TypeInv, TypeOK
  <2>3. traces' \in Seq(Traces)
    BY <1>11, TraceType DEF FailKnowledge, Original, TypeInv, TypeOK, PortInv
  <2>. QED  BY <1>9, <1>11, <2>1, <2>2, <2>3 DEF FailKnowledge, TypeInv, TypeOK
<1>12. CASE EnterEngine
  <2>1. /\ pc = "check" /\ pc' = "engine" /\ call' = request
        /\ offset' = Len(record)
        /\ UNCHANGED <<session, caller, request, moment, phase, time, record,
                       settled, answer>>
    BY <1>12 DEF EnterEngine, Accept
  <2>2. request \in Requests /\ request # NoRequest /\ ~settled /\ offset' \in Nat
    BY <2>1, RequestFacts DEF TypeInv, TypeOK, PortInv
  <2>. QED  BY <2>1, <2>2 DEF TypeInv, TypeOK, PortInv
<1>13. CASE RunEngine
  <2>1. pc = "engine" /\ UNCHANGED <<session, stack>> /\ (Elapse \/ Settle)
    BY <1>13 DEF RunEngine
  <2>2. call' = call
    BY <2>1 DEF Elapse, Ticks, Settle
  <2>3. TypeOK'
    BY <2>1, <2>2, EngineType DEF TypeInv, TypeOK
  <2>4. CASE Elapse
    BY <2>1, <2>2, <2>3, <2>4 DEF Elapse, Ticks, TypeInv, PortInv
  <2>5. CASE Settle
    <3>1. /\ ~settled /\ settled' = TRUE /\ call = request
          /\ record' = Append(record, [request |-> call, status |-> "SUCCEEDED",
                                       resolved |-> time])
      BY <2>1, <2>5 DEF Settle, Recorded, TypeInv, PortInv
    <3>2. /\ Len(record') = Len(record) + 1
          /\ record'[Len(record')].request = request
      BY <3>1 DEF TypeInv, TypeOK
    <3>. QED  BY <2>1, <2>2, <2>3, <3>1, <3>2 DEF TypeInv, PortInv
  <2>. QED  BY <2>1, <2>3, <2>4, <2>5 DEF TypeInv
<1>14. ASSUME NEW result \in Results
       PROVE  PublicResult(caller, request, result) \in Receipts \/ pc \notin {"check", "engine"}
  BY ReceiptType DEF PublicResult, Results, TypeInv, TypeOK, PortInv, Reasons
<1>15. CASE EngineReturns
  <2>1. pc = "engine" /\ (Finish \/ Decline) /\ call' = NoRequest /\ settled' = FALSE
    BY <1>15 DEF EngineReturns, Finish, Decline, TypeInv, TypeOK
  <2>2. record' \in Seq(Results) /\ record' # <<>>
    <3>1. record' \in Seq(Results)
      BY <2>1, EngineType DEF TypeInv
    <3>2. CASE Decline
      <4>1. PICK outcome \in {"REJECTED", "FAILED"} : Recorded(outcome)
        BY <3>2 DEF Decline
      <4>2. Len(record') = Len(record) + 1
        BY <4>1 DEF Recorded, TypeInv, TypeOK
      <4>. QED  BY <3>1, <4>2 DEF TypeInv, TypeOK
    <3>3. CASE Finish
      <4>1. record' = record /\ Len(record) = offset + 1 /\ offset \in Nat
        BY <2>1, <3>3 DEF Finish, TypeInv, TypeOK, PortInv
      <4>. QED  BY <3>1, <4>1
    <3>. QED  BY <2>1, <3>1, <3>2, <3>3
  <2>3. record'[Len(record')] \in Results
    BY <2>2
  <2>. QED
    BY <1>9, <1>14, <1>15, <2>1, <2>2, <2>3, EngineType, AnswerType
    DEF EngineReturns, TypeInv
<1>16. CASE UnknownAction
  <2>1. /\ pc = "engine" /\ Raise /\ call' = NoRequest /\ settled' = FALSE
        /\ Answer(NoResult, Denial(caller, request, "UNKNOWN_ACTION"), TRUE)
    BY <1>16 DEF UnknownAction, Raise
  <2>2. Denial(caller, request, "UNKNOWN_ACTION") \in Receipts
    BY <2>1, DenialType DEF TypeInv, TypeOK, PortInv, Reasons
  <2>. QED  BY <1>9, <2>1, <2>2, EngineType, AnswerType DEF TypeInv
<1>17. CASE EngineFails
  <2>. DEFINE committed == IF Len(record) > offset THEN record[offset + 1] ELSE NoResult
  <2>1. /\ pc = "engine" /\ Raise /\ call' = NoRequest /\ settled' = FALSE
        /\ request \in Requests /\ caller \in Actors
        /\ UNCHANGED <<observations, shown>> /\ Leave
    BY <1>17 DEF EngineFails, Raise, TypeInv, PortInv
  <2>2. committed \in Results \union {NoResult}
    <3>1. Len(record) > offset => offset + 1 \in 1..Len(record)
      BY DEF TypeInv, TypeOK
    <3>. QED  BY <3>1 DEF TypeInv, TypeOK
  <2>3. traces' \in Seq(Traces)
    <3>1. Traced(Trace(request, committed, NoReceipt, TRUE, Original))
      BY <1>17 DEF EngineFails
    <3>. QED  BY <2>1, <2>2, <3>1, TraceType DEF TypeInv, TypeOK, Original
  <2>4. requests' \in [Ids -> Entries \union {NoEntry}]
    <3>1. CASE committed # NoResult
      <4>1. PublicResult(caller, request, committed) \in Receipts
        BY <1>14, <2>1, <2>2, <3>1
      <4>2. requests' = [requests EXCEPT ![request.id].receipt =
                             PublicResult(caller, request, committed)]
        BY <1>17, <3>1 DEF EngineFails
      <4>. QED
        BY <2>1, <4>1, <4>2, RequestFacts, ReceiptStored DEF TypeInv, TypeOK, PortInv
    <3>2. CASE committed = NoResult
      BY <1>17, <3>2 DEF EngineFails, TypeInv, TypeOK
    <3>. QED  BY <3>1, <3>2
  <2>. QED  BY <1>9, <2>1, <2>3, <2>4, EngineType DEF TypeInv, TypeOK
<1>18. CASE UNCHANGED vars
  BY <1>18 DEF vars, TypeInv, TypeOK, PortInv
<1>. QED
  BY <1>1, <1>2, <1>3, <1>5, <1>6, <1>7, <1>8, <1>10, <1>11, <1>12, <1>13, <1>15,
     <1>16, <1>17, <1>18
  DEF Next, Ports, Observing, Executing

\* The types of the session's fields and the invariant of the call, always.
THEOREM TypesKept == Spec => []TypeInv
<1>. QED  BY TypeInit, TypeStep, PTL DEF Spec

\* In particular the type invariant of the model.
THEOREM TypeCorrect == Spec => []TypeOK
<1>1. TypeInv => TypeOK
  BY DEF TypeInv
<1>. QED  BY <1>1, TypesKept, PTL
-----------------------------------------------------------------------------
(***************************************************************************)
(* Exactly-once execution.  An identity that was ever in the engine, as a  *)
(* traced attempt or as a result, stays reserved; the identity being       *)
(* executed has not been there, except with the result of this very call.  *)
(***************************************************************************)
Entered(id) ==
    \E i \in DOMAIN traces : traces[i].engine_submitted /\ traces[i].request.id = id

Resolved(id) == \E i \in DOMAIN record : record[i].request.id = id

\* At most one traced attempt of an identity entered the engine.
EnteredOnce ==
    \A i, j \in DOMAIN traces :
        /\ traces[i].engine_submitted /\ traces[j].engine_submitted
        /\ traces[i].request.id = traces[j].request.id
        => i = j

\* No two results carry one identity.
ResolvedOnce ==
    \A i, j \in DOMAIN record : record[i].request.id = record[j].request.id => i = j

Reserved(id) == requests[id] # NoEntry

OnceInv ==
    /\ EnteredOnce /\ ResolvedOnce
    /\ \A id \in Ids : Entered(id) \/ Resolved(id) => Reserved(id)
    /\ pc \in {"check", "engine"} => ~Entered(request.id)
    /\ pc = "check" \/ (pc = "engine" /\ ~settled) => ~Resolved(request.id)

\* Nothing has been executed at the start.
LEMMA OnceInit == Init => OnceInv
BY DEF Init, EngineInit, OnceInv, EnteredOnce, ResolvedOnce, Entered, Resolved

\* One trace is added after the others.
LEMMA TraceAdded ==
    ASSUME TypeOK, NEW trace, Traced(trace)
    PROVE  /\ Len(traces) \in Nat /\ DOMAIN traces = 1..Len(traces)
           /\ DOMAIN traces' = 1..(Len(traces) + 1)
           /\ \A i \in DOMAIN traces : traces'[i] = traces[i]
           /\ traces'[Len(traces) + 1] = trace
           /\ \A i \in DOMAIN traces' : i \in DOMAIN traces \/ i = Len(traces) + 1
           /\ Len(traces) + 1 \notin DOMAIN traces
BY DEF TypeOK, Traced

\* A trace that did not enter the engine executes nothing.
LEMMA OnceUnentered ==
    ASSUME TypeOK, EnteredOnce, NEW r \in Requests, NEW result, NEW receipt, NEW k,
           Traced(Trace(r, result, receipt, FALSE, k))
    PROVE  /\ \A id \in Ids : Entered(id)' => Entered(id)
           /\ EnteredOnce'
<1>. DEFINE n == Len(traces)
            new == Trace(r, result, receipt, FALSE, k)
<1>1. ~new.engine_submitted
  BY DEF Trace
<1>2. Traced(new)
  OBVIOUS
<1>. HIDE DEF new
<1>3. ASSUME NEW i \in DOMAIN traces', traces'[i].engine_submitted
      PROVE  i \in DOMAIN traces /\ traces'[i] = traces[i]
  BY <1>1, <1>2, <1>3, TraceAdded
<1>4. ASSUME NEW id \in Ids, Entered(id)'
      PROVE  Entered(id)
  BY <1>3, <1>4 DEF Entered
<1>5. EnteredOnce'
  BY <1>3 DEF EnteredOnce
<1>. QED  BY <1>4, <1>5

\* A trace that did is the only one of its identity, if it is a new one.
LEMMA OnceEntered ==
    ASSUME TypeOK, EnteredOnce, NEW r \in Requests, NEW result, NEW receipt, NEW k,
           ~Entered(r.id), Traced(Trace(r, result, receipt, TRUE, k))
    PROVE  /\ \A id \in Ids : Entered(id)' => Entered(id) \/ id = r.id
           /\ EnteredOnce'
<1>. DEFINE n == Len(traces)
            new == Trace(r, result, receipt, TRUE, k)
<1>1. new.request = r
  BY DEF Trace
<1>2. Traced(new)
  OBVIOUS
<1>. HIDE DEF new
<1>3. ASSUME NEW i \in DOMAIN traces'
      PROVE  \/ i \in DOMAIN traces /\ traces'[i] = traces[i]
             \/ i = n + 1 /\ traces'[i].request = r
  BY <1>1, <1>2, <1>3, TraceAdded
<1>4. ASSUME NEW id \in Ids, Entered(id)'
      PROVE  Entered(id) \/ id = r.id
  BY <1>3, <1>4 DEF Entered
<1>5. ASSUME NEW i \in DOMAIN traces', NEW j \in DOMAIN traces',
             traces'[i].engine_submitted, traces'[j].engine_submitted,
             traces'[i].request.id = traces'[j].request.id
      PROVE  i = j
  <2>1. CASE i = n + 1 /\ j = n + 1
    BY <2>1
  <2>2. CASE i \in DOMAIN traces /\ traces'[i] = traces[i] /\ j \in DOMAIN traces /\ traces'[j] = traces[j]
    BY <1>5, <2>2 DEF EnteredOnce
  <2>3. CASE i \in DOMAIN traces /\ traces'[i] = traces[i] /\ traces'[j].request = r
    BY <1>5, <2>3 DEF Entered
  <2>4. CASE j \in DOMAIN traces /\ traces'[j] = traces[j] /\ traces'[i].request = r
    BY <1>5, <2>4 DEF Entered
  <2>. QED  BY <1>3, <2>1, <2>2, <2>3, <2>4
<1>. QED  BY <1>4, <1>5 DEF EnteredOnce

\* A result of an identity that had none is its only one.
LEMMA OnceResolved ==
    ASSUME TypeOK, ResolvedOnce, NEW result,
           ~Resolved(result.request.id), record' = Append(record, result)
    PROVE  /\ \A id \in Ids : Resolved(id)' => Resolved(id) \/ id = result.request.id
           /\ ResolvedOnce'
<1>. DEFINE n == Len(record)
<1>1. /\ n \in Nat /\ DOMAIN record = 1..n /\ DOMAIN record' = 1..(n + 1)
      /\ \A i \in DOMAIN record : record'[i] = record[i]
      /\ record'[n + 1] = result
      /\ \A i \in DOMAIN record' : i \in DOMAIN record \/ i = n + 1
  BY DEF TypeOK
<1>. HIDE DEF n
<1>2. ASSUME NEW i \in DOMAIN record'
      PROVE  \/ i \in DOMAIN record /\ record'[i] = record[i]
             \/ i = n + 1 /\ record'[i] = result
  BY <1>1, <1>2
<1>3. ASSUME NEW id \in Ids, Resolved(id)'
      PROVE  Resolved(id) \/ id = result.request.id
  BY <1>2, <1>3 DEF Resolved
<1>4. ASSUME NEW i \in DOMAIN record', NEW j \in DOMAIN record',
             record'[i].request.id = record'[j].request.id
      PROVE  i = j
  BY <1>2, <1>4 DEF Resolved, ResolvedOnce
<1>. QED  BY <1>3, <1>4 DEF ResolvedOnce

\* What an engine call that is over leaves behind: the request is traced as
\* entered, it may have a result, and no reservation is given up.
LEMMA OnceEnded ==
    ASSUME TypeInv, OnceInv, pc = "engine", NEW result, NEW receipt, NEW k,
           Traced(Trace(request, result, receipt, TRUE, k)), Leave,
           \/ record' = record
           \/ ~settled /\ \E e : e.request = request /\ record' = Append(record, e),
           \A id \in Ids : Reserved(id) => Reserved(id)'
    PROVE  OnceInv'
<1>1. request \in Requests /\ Reserved(request.id) /\ ~Entered(request.id) /\ TypeOK
  BY DEF TypeInv, PortInv, OnceInv, Reserved
<1>2. /\ \A id \in Ids : Entered(id)' => Entered(id) \/ id = request.id
      /\ EnteredOnce'
  BY <1>1, OnceEntered DEF OnceInv
<1>3. /\ \A id \in Ids : Resolved(id)' => Resolved(id) \/ id = request.id
      /\ ResolvedOnce'
  <2>1. CASE record' = record
    BY <2>1 DEF Resolved, ResolvedOnce, OnceInv
  <2>2. CASE ~settled /\ \E e : e.request = request /\ record' = Append(record, e)
    <3>1. PICK e : e.request = request /\ record' = Append(record, e)
      BY <2>2
    <3>. QED  BY <1>1, <2>2, <3>1, OnceResolved DEF OnceInv
  <2>. QED  BY <2>1, <2>2
<1>4. pc' = "idle"
  BY DEF Leave
<1>5. ASSUME NEW id \in Ids, Entered(id)' \/ Resolved(id)'
      PROVE  Reserved(id)'
  BY <1>1, <1>2, <1>3, <1>5 DEF OnceInv
<1>. QED  BY <1>2, <1>3, <1>4, <1>5 DEF OnceInv

\* A step that traces no entry and resolves nothing only has to look after the
\* reservations and the request being executed.
LEMMA OnceQuiet ==
    ASSUME OnceInv, EnteredOnce', \A id \in Ids : Entered(id)' => Entered(id),
           record' = record,
           \A id \in Ids : (Entered(id) \/ Resolved(id)) /\ Reserved(id) => Reserved(id)',
           \/ pc' \in {"idle", "observe"}
           \/ /\ request' \in Requests
              /\ ~Entered(request'.id) /\ ~Resolved(request'.id)
    PROVE  OnceInv'
<1>1. \A id \in Ids : Resolved(id)' => Resolved(id)
  BY DEF Resolved
<1>2. ResolvedOnce'
  BY DEF OnceInv, ResolvedOnce
<1>3. \A id \in Ids : Entered(id)' \/ Resolved(id)' => Reserved(id)'
  BY <1>1 DEF OnceInv
<1>4. request' \in Requests => request'.id \in Ids
  BY RequestFacts
<1>. QED  BY <1>1, <1>2, <1>3, <1>4 DEF OnceInv

\* An entry that is given a receipt, whichever, is still an entry.
LEMMA ReservedKept ==
    ASSUME TypeOK, NEW id \in Ids, Reserved(id), NEW visible,
           requests' = [requests EXCEPT ![id].receipt = visible]
    PROVE  \A other \in Ids : Reserved(other) => Reserved(other)'
<1>. DEFINE new == [requests[id] EXCEPT !.receipt = visible]
<1>1. requests[id] \in Entries /\ requests \in [Ids -> Entries \union {NoEntry}]
  BY DEF TypeOK, Reserved
<1>2. new.actor = requests[id].actor /\ requests[id].actor \in Actors
  BY <1>1 DEF Entries
<1>3. new # NoEntry
  BY <1>2, SessionAssumption DEF NoEntry, NoActor
<1>4. requests' = [requests EXCEPT ![id] = new]
  OBVIOUS
<1>. HIDE DEF new
<1>. QED  BY <1>1, <1>3, <1>4 DEF Reserved

\* Every step of the session keeps it.
LEMMA OnceStep == TypeInv /\ OnceInv /\ [Next]_vars => OnceInv'
<1>. SUFFICES ASSUME TypeInv, OnceInv, [Next]_vars  PROVE OnceInv'
  OBVIOUS
<1>1. TypeOK /\ PortInv /\ EnteredOnce
  BY DEF TypeInv, OnceInv
<1>2. UNCHANGED traces => EnteredOnce' /\ \A id \in Ids : Entered(id)' => Entered(id)
  BY <1>1 DEF EnteredOnce, Entered
<1>3. \A id \in Ids : requests'[id] = requests[id] => Reserved(id)' <=> Reserved(id)
  BY DEF Reserved
<1>4. pc = "idle" \/ pc = "observe" => ~settled
  BY <1>1 DEF PortInv
<1>5. CASE Owner
  BY <1>1, <1>2, <1>3, <1>5, OnceQuiet
  DEF Owner, session, stack, Boot, Close, Advance, Ticks
<1>6. ASSUME NEW a \in Actors, BeginObserve(a)
      PROVE  OnceInv'
  BY <1>1, <1>2, <1>3, <1>6, OnceQuiet DEF BeginObserve, engine
<1>7. CASE Observing
  BY <1>1, <1>2, <1>3, <1>7, OnceQuiet
  DEF Observing, FinishObserve, FailObserve, Leave, engine
<1>8. ASSUME NEW a \in Actors, NEW r \in Requests,
             SubmitConflicting(a, r) \/ SubmitAgain(a, r)
      PROVE  OnceInv'
  <2>1. /\ pc' = "idle" /\ record' = record /\ requests' = requests
    BY <1>1, <1>8 DEF SubmitConflicting, SubmitAgain, Submission, Enter, engine, stack, PortInv
  <2>2. PICK result, receipt, k : Traced(Trace(r, result, receipt, FALSE, k))
    BY <1>8 DEF SubmitConflicting, SubmitAgain
  <2>3. EnteredOnce' /\ \A id \in Ids : Entered(id)' => Entered(id)
    BY <1>1, <2>2, OnceUnentered
  <2>. QED  BY <1>3, <2>1, <2>3, OnceQuiet
<1>9. ASSUME NEW a \in Actors, NEW r \in Requests, SubmitDenied(a, r)
      PROVE  OnceInv'
  <2>1. /\ pc' = "idle" /\ record' = record /\ requests[r.id] = NoEntry
    BY <1>1, <1>9 DEF SubmitDenied, Submission, Enter, engine, stack, PortInv
  <2>2. PICK result, receipt, k : Traced(Trace(r, result, receipt, FALSE, k))
    BY <1>9 DEF SubmitDenied
  <2>3. EnteredOnce' /\ \A id \in Ids : Entered(id)' => Entered(id)
    BY <1>1, <2>2, OnceUnentered
  <2>4. ASSUME NEW id \in Ids, Reserved(id)
        PROVE  Reserved(id)'
    BY <1>1, <1>9, <2>1, <2>4 DEF SubmitDenied, SetEntry, TypeOK, Reserved
  <2>. QED  BY <2>1, <2>3, <2>4, OnceQuiet
<1>10. ASSUME NEW a \in Actors, NEW r \in Requests, SubmitFresh(a, r)
       PROVE  OnceInv'
  <2>1. /\ request' = r /\ record' = record /\ traces' = traces
        /\ requests[r.id] = NoEntry
    BY <1>10 DEF SubmitFresh, engine
  <2>2. ~Entered(r.id) /\ ~Resolved(r.id)
    BY <2>1, RequestFacts DEF OnceInv, Reserved
  <2>3. ASSUME NEW id \in Ids, Reserved(id)
        PROVE  Reserved(id)'
    BY <1>1, <1>10, <2>1, <2>3 DEF SubmitFresh, SetEntry, TypeOK, Reserved
  <2>. QED  BY <1>2, <2>1, <2>2, <2>3, OnceQuiet
<1>11. CASE DenyContent
  <2>1. /\ pc' = "idle" /\ record' = record /\ request \in Requests
        /\ requests[request.id] # NoEntry /\ caller \in Actors
    BY <1>1, <1>11 DEF DenyContent, Answer, Leave, engine, PortInv
  <2>2. PICK result, receipt, k : Traced(Trace(request, result, receipt, FALSE, k))
    BY <1>11 DEF DenyContent, Answer
  <2>3. EnteredOnce' /\ \A id \in Ids : Entered(id)' => Entered(id)
    BY <1>1, <2>1, <2>2, OnceUnentered
  <2>4. \A id \in Ids : Reserved(id)' <=> Reserved(id)
    <3>1. Denial(caller, request, "CONTENT_DENIED") \in Receipts
      BY <1>1, <2>1, DenialType DEF TypeOK, Reasons, DenialReasons
    <3>. QED
      BY <1>1, <1>11, <2>1, <3>1, RequestFacts, ReceiptStored
      DEF DenyContent, Answer, TypeOK, Reserved
  <2>. QED  BY <2>1, <2>3, <2>4, OnceQuiet
<1>12. CASE FailKnowledge
  <2>1. /\ pc' = "idle" /\ record' = record /\ request \in Requests
        /\ ~Entered(request.id) /\ ~Resolved(request.id)
    BY <1>1, <1>12 DEF FailKnowledge, Leave, engine, PortInv, OnceInv
  <2>2. EnteredOnce' /\ \A id \in Ids : Entered(id)' => Entered(id)
    BY <1>1, <1>12, <2>1, OnceUnentered DEF FailKnowledge
  <2>3. ASSUME NEW id \in Ids, Entered(id) \/ Resolved(id), Reserved(id)
        PROVE  Reserved(id)'
    BY <1>1, <1>12, <2>1, <2>3 DEF FailKnowledge, SetEntry, TypeOK, Reserved
  <2>. QED  BY <2>1, <2>2, <2>3, OnceQuiet
<1>13. CASE EnterEngine
  <2>1. request' = request /\ record' = record /\ UNCHANGED <<requests, traces>>
    BY <1>13 DEF EnterEngine, Accept, session
  <2>2. request \in Requests /\ ~Entered(request.id) /\ ~Resolved(request.id)
    BY <1>1, <1>13 DEF EnterEngine, PortInv, OnceInv
  <2>. QED  BY <1>2, <1>3, <2>1, <2>2, OnceQuiet
<1>14. CASE RunEngine
  <2>1. pc = "engine" /\ UNCHANGED <<requests, traces, pc, request>>
    BY <1>14 DEF RunEngine, session, stack
  <2>2. request \in Requests /\ requests[request.id] # NoEntry /\ call = request
    BY <1>1, <2>1 DEF PortInv
  <2>3. CASE Elapse
    BY <1>2, <1>3, <2>1, <2>2, <2>3 DEF Elapse, Ticks, OnceInv, Resolved, ResolvedOnce, Reserved, Entered, EnteredOnce
  <2>4. CASE Settle
    <3>1. PICK e : e.request = request /\ record' = Append(record, e)
      BY <2>2, <2>4 DEF Settle, Recorded
    <3>2. ~Resolved(request.id) /\ settled'
      BY <2>1, <2>4 DEF Settle, OnceInv
    <3>3. /\ \A id \in Ids : Resolved(id)' => Resolved(id) \/ id = request.id
          /\ ResolvedOnce'
      BY <1>1, <3>1, <3>2, OnceResolved DEF OnceInv
    <3>4. ~Entered(request.id)'
      BY <2>1, <2>2 DEF OnceInv, Entered
    <3>5. \A id \in Ids : Entered(id)' \/ Resolved(id)' => Reserved(id)'
      BY <1>2, <1>3, <2>1, <2>2, <3>3 DEF OnceInv, Reserved
    <3>. QED  BY <1>2, <2>1, <3>2, <3>3, <3>4, <3>5 DEF OnceInv
  <2>. QED  BY <1>14, <2>3, <2>4 DEF RunEngine
<1>15. CASE EngineReturns
  <2>1. PICK result, receipt, k : Traced(Trace(request, result, receipt, TRUE, k))
    BY <1>15 DEF EngineReturns, Answer
  <2>2. \/ record' = record
        \/ ~settled /\ \E e : e.request = request /\ record' = Append(record, e)
    BY <1>1, <1>15 DEF EngineReturns, Finish, Decline, Recorded, PortInv
  <2>3. \A id \in Ids : Reserved(id) => Reserved(id)'
    <3>1. request.id \in Ids /\ Reserved(request.id)
      BY <1>1, <1>15, RequestFacts DEF EngineReturns, PortInv, Reserved
    <3>2. PICK visible : requests' = [requests EXCEPT ![request.id].receipt = visible]
      BY <1>15 DEF EngineReturns, Answer
    <3>. QED  BY <1>1, <3>1, <3>2, ReservedKept
  <2>. QED  BY <1>15, <2>1, <2>2, <2>3, OnceEnded DEF EngineReturns, Answer
<1>16. CASE UnknownAction
  <2>1. PICK result, receipt, k : Traced(Trace(request, result, receipt, TRUE, k))
    BY <1>16 DEF UnknownAction, Answer
  <2>2. \A id \in Ids : Reserved(id) => Reserved(id)'
    <3>1. request.id \in Ids /\ Reserved(request.id)
      BY <1>1, <1>16, RequestFacts DEF UnknownAction, PortInv, Reserved
    <3>2. PICK visible : requests' = [requests EXCEPT ![request.id].receipt = visible]
      BY <1>16 DEF UnknownAction, Answer
    <3>. QED  BY <1>1, <3>1, <3>2, ReservedKept
  <2>. QED  BY <1>16, <2>1, <2>2, OnceEnded DEF UnknownAction, Answer, Raise
<1>17. CASE EngineFails
  <2>. DEFINE committed == IF Len(record) > offset THEN record[offset + 1] ELSE NoResult
  <2>1. PICK result, receipt, k : Traced(Trace(request, result, receipt, TRUE, k))
    BY <1>17 DEF EngineFails
  <2>2. \A id \in Ids : Reserved(id) => Reserved(id)'
    <3>1. request.id \in Ids /\ Reserved(request.id)
      BY <1>1, <1>17, RequestFacts DEF EngineFails, PortInv, Reserved
    <3>2. CASE UNCHANGED requests
      BY <3>2 DEF Reserved
    <3>3. CASE requests' = [requests EXCEPT ![request.id].receipt =
                                PublicResult(caller, request, committed)]
      <4>1. PICK visible : requests' = [requests EXCEPT ![request.id].receipt = visible]
        BY <3>3
      <4>. QED  BY <1>1, <3>1, <4>1, ReservedKept
    <3>. QED  BY <1>17, <3>2, <3>3 DEF EngineFails
  <2>. QED  BY <1>17, <2>1, <2>2, OnceEnded DEF EngineFails, Raise
<1>18. CASE UNCHANGED vars
  BY <1>18 DEF vars, engine, session, stack, OnceInv, Entered, EnteredOnce, Resolved, ResolvedOnce, Reserved
<1>. QED
  BY <1>5, <1>6, <1>7, <1>8, <1>9, <1>10, <1>11, <1>12, <1>13, <1>14, <1>15, <1>16, <1>17, <1>18
  DEF Next, Ports, Observing, Executing

\* An identity reaches the engine at most once, and has at most one result,
\* however often it is submitted and whatever fails on the way.
THEOREM ExecutesOnce == Spec => []ExecutedOnce
<1>1. Init => TypeInv /\ OnceInv
  BY TypeInit, OnceInit
<1>2. TypeInv /\ OnceInv /\ [Next]_vars => TypeInv' /\ OnceInv'
  BY TypeStep, OnceStep
<1>3. OnceInv => ExecutedOnce
  BY DEF OnceInv, EnteredOnce, ResolvedOnce, ExecutedOnce
<1>. QED  BY <1>1, <1>2, <1>3, PTL DEF Spec
-----------------------------------------------------------------------------
(***************************************************************************)
(* Authority.  An observation being made is dated now, the observations    *)
(* are ordered by their dates, and what is being executed was authorised   *)
(* when it was accepted; no later step can take that back, since the       *)
(* history of observations only grows.                                     *)
(***************************************************************************)
Authorised(r) ==
    /\ r.run = OwnRun
    /\ r.based_on \in DOMAIN observations
    /\ observations[r.based_on].actor = r.actor
    /\ observations[r.based_on].time <= r.submitted_at

AuthorityInv ==
    /\ ObservationsInOrder
    /\ pc = "observe" => moment = time
    /\ pc \in {"check", "engine"} => Authorised(request)
    /\ EngineAuthorised

\* Nothing is observed and nothing executed at the start.
LEMMA AuthorityInit == Init => AuthorityInv
BY DEF Init, EngineInit, AuthorityInv, ObservationsInOrder, EngineAuthorised

\* Authority outlives every step that leaves the history of observations alone.
LEMMA AuthorityStands ==
    ASSUME UNCHANGED observations, NEW r
    PROVE  Authorised(r) => Authorised(r)'
BY DEF Authorised

\* A trace keeps the traced requests authorised, if its own request is or it
\* did not enter the engine.
LEMMA AuthorityTraced ==
    ASSUME TypeOK, EngineAuthorised, UNCHANGED observations,
           NEW r, NEW result, NEW receipt, NEW submitted, NEW k,
           Traced(Trace(r, result, receipt, submitted, k)),
           submitted => Authorised(r)
    PROVE  EngineAuthorised'
<1>. DEFINE new == Trace(r, result, receipt, submitted, k)
<1>1. new.request = r /\ new.engine_submitted = submitted
  BY DEF Trace
<1>2. Traced(new)
  OBVIOUS
<1>. HIDE DEF new
<1>3. ASSUME NEW i \in DOMAIN traces', traces'[i].engine_submitted
      PROVE  Authorised(traces'[i].request)
  BY <1>1, <1>2, <1>3, TraceAdded DEF EngineAuthorised, Authorised
<1>. QED  BY <1>3 DEF EngineAuthorised, Authorised

\* Time that passes leaves the observations in order.
LEMMA OrderStands ==
    ASSUME TypeOK, ObservationsInOrder, UNCHANGED observations,
           time' \in 0..MaxTime, time <= time'
    PROVE  ObservationsInOrder'
<1>1. \A i \in DOMAIN observations : observations[i].time \in 0..MaxTime
  <2>1. \A i \in DOMAIN observations : observations[i] \in Observations
    BY DEF TypeOK
  <2>. QED  BY <2>1 DEF Observations
<1>. QED  BY <1>1, SessionAssumption DEF ObservationsInOrder, TypeOK

\* Every step of the session keeps it.
LEMMA AuthorityStep == TypeInv /\ AuthorityInv /\ [Next]_vars => AuthorityInv'
<1>. SUFFICES ASSUME TypeInv, AuthorityInv, [Next]_vars  PROVE AuthorityInv'
  OBVIOUS
<1>1. /\ TypeOK /\ PortInv /\ ObservationsInOrder /\ EngineAuthorised
      /\ time \in 0..MaxTime /\ MaxTime \in Nat
  BY SessionAssumption DEF TypeInv, TypeOK, AuthorityInv
<1>2. UNCHANGED <<observations, time>> => ObservationsInOrder'
  BY <1>1, OrderStands
<1>3. UNCHANGED <<observations, traces>> => EngineAuthorised'
  BY <1>1 DEF EngineAuthorised
<1>4. CASE Owner
  <2>1. time' \in 0..MaxTime /\ time <= time' /\ UNCHANGED <<session, stack>> /\ pc = "idle"
    BY <1>1, <1>4 DEF Owner, Boot, Close, Advance, Ticks
  <2>. QED  BY <1>1, <1>3, <2>1, OrderStands DEF AuthorityInv, session, stack
<1>5. ASSUME NEW a \in Actors, BeginObserve(a)
      PROVE  AuthorityInv'
  BY <1>2, <1>3, <1>5 DEF BeginObserve, engine, AuthorityInv
<1>6. CASE FinishObserve
  <2>. DEFINE new == [actor |-> caller, time |-> moment, last |-> LastReceipt(caller)]
              n == Len(observations)
  <2>1. /\ observations' = Append(observations, new) /\ new.time = time
        /\ UNCHANGED <<traces, time>> /\ pc' = "idle"
    BY <1>6 DEF FinishObserve, AuthorityInv, Leave, engine
  <2>. HIDE DEF new
  <2>2. /\ n \in Nat /\ DOMAIN observations = 1..n /\ DOMAIN observations' = 1..(n + 1)
        /\ \A i \in 1..n : observations'[i] = observations[i]
        /\ observations'[n + 1] = new
    BY <1>1, <2>1 DEF TypeOK
  <2>3. ObservationsInOrder'
    <3>1. SUFFICES ASSUME NEW i \in 1..(n + 1)
                   PROVE  /\ observations'[i].time <= time
                          /\ \A j \in 1..i : observations'[j].time <= observations'[i].time
      BY <2>1, <2>2 DEF ObservationsInOrder
    <3>2. \A j \in 1..n : observations[j].time <= time
      BY <1>1, <2>2 DEF ObservationsInOrder
    <3>3. CASE i \in 1..n
      BY <1>1, <2>2, <3>2, <3>3 DEF ObservationsInOrder
    <3>4. CASE i = n + 1
      BY <1>1, <2>1, <2>2, <3>2, <3>4
    <3>. QED  BY <2>2, <3>3, <3>4
  <2>4. EngineAuthorised'
    BY <1>1, <2>1, <2>2 DEF EngineAuthorised
  <2>. QED  BY <2>1, <2>3, <2>4 DEF AuthorityInv
<1>7. CASE FailObserve
  BY <1>2, <1>3, <1>7 DEF FailObserve, Leave, engine, AuthorityInv
<1>8. ASSUME NEW a \in Actors, NEW r \in Requests,
             SubmitConflicting(a, r) \/ SubmitAgain(a, r) \/ SubmitDenied(a, r)
      PROVE  AuthorityInv'
  <2>1. pc' = "idle" /\ UNCHANGED <<observations, time>>
    BY <1>1, <1>8
    DEF SubmitConflicting, SubmitAgain, SubmitDenied, Submission, Enter, engine, stack, PortInv
  <2>2. PICK result, receipt, k : Traced(Trace(r, result, receipt, FALSE, k))
    BY <1>8 DEF SubmitConflicting, SubmitAgain, SubmitDenied
  <2>. QED  BY <1>1, <1>2, <2>1, <2>2, AuthorityTraced DEF AuthorityInv
<1>9. ASSUME NEW a \in Actors, NEW r \in Requests, SubmitFresh(a, r)
      PROVE  AuthorityInv'
  <2>1. /\ UNCHANGED <<observations, traces, time>> /\ request' = r /\ pc' = "check"
        /\ AuthorityReason(a, r) = "NONE"
    BY <1>9 DEF SubmitFresh, engine
  <2>2. /\ r.run = OwnRun /\ r.actor = a /\ r.based_on \in DOMAIN observations
        /\ observations[r.based_on].actor = a /\ r.submitted_at = time
    BY <2>1 DEF AuthorityReason
  <2>3. Authorised(r)
    BY <1>1, <2>2 DEF Authorised, ObservationsInOrder
  <2>4. Authorised(request)'
    BY <2>1, <2>3 DEF Authorised
  <2>. QED  BY <1>2, <1>3, <2>1, <2>4 DEF AuthorityInv
<1>10. CASE DenyContent \/ FailKnowledge
  <2>1. pc' = "idle" /\ UNCHANGED <<observations, time>>
    BY <1>10 DEF DenyContent, FailKnowledge, Answer, Leave, engine
  <2>2. PICK result, receipt, k : Traced(Trace(request, result, receipt, FALSE, k))
    BY <1>10 DEF DenyContent, FailKnowledge, Answer
  <2>. QED  BY <1>1, <1>2, <2>1, <2>2, AuthorityTraced DEF AuthorityInv
<1>11. CASE EnterEngine
  <2>1. pc' = "engine" /\ UNCHANGED <<observations, traces, time, request>> /\ Authorised(request)
    BY <1>11 DEF EnterEngine, Accept, session, AuthorityInv
  <2>. QED  BY <1>2, <1>3, <2>1 DEF AuthorityInv, Authorised
<1>12. CASE RunEngine
  <2>1. /\ pc = "engine" /\ UNCHANGED <<observations, traces, pc, request>> /\ Authorised(request)
        /\ time' \in 0..MaxTime /\ time <= time'
    BY <1>1, <1>12 DEF RunEngine, Elapse, Ticks, Settle, session, stack, AuthorityInv
  <2>. QED  BY <1>1, <1>3, <2>1, OrderStands DEF AuthorityInv, Authorised
<1>13. CASE EngineReturns \/ UnknownAction \/ EngineFails
  <2>1. pc' = "idle" /\ UNCHANGED <<observations, time>> /\ Authorised(request)
    BY <1>13
    DEF EngineReturns, UnknownAction, EngineFails, Finish, Decline, Raise, Answer, Leave,
        AuthorityInv
  <2>2. PICK result, receipt, k : Traced(Trace(request, result, receipt, TRUE, k))
    BY <1>13 DEF EngineReturns, UnknownAction, EngineFails, Answer
  <2>. QED  BY <1>1, <1>2, <2>1, <2>2, AuthorityTraced DEF AuthorityInv
<1>14. CASE UNCHANGED vars
  BY <1>2, <1>3, <1>14 DEF vars, engine, session, stack, AuthorityInv, Authorised
<1>. QED
  BY <1>4, <1>5, <1>6, <1>7, <1>8, <1>9, <1>10, <1>11, <1>12, <1>13, <1>14
  DEF Next, Ports, Observing, Executing

\* What enters the engine is the actor's own request, based on what the same
\* actor had observed when it was submitted; the observations are ordered by
\* logical time and never ahead of it.
THEOREM EvidenceComesFirst == Spec => []EvidenceFirst
<1>1. Init => TypeInv /\ AuthorityInv
  BY TypeInit, AuthorityInit
<1>2. TypeInv /\ AuthorityInv /\ [Next]_vars => TypeInv' /\ AuthorityInv'
  BY TypeStep, AuthorityStep
<1>3. AuthorityInv => EvidenceFirst
  BY DEF AuthorityInv, EvidenceFirst
<1>. QED  BY <1>1, <1>2, <1>3, PTL DEF Spec
-----------------------------------------------------------------------------
(***************************************************************************)
(* The books.  A reservation that is not being executed names the attempt  *)
(* that made it; once it has a receipt it is not touched again, and that   *)
(* receipt is the answer every attempt at it gave and the public part of   *)
(* the engine's result.  The traces that entered the engine pair off with  *)
(* its results, but for one that a call in progress has just recorded.     *)
(***************************************************************************)
Underway(id) == pc \in {"check", "engine"} /\ request.id = id

\* What an entry says, while its identity is executed and afterwards.
EntryOK(id) ==
    LET e == requests[id] IN
    /\ e.fingerprint.id = id
    /\ e.receipt # NoReceipt =>
           e.receipt.actor = e.actor /\ e.receipt.reason # "REQUEST_ID_CONFLICT"
    /\ Underway(id) =>
           /\ e.fingerprint = request /\ e.actor = caller
           /\ e.receipt = NoReceipt /\ e.attempt = Len(traces) + 1
    /\ ~Underway(id) =>
           /\ e.attempt \in DOMAIN traces
           /\ traces[e.attempt].retry_of = Original
           /\ traces[e.attempt].request.id = id

EntryInv == \A id \in Ids : Reserved(id) => EntryOK(id)

\* An answer, other than being told of a conflict, is the one in the entry.
AnswerOK(trace) ==
    LET p == trace.receipt
        e == requests[trace.request.id]
    IN  p # NoReceipt /\ p.reason # "REQUEST_ID_CONFLICT" =>
            /\ Reserved(trace.request.id)
            /\ e.fingerprint = trace.request /\ e.actor = p.actor /\ e.receipt = p

AnswerInv == \A i \in DOMAIN traces : AnswerOK(traces[i])

RecordOK(k) ==
    LET r == record[k].request
        e == requests[r.id]
    IN  /\ Reserved(r.id) /\ e.fingerprint = r
        /\ ~Underway(r.id) => e.receipt = PublicResult(e.actor, r, record[k])

RecordInv == \A k \in DOMAIN record : RecordOK(k)

Unpaired(k) == settled /\ k = Len(record)

Paired ==
    /\ \A k \in DOMAIN record : Unpaired(k) \/ \E i \in DOMAIN traces : Shows(i, k)
    /\ \A i \in DOMAIN traces :
        traces[i].engine_submitted /\ traces[i].result # NoResult =>
            \E k \in DOMAIN record : Shows(i, k)
    /\ \A i, j \in DOMAIN traces, k, l \in DOMAIN record :
        Shows(i, k) /\ Shows(j, l) => (i < j <=> k < l)

BookInv ==
    /\ EntryInv /\ AnswerInv /\ AnsweredAlike /\ RetriesLinked
    /\ RecordInv /\ Paired

\* A new session has empty books.
LEMMA BookInit == Init => BookInv
BY DEF Init, EngineInit, BookInv, EntryInv, Reserved, AnswerInv, AnsweredAlike, RetriesLinked,
   RecordInv, Paired

\* Requests and traces have the identities they are filed under.
LEMMA TraceFacts ==
    ASSUME TypeOK, NEW i \in DOMAIN traces
    PROVE  /\ traces[i] \in Traces /\ traces[i].request \in Requests
           /\ traces[i].request.id \in Ids
<1>1. traces[i] \in Traces
  BY DEF TypeOK
<1>. QED  BY <1>1, RequestFacts DEF Traces

\* An entry nobody is executing stays right when traces are added.
LEMMA EntryStands ==
    ASSUME TypeOK, NEW id \in Ids, Reserved(id), EntryOK(id), NEW trace, Traced(trace),
           requests'[id] = requests[id], ~Underway(id), ~Underway(id)'
    PROVE  EntryOK(id)'
<1>1. /\ \A i \in DOMAIN traces : i \in DOMAIN traces' /\ traces'[i] = traces[i]
  BY TraceAdded
<1>2. requests[id].attempt \in DOMAIN traces
  BY DEF EntryOK
<1>. QED  BY <1>1, <1>2 DEF EntryOK

\* After a submission has ended, the entries are right if its own entry is.
LEMMA EntriesAfter ==
    ASSUME TypeOK, EntryInv, NEW trace, Traced(trace), NEW id \in Ids,
           pc \in {"check", "engine"} => request.id = id,
           pc' \notin {"check", "engine"},
           \A other \in Ids \ {id} : requests'[other] = requests[other],
           Reserved(id)' => EntryOK(id)'
    PROVE  EntryInv'
<1>. SUFFICES ASSUME NEW other \in Ids, other # id, Reserved(other)'
              PROVE  EntryOK(other)'
  BY DEF EntryInv
<1>1. Reserved(other) /\ requests'[other] = requests[other]
  BY DEF Reserved
<1>2. ~Underway(other) /\ ~Underway(other)'
  BY DEF Underway
<1>. QED  BY <1>1, <1>2, EntryStands DEF EntryInv

\* The new trace gives the answer of the entry, and entries that gave one stay.
LEMMA AnswersAfter ==
    ASSUME TypeOK, AnswerInv, AnsweredAlike, NEW trace \in Traces, Traced(trace),
           \A other \in Ids : Reserved(other) /\ requests[other].receipt # NoReceipt =>
                                  requests'[other] = requests[other],
           AnswerOK(trace)',
           LET e == requests[trace.request.id] IN
               /\ Reserved(trace.request.id) /\ e.receipt # NoReceipt
               /\ e.fingerprint = trace.request
               /\ trace.receipt # NoReceipt /\ trace.receipt.actor = e.actor
               => trace.receipt = e.receipt
    PROVE  AnswerInv' /\ AnsweredAlike'
<1>. DEFINE n == Len(traces)
<1>1. /\ n \in Nat /\ DOMAIN traces = 1..n /\ DOMAIN traces' = 1..(n + 1)
      /\ \A i \in 1..n : traces'[i] = traces[i]
      /\ traces'[n + 1] = trace
      /\ \A i \in DOMAIN traces' : i \in 1..n \/ i = n + 1
  BY TraceAdded
<1>. HIDE DEF n
<1>2. ASSUME NEW i \in 1..n  PROVE AnswerOK(traces[i])'
  <2>1. traces[i].request.id \in Ids /\ AnswerOK(traces[i])
    BY <1>1, TraceFacts DEF AnswerInv
  <2>2. traces'[i] = traces[i]
    BY <1>1
  <2>. QED  BY <2>1, <2>2 DEF AnswerOK, Reserved
<1>3. AnswerInv'
  BY <1>1, <1>2 DEF AnswerInv
<1>4. ASSUME NEW i \in DOMAIN traces', NEW j \in DOMAIN traces', i < j,
             traces'[i].request = traces'[j].request,
             traces'[i].receipt # NoReceipt, traces'[j].receipt # NoReceipt,
             traces'[i].receipt.actor = traces'[j].receipt.actor,
             traces'[i].receipt.reason # "REQUEST_ID_CONFLICT"
      PROVE  traces'[i].receipt = traces'[j].receipt
  <2>1. i \in 1..n
    BY <1>1, <1>4
  <2>2. CASE j \in 1..n
    BY <1>1, <1>4, <2>1, <2>2 DEF AnsweredAlike
  <2>3. CASE j = n + 1
    <3>1. AnswerOK(traces[i]) /\ traces'[i] = traces[i] /\ traces'[j] = trace
      BY <1>1, <2>1, <2>3 DEF AnswerInv
    <3>. QED  BY <1>4, <3>1 DEF AnswerOK
  <2>. QED  BY <1>1, <2>2, <2>3
<1>5. AnsweredAlike'
  BY <1>4 DEF AnsweredAlike
<1>. QED  BY <1>3, <1>5

\* A new trace is linked to an original of its identity, or is an original.
LEMMA RetriesAfter ==
    ASSUME TypeOK, RetriesLinked, NEW trace, Traced(trace),
           trace.retry_of # Original =>
               /\ trace.retry_of \in DOMAIN traces
               /\ traces[trace.retry_of].retry_of = Original
               /\ traces[trace.retry_of].request.id = trace.request.id
    PROVE  RetriesLinked'
<1>. DEFINE n == Len(traces)
<1>1. /\ n \in Nat /\ DOMAIN traces = 1..n
      /\ \A i \in 1..n : traces'[i] = traces[i]
      /\ traces'[n + 1] = trace
      /\ \A i \in DOMAIN traces' : i \in 1..n \/ i = n + 1
  BY TraceAdded
<1>. HIDE DEF n
<1>. SUFFICES ASSUME NEW i \in DOMAIN traces', traces'[i].retry_of # Original
              PROVE  LET k == traces'[i].retry_of IN
                     /\ k \in 1..(i - 1) /\ traces'[k].retry_of = Original
                     /\ traces'[k].request.id = traces'[i].request.id
  BY DEF RetriesLinked
<1>2. CASE i \in 1..n
  <2>1. traces[i].retry_of \in 1..(i - 1)
        /\ traces[traces[i].retry_of].retry_of = Original
        /\ traces[traces[i].retry_of].request.id = traces[i].request.id
    BY <1>1, <1>2 DEF RetriesLinked
  <2>2. traces[i].retry_of \in 1..n
    BY <1>1, <1>2, <2>1
  <2>. QED  BY <1>1, <1>2, <2>1, <2>2
<1>3. CASE i = n + 1
  BY <1>1, <1>3
<1>. QED  BY <1>1, <1>2, <1>3

\* Results of other identities keep their entries when a submission ends.
LEMMA RecordsAfter ==
    ASSUME TypeOK, RecordInv, NEW id \in Ids,
           pc \in {"check", "engine"} => request.id = id,
           pc' \notin {"check", "engine"},
           \A other \in Ids \ {id} : requests'[other] = requests[other],
           \A k \in DOMAIN record' : \/ record'[k].request.id = id
                                     \/ k \in DOMAIN record /\ record'[k] = record[k],
           \A k \in DOMAIN record' : record'[k].request.id = id => RecordOK(k)'
    PROVE  RecordInv'
<1>. SUFFICES ASSUME NEW k \in DOMAIN record', record'[k].request.id # id
              PROVE  RecordOK(k)'
  BY DEF RecordInv
<1>1. k \in DOMAIN record /\ record'[k] = record[k] /\ RecordOK(k)
  BY DEF RecordInv
<1>2. record[k].request.id \in Ids
  <2>1. record[k] \in Results
    BY <1>1 DEF TypeOK
  <2>. QED  BY <2>1, RequestFacts DEF Results
<1>3. requests'[record[k].request.id] = requests[record[k].request.id]
      /\ ~Underway(record[k].request.id)
  BY <1>1, <1>2 DEF Underway
<1>. QED  BY <1>1, <1>3 DEF RecordOK, Reserved

\* A trace without a result leaves the pairing alone.
LEMMA PairedUnshown ==
    ASSUME TypeOK, Paired, NEW trace, Traced(trace),
           ~(trace.engine_submitted /\ trace.result # NoResult),
           record' = record, settled' = settled
    PROVE  Paired'
<1>. DEFINE n == Len(traces)
<1>1. /\ n \in Nat /\ DOMAIN traces = 1..n
      /\ \A i \in 1..n : i \in DOMAIN traces' /\ traces'[i] = traces[i]
      /\ traces'[n + 1] = trace
      /\ \A i \in DOMAIN traces' : i \in 1..n \/ i = n + 1
  BY TraceAdded
<1>. HIDE DEF n
<1>2. \A k \in DOMAIN record : record[k] # NoResult
  BY NoneFacts DEF TypeOK
<1>3. ASSUME NEW i \in DOMAIN traces', NEW k \in DOMAIN record, Shows(i, k)'
      PROVE  i \in DOMAIN traces /\ Shows(i, k)
  BY <1>1, <1>2, <1>3 DEF Shows
<1>4. ASSUME NEW i \in DOMAIN traces, NEW k \in DOMAIN record, Shows(i, k)
      PROVE  i \in DOMAIN traces' /\ Shows(i, k)'
  BY <1>1, <1>4 DEF Shows
<1>5. \A k \in DOMAIN record' : Unpaired(k)' \/ \E i \in DOMAIN traces' : Shows(i, k)'
  BY <1>4 DEF Paired, Unpaired
<1>6. ASSUME NEW i \in DOMAIN traces', traces'[i].engine_submitted, traces'[i].result # NoResult
      PROVE  \E k \in DOMAIN record' : Shows(i, k)'
  <2>1. i \in DOMAIN traces /\ traces'[i] = traces[i]
    BY <1>1, <1>6
  <2>. QED  BY <1>4, <1>6, <2>1 DEF Paired
<1>7. \A i, j \in DOMAIN traces', k, l \in DOMAIN record' :
          Shows(i, k)' /\ Shows(j, l)' => (i < j <=> k < l)
  BY <1>3 DEF Paired
<1>. QED  BY <1>5, <1>6, <1>7 DEF Paired

\* A trace with the last result pairs off with it.
LEMMA PairedShown ==
    ASSUME TypeOK, Paired, NEW trace, Traced(trace), NEW last \in DOMAIN record',
           trace.engine_submitted, trace.result = record'[last],
           trace.request = record'[last].request, record'[last] # NoResult,
           ~Entered(trace.request.id), ~settled', ResolvedOnce',
           \A k \in DOMAIN record' : /\ k \in Nat /\ k <= last
                                     /\ k # last => k \in DOMAIN record /\ ~Unpaired(k),
           \A k \in DOMAIN record : k \in DOMAIN record' /\ record'[k] = record[k]
    PROVE  Paired'
<1>0. PICK n \in Nat : n = Len(traces)
  BY DEF TypeOK
<1>1. /\ n \in Nat /\ DOMAIN traces = 1..n /\ n + 1 \in DOMAIN traces'
      /\ \A i \in 1..n : i \in DOMAIN traces' /\ traces'[i] = traces[i]
      /\ traces'[n + 1] = trace
      /\ \A i \in DOMAIN traces' : i \in 1..n \/ i = n + 1
  BY <1>0, TraceAdded
<1>2. \A i \in 1..n : traces[i].engine_submitted => traces[i].request.id # trace.request.id
  BY <1>1 DEF Entered
<1>3. ASSUME NEW i \in 1..n, NEW k \in DOMAIN record', Shows(i, k)'
      PROVE  k # last /\ k \in DOMAIN record /\ Shows(i, k)
  <2>1. k # last
    BY <1>1, <1>2, <1>3 DEF Shows
  <2>. QED  BY <1>1, <1>3, <2>1 DEF Shows
<1>4. ASSUME NEW k \in DOMAIN record', Shows(n + 1, k)'
      PROVE  k = last
  BY <1>1, <1>4 DEF Shows, ResolvedOnce
<1>5. Shows(n + 1, last)'
  BY <1>1 DEF Shows
<1>6. ASSUME NEW i \in 1..n, NEW k \in DOMAIN record, Shows(i, k)
      PROVE  i \in DOMAIN traces' /\ k \in DOMAIN record' /\ Shows(i, k)'
  BY <1>1, <1>6 DEF Shows
<1>7. ASSUME NEW k \in DOMAIN record'
      PROVE  \E i \in DOMAIN traces' : Shows(i, k)'
  <2>1. CASE k = last
    BY <1>1, <1>5, <2>1
  <2>2. CASE k # last
    BY <1>1, <1>6, <2>2 DEF Paired
  <2>. QED  BY <2>1, <2>2
<1>8. ASSUME NEW i \in DOMAIN traces', traces'[i].engine_submitted, traces'[i].result # NoResult
      PROVE  \E k \in DOMAIN record' : Shows(i, k)'
  <2>1. CASE i \in 1..n
    <3>1. PICK k \in DOMAIN record : Shows(i, k)
      BY <1>1, <1>8, <2>1 DEF Paired
    <3>. QED  BY <1>6, <2>1, <3>1
  <2>2. CASE i = n + 1
    BY <1>5, <2>2
  <2>. QED  BY <1>1, <2>1, <2>2
<1>9. ASSUME NEW i \in DOMAIN traces', NEW j \in DOMAIN traces',
             NEW k \in DOMAIN record', NEW l \in DOMAIN record', Shows(i, k)', Shows(j, l)'
      PROVE  i < j <=> k < l
  <2>1. /\ i \in 1..n => k \in DOMAIN record /\ Shows(i, k) /\ k # last
        /\ j \in 1..n => l \in DOMAIN record /\ Shows(j, l) /\ l # last
        /\ i = n + 1 => k = last
        /\ j = n + 1 => l = last
    BY <1>3, <1>4, <1>9
  <2>2. k \in Nat /\ l \in Nat /\ k <= last /\ l <= last /\ last \in Nat
    OBVIOUS
  <2>3. CASE i \in 1..n /\ j \in 1..n
    BY <1>1, <2>1, <2>3 DEF Paired
  <2>4. CASE i = n + 1
    BY <1>1, <2>1, <2>2, <2>4
  <2>5. CASE j = n + 1
    BY <1>1, <2>1, <2>2, <2>5
  <2>. QED  BY <1>1, <2>3, <2>4, <2>5
<1>. QED  BY <1>7, <1>8, <1>9 DEF Paired

\* A result that is recorded awaits the trace of its call.
LEMMA PairedSettled ==
    ASSUME TypeOK, Paired, NEW result \in Results, record' = Append(record, result),
           traces' = traces, ~settled, settled', ~Entered(result.request.id)
    PROVE  Paired'
<1>0. PICK n \in Nat : n = Len(record)
  BY DEF TypeOK
<1>1. /\ n \in Nat /\ n = Len(record) /\ DOMAIN record = 1..n /\ DOMAIN record' = 1..(n + 1)
      /\ Len(record') = n + 1
      /\ \A k \in 1..n : record'[k] = record[k]
      /\ record'[n + 1] = result
  BY <1>0 DEF TypeOK
<1>2. \A k \in 1..(n + 1) : k \in 1..n \/ k = n + 1
  BY <1>1
<1>3. \A i \in DOMAIN traces : ~Shows(i, n + 1)'
  BY <1>1 DEF Shows, Entered
<1>4. \A i \in DOMAIN traces, k \in 1..n : Shows(i, k)' <=> Shows(i, k)
  BY <1>1 DEF Shows
<1>5. \A k \in DOMAIN record' : Unpaired(k)' \/ \E i \in DOMAIN traces' : Shows(i, k)'
  BY <1>1, <1>2, <1>4 DEF Paired, Unpaired
<1>6. ASSUME NEW i \in DOMAIN traces', traces'[i].engine_submitted, traces'[i].result # NoResult
      PROVE  \E k \in DOMAIN record' : Shows(i, k)'
  <2>1. PICK k \in 1..n : Shows(i, k)
    BY <1>1, <1>6 DEF Paired
  <2>2. k \in 1..(n + 1)
    BY <1>1
  <2>. QED  BY <1>1, <1>4, <2>1, <2>2
<1>7. \A i, j \in DOMAIN traces', k, l \in DOMAIN record' :
          Shows(i, k)' /\ Shows(j, l)' => (i < j <=> k < l)
  <2>1. \A i, j \in DOMAIN traces, k, l \in 1..n :
            Shows(i, k)' /\ Shows(j, l)' => (i < j <=> k < l)
    BY <1>1, <1>4 DEF Paired
  <2>. QED  BY <1>1, <1>2, <1>3, <2>1
<1>. QED  BY <1>5, <1>6, <1>7 DEF Paired

\* Steps that keep the books and the submission being executed.
LEMMA BookQuiet ==
    ASSUME BookInv, UNCHANGED <<requests, traces, record, settled>>,
           pc \in {"check", "engine"} <=> pc' \in {"check", "engine"},
           pc \in {"check", "engine"} => UNCHANGED <<request, caller>>
    PROVE  BookInv'
<1>1. \A id : Underway(id)' <=> Underway(id)
  BY DEF Underway
<1>2. EntryInv'
  BY <1>1 DEF BookInv, EntryInv, EntryOK, Reserved, Underway
<1>3. AnswerInv' /\ AnsweredAlike' /\ RetriesLinked'
  BY DEF BookInv, AnswerInv, AnswerOK, AnsweredAlike, RetriesLinked, Reserved
<1>4. RecordInv'
  BY <1>1 DEF BookInv, RecordInv, RecordOK, Reserved, PublicResult, Receipt
<1>5. Paired'
  BY DEF BookInv, Paired, Unpaired, Shows
<1>. QED  BY <1>2, <1>3, <1>4, <1>5 DEF BookInv

\* The books after a submission that was executed, as far as the engine or a
\* denial got, and left kept as the receipt of its identity.
LEMMA BookEnded ==
    ASSUME TypeInv, BookInv, pc \in {"check", "engine"}, pc' = "idle",
           NEW r \in Requests, r = request, NEW a \in Actors, a = caller,
           NEW trace \in Traces, Traced(trace), trace.request = r, trace.retry_of = Original,
           NEW kept, trace.receipt # NoReceipt => trace.receipt = kept,
           kept # NoReceipt => kept.actor = a /\ kept.reason # "REQUEST_ID_CONFLICT",
           \A other \in Ids \ {r.id} : requests'[other] = requests[other],
           requests'[r.id] # NoEntry, requests'[r.id].fingerprint = r,
           requests'[r.id].actor = a, requests'[r.id].receipt = kept,
           requests'[r.id].attempt = Len(traces) + 1,
           \A k \in DOMAIN record' : \/ record'[k].request.id = r.id
                                     \/ k \in DOMAIN record /\ record'[k] = record[k],
           \A k \in DOMAIN record' :
               record'[k].request.id = r.id =>
                   record'[k].request = r /\ kept = PublicResult(a, r, record'[k])
    PROVE  EntryInv' /\ AnswerInv' /\ AnsweredAlike' /\ RetriesLinked' /\ RecordInv'
<1>1. TypeOK /\ r.id \in Ids /\ Reserved(r.id) /\ Underway(r.id)
  BY RequestFacts DEF TypeInv, PortInv, Reserved, Underway
<1>2. requests[r.id].receipt = NoReceipt
  BY <1>1 DEF EntryOK, BookInv, EntryInv
<1>3. \A id : ~Underway(id)'
  BY DEF Underway
<1>4. Len(traces) + 1 \in DOMAIN traces' /\ traces'[Len(traces) + 1] = trace
  BY <1>1, TraceAdded
<1>5. EntryOK(r.id)'
  <2>1. requests'[r.id].fingerprint.id = r.id
    OBVIOUS
  <2>2. /\ requests'[r.id].attempt \in DOMAIN traces'
        /\ traces'[requests'[r.id].attempt].retry_of = Original
        /\ traces'[requests'[r.id].attempt].request.id = r.id
    BY <1>4
  <2>. QED  BY <1>3, <2>1, <2>2 DEF EntryOK
<1>6. EntryInv'
  BY <1>1, <1>5, EntriesAfter DEF BookInv
<1>7. AnswerInv' /\ AnsweredAlike'
  <2>1. \A other \in Ids : Reserved(other) /\ requests[other].receipt # NoReceipt =>
                               requests'[other] = requests[other]
    BY <1>2
  <2>2. AnswerOK(trace)'
    BY DEF AnswerOK, Reserved
  <2>. QED  BY <1>1, <1>2, <2>1, <2>2, AnswersAfter DEF BookInv
<1>8. RetriesLinked'
  BY <1>1, RetriesAfter DEF BookInv
<1>9. RecordInv'
  <2>1. \A k \in DOMAIN record' : record'[k].request.id = r.id => RecordOK(k)'
    BY <1>3 DEF RecordOK, Reserved
  <2>. QED  BY <1>1, <2>1, RecordsAfter DEF BookInv
<1>. QED  BY <1>6, <1>7, <1>8, <1>9

\* What becomes of an entry that is given its receipt.
LEMMA EntryStored ==
    ASSUME TypeInv, BookInv, pc \in {"check", "engine"},
           NEW r \in Requests, r = request, NEW visible \in Receipts,
           requests' = [requests EXCEPT ![request.id].receipt = visible]
    PROVE  /\ \A other \in Ids \ {r.id} : requests'[other] = requests[other]
           /\ requests'[r.id] # NoEntry /\ requests'[r.id].fingerprint = r
           /\ requests'[r.id].actor = caller /\ requests'[r.id].receipt = visible
           /\ requests'[r.id].attempt = Len(traces) + 1
<1>1. /\ requests \in [Ids -> Entries \union {NoEntry}] /\ r.id \in Ids
      /\ requests[r.id] # NoEntry
  BY RequestFacts DEF TypeInv, TypeOK, PortInv
<1>2. requests[r.id] \in Entries /\ EntryOK(r.id) /\ Underway(r.id)
  BY <1>1 DEF BookInv, EntryInv, Reserved, Underway
<1>. DEFINE e == [requests[r.id] EXCEPT !.receipt = visible]
<1>3. e \in Entries
  BY <1>2 DEF Entries
<1>4. /\ e.fingerprint = requests[r.id].fingerprint /\ e.actor = requests[r.id].actor
      /\ e.attempt = requests[r.id].attempt /\ e.receipt = visible
  BY <1>2 DEF Entries
<1>5. requests' = [requests EXCEPT ![r.id] = e]
  OBVIOUS
<1>. HIDE DEF e
<1>6. requests'[r.id] = e /\ \A other \in Ids \ {r.id} : requests'[other] = requests[other]
  BY <1>1, <1>5
<1>7. e # NoEntry
  BY <1>3, EntryFacts
<1>. QED  BY <1>2, <1>4, <1>6, <1>7 DEF EntryOK

\* A submission that is turned down or repeated while nothing is executed.
LEMMA BookOutside ==
    ASSUME TypeInv, BookInv, NEW a \in Actors, NEW r \in Requests,
           SubmitConflicting(a, r) \/ SubmitAgain(a, r)
    PROVE  BookInv'
<1>1. /\ pc = "idle" /\ pc' = pc /\ requests' = requests /\ record' = record
      /\ settled' = settled /\ r.id \in Ids /\ Reserved(r.id) /\ TypeOK
  BY RequestFacts DEF SubmitConflicting, SubmitAgain, Submission, Enter, TypeInv, PortInv,
     Reserved, engine, stack
<1>2. /\ \A id : ~Underway(id) /\ ~Underway(id)'
      /\ EntryOK(r.id)
  BY <1>1 DEF Underway, BookInv, EntryInv
<1>3. PICK trace \in Traces : /\ Traced(trace) /\ trace.request = r
                              /\ ~trace.engine_submitted
                              /\ trace.retry_of = requests[r.id].attempt
                              /\ \/ /\ ~Matches(a, r) /\ trace.receipt.actor = a
                                    /\ trace.receipt.reason = "REQUEST_ID_CONFLICT"
                                 \/ Matches(a, r) /\ trace.receipt = requests[r.id].receipt
  <2>1. /\ requests[r.id] \in Entries /\ requests[r.id].receipt \in Receipts \union {NoReceipt}
        /\ requests[r.id].attempt \in Nat /\ Denial(a, r, "REQUEST_ID_CONFLICT") \in Receipts
    <3>1. requests[r.id] \in Entries
      BY <1>1 DEF TypeOK, Reserved
    <3>2. Denial(a, r, "REQUEST_ID_CONFLICT") \in Receipts
      BY <1>1, DenialType DEF TypeOK, Reasons
    <3>. QED  BY <3>1, <3>2 DEF Entries
  <2>2. CASE SubmitConflicting(a, r)
    <3>. DEFINE t == Trace(r, NoResult, Denial(a, r, "REQUEST_ID_CONFLICT"), FALSE, requests[r.id].attempt)
    <3>1. Traced(t) /\ ~Matches(a, r)
      BY <2>2 DEF SubmitConflicting
    <3>2. t \in Traces
      BY <2>1 DEF Trace, Traces
    <3>3. /\ t.request = r /\ ~t.engine_submitted /\ t.retry_of = requests[r.id].attempt
          /\ t.receipt.reason = "REQUEST_ID_CONFLICT" /\ t.receipt.actor = a
      BY DEF Trace, Denial, Receipt
    <3>. HIDE DEF t
    <3>. QED  BY <3>1, <3>2, <3>3
  <2>3. CASE SubmitAgain(a, r)
    <3>. DEFINE t == Trace(r, NoResult, requests[r.id].receipt, FALSE, requests[r.id].attempt)
    <3>1. Traced(t) /\ Matches(a, r)
      BY <2>3 DEF SubmitAgain
    <3>2. t \in Traces
      BY <2>1 DEF Trace, Traces
    <3>3. /\ t.request = r /\ ~t.engine_submitted /\ t.retry_of = requests[r.id].attempt
          /\ t.receipt = requests[r.id].receipt
      BY DEF Trace
    <3>. HIDE DEF t
    <3>. QED  BY <3>1, <3>2, <3>3
  <2>. QED  BY <2>2, <2>3
<1>4. EntryInv'
  <2>1. EntryOK(r.id)'
    BY <1>1, <1>2, <1>3, EntryStands
  <2>. QED  BY <1>1, <1>3, <2>1, EntriesAfter DEF BookInv
<1>5. AnswerInv' /\ AnsweredAlike'
  <2>1. AnswerOK(trace)'
    BY <1>1, <1>2, <1>3 DEF AnswerOK, Reserved, Matches, EntryOK
  <2>2. requests[r.id].fingerprint = r /\ trace.receipt.actor = requests[r.id].actor =>
            trace.receipt = requests[r.id].receipt
    BY <1>3 DEF Matches
  <2>. QED  BY <1>1, <1>3, <2>1, <2>2, AnswersAfter DEF BookInv
<1>6. RetriesLinked'
  BY <1>1, <1>2, <1>3, RetriesAfter DEF BookInv, EntryOK
<1>7. RecordInv'
  BY <1>1, <1>2 DEF BookInv, RecordInv, RecordOK, Reserved, PublicResult, Receipt
<1>8. Paired'
  BY <1>1, <1>3, PairedUnshown DEF BookInv
<1>. QED  BY <1>4, <1>5, <1>6, <1>7, <1>8 DEF BookInv

\* A request that is denied before it is executed: its entry is final at once.
LEMMA BookDenied ==
    ASSUME TypeInv, OnceInv, BookInv, NEW a \in Actors, NEW r \in Requests, SubmitDenied(a, r)
    PROVE  BookInv'
<1>a. PICK visible : visible = Denial(a, r, AuthorityReason(a, r))
  OBVIOUS
<1>b. PICK entry : entry = Entry(a, r, Len(traces) + 1, visible)
  OBVIOUS
<1>c. PICK trace : trace = Trace(r, NoResult, visible, FALSE, Original)
  OBVIOUS
<1>1. /\ pc = "idle" /\ pc' = pc /\ record' = record /\ settled' = settled
      /\ r.id \in Ids /\ ~Reserved(r.id) /\ TypeOK
      /\ Traced(trace) /\ requests' = [requests EXCEPT ![r.id] = entry]
  BY <1>a, <1>b, <1>c, RequestFacts DEF SubmitDenied, Submission, Enter, TypeInv, PortInv, Reserved, engine, stack,
     SetEntry
<1>2. \A id : ~Underway(id) /\ ~Underway(id)'
  BY <1>1 DEF Underway
<1>3. visible \in Receipts /\ visible # NoReceipt /\ visible.actor = a
      /\ visible.reason # "REQUEST_ID_CONFLICT"
  <2>1. AuthorityReason(a, r) \in DenialReasons
    BY DEF SubmitDenied, AuthorityReason, DenialReasons
  <2>2. visible \in Receipts
    BY <1>a, <1>1, <2>1, DenialType DEF TypeOK, Reasons
  <2>3. visible.actor = a /\ visible.reason = AuthorityReason(a, r)
    BY <1>a DEF Denial, Receipt
  <2>. QED  BY <2>1, <2>2, <2>3, NoneFacts DEF DenialReasons
<1>4. trace \in Traces /\ trace.request = r /\ ~trace.engine_submitted
      /\ trace.retry_of = Original /\ trace.receipt = visible
  BY <1>c, <1>3 DEF Trace, Traces, Original
<1>5. entry.fingerprint = r /\ entry.actor = a /\ entry.receipt = visible
      /\ entry.attempt = Len(traces) + 1 /\ entry # NoEntry
  BY <1>b DEF Entry, NoEntry
<1>6. Len(traces) + 1 \in DOMAIN traces' /\ traces'[Len(traces) + 1] = trace
  BY <1>1, TraceAdded
<1>7. /\ requests'[r.id] = entry
      /\ \A other \in Ids \ {r.id} : requests'[other] = requests[other]
  BY <1>1 DEF TypeOK
<1>8. EntryInv'
  <2>1. EntryOK(r.id)'
    BY <1>2, <1>3, <1>4, <1>5, <1>6, <1>7 DEF EntryOK
  <2>. QED  BY <1>1, <1>7, <2>1, EntriesAfter DEF BookInv
<1>9. AnswerInv' /\ AnsweredAlike'
  <2>1. AnswerOK(trace)'
    BY <1>3, <1>4, <1>5, <1>7 DEF AnswerOK, Reserved
  <2>. QED  BY <1>1, <1>4, <1>7, <2>1, AnswersAfter DEF BookInv
<1>10. RetriesLinked'
  BY <1>1, <1>4, RetriesAfter DEF BookInv
<1>11. RecordInv'
  <2>1. \A k \in DOMAIN record' : record'[k].request.id # r.id
    BY <1>1 DEF OnceInv, Resolved
  <2>. QED  BY <1>1, <1>7, <2>1, RecordsAfter DEF BookInv
<1>12. Paired'
  BY <1>1, <1>4, PairedUnshown DEF BookInv
<1>. QED  BY <1>8, <1>9, <1>10, <1>11, <1>12 DEF BookInv

\* A request whose execution begins: its identity had no answer and no result.
LEMMA BookFresh ==
    ASSUME TypeInv, OnceInv, BookInv, NEW a \in Actors, NEW r \in Requests, SubmitFresh(a, r)
    PROVE  BookInv'
<1>. DEFINE entry == Entry(a, r, Len(traces) + 1, NoReceipt)
<1>1. /\ pc = "idle" /\ pc' = "check" /\ request' = r /\ caller' = a
      /\ record' = record /\ settled' = settled /\ traces' = traces
      /\ r.id \in Ids /\ ~Reserved(r.id) /\ TypeOK
      /\ requests' = [requests EXCEPT ![r.id] = entry]
  BY RequestFacts DEF SubmitFresh, Submission, Enter, TypeInv, PortInv, Reserved, engine, SetEntry
<1>2. \A id : ~Underway(id) /\ (Underway(id)' <=> id = r.id)
  BY <1>1 DEF Underway
<1>3. entry.fingerprint = r /\ entry.actor = a /\ entry.receipt = NoReceipt
      /\ entry.attempt = Len(traces) + 1 /\ entry # NoEntry
  BY DEF Entry, NoEntry
<1>. HIDE DEF entry
<1>4. /\ requests'[r.id] = entry
      /\ \A other \in Ids \ {r.id} : requests'[other] = requests[other]
  BY <1>1 DEF TypeOK
<1>5. EntryInv'
  <2>1. EntryOK(r.id)'
    BY <1>1, <1>2, <1>3, <1>4 DEF EntryOK
  <2>2. ASSUME NEW other \in Ids \ {r.id}, Reserved(other)'
        PROVE  EntryOK(other)'
    <3>1. Reserved(other) /\ EntryOK(other)
      BY <1>4, <2>2 DEF Reserved, BookInv, EntryInv
    <3>. QED  BY <1>1, <1>2, <1>4, <3>1 DEF EntryOK
  <2>. QED  BY <2>1, <2>2 DEF EntryInv
<1>6. AnswerInv'
  <2>. SUFFICES ASSUME NEW i \in DOMAIN traces  PROVE AnswerOK(traces[i])'
    BY <1>1 DEF AnswerInv
  <2>1. AnswerOK(traces[i]) /\ traces[i].request.id \in Ids /\ traces'[i] = traces[i]
    BY <1>1, TraceFacts DEF BookInv, AnswerInv
  <2>. QED  BY <1>1, <1>4, <2>1 DEF AnswerOK, Reserved
<1>7. RecordInv'
  <2>. SUFFICES ASSUME NEW k \in DOMAIN record  PROVE RecordOK(k)'
    BY <1>1 DEF RecordInv
  <2>1. RecordOK(k) /\ record'[k] = record[k]
    BY <1>1 DEF BookInv, RecordInv
  <2>2. record[k].request.id \in Ids \ {r.id}
    <3>1. record[k] \in Results
      BY DEF TypeInv, TypeOK
    <3>2. record[k].request.id \in Ids
      BY <3>1, RequestFacts DEF Results
    <3>. QED  BY <1>1, <2>1, <3>2 DEF RecordOK
  <2>. QED  BY <1>2, <1>4, <2>1, <2>2 DEF RecordOK, Reserved
<1>8. AnsweredAlike' /\ RetriesLinked' /\ Paired'
  BY <1>1 DEF BookInv, AnsweredAlike, RetriesLinked, Paired, Unpaired, Shows
<1>. QED  BY <1>5, <1>6, <1>7, <1>8 DEF BookInv

\* A reservation that is given up had answered nobody.
LEMMA BookReleased ==
    ASSUME TypeInv, OnceInv, BookInv, FailKnowledge
    PROVE  BookInv'
<1>0. request \in Requests
  BY DEF FailKnowledge, TypeInv, PortInv
<1>. DEFINE t == Trace(request, NoResult, NoReceipt, FALSE, Original)
<1>1. PICK r \in Requests : r = request
  BY <1>0
<1>2. PICK trace \in Traces : /\ Traced(trace) /\ trace.request = r /\ ~trace.engine_submitted
                              /\ trace.receipt = NoReceipt /\ trace.retry_of = Original
  <2>1. t \in Traces /\ Traced(t)
    BY <1>0 DEF Trace, Traces, Original, FailKnowledge
  <2>2. /\ t.request = r /\ ~t.engine_submitted /\ t.receipt = NoReceipt /\ t.retry_of = Original
    BY <1>1 DEF Trace
  <2>. HIDE DEF t
  <2>. QED  BY <2>1, <2>2
<1>3. /\ pc = "check" /\ pc' = "idle" /\ record' = record /\ settled' = settled /\ TypeOK
      /\ r.id \in Ids /\ requests' = [requests EXCEPT ![r.id] = NoEntry]
      /\ ~Resolved(r.id) /\ Underway(r.id) /\ Reserved(r.id)
  BY <1>1, RequestFacts DEF FailKnowledge, Leave, SetEntry, engine, TypeInv, OnceInv, Underway,
     PortInv, Reserved
<1>4. /\ requests'[r.id] = NoEntry
      /\ \A other \in Ids \ {r.id} : requests'[other] = requests[other]
      /\ requests[r.id].receipt = NoReceipt
  BY <1>3 DEF TypeOK, EntryOK, BookInv, EntryInv
<1>5. EntryInv'
  <2>1. ~Reserved(r.id)'
    BY <1>4 DEF Reserved
  <2>. QED  BY <1>1, <1>2, <1>3, <1>4, <2>1, EntriesAfter DEF BookInv
<1>6. AnswerInv' /\ AnsweredAlike'
  <2>1. AnswerOK(trace)'
    BY <1>2 DEF AnswerOK
  <2>. QED  BY <1>2, <1>3, <1>4, <2>1, AnswersAfter DEF BookInv
<1>7. RetriesLinked'
  BY <1>2, <1>3, RetriesAfter DEF BookInv
<1>8. RecordInv'
  <2>1. \A k \in DOMAIN record' : record'[k].request.id # r.id
    BY <1>3 DEF Resolved
  <2>. QED  BY <1>1, <1>3, <1>4, <2>1, RecordsAfter DEF BookInv
<1>9. Paired'
  BY <1>2, <1>3, PairedUnshown DEF BookInv
<1>. QED  BY <1>5, <1>6, <1>7, <1>8, <1>9 DEF BookInv

\* A submission that was answered: with a denial, or with the engine's result.
LEMMA BookAnswered ==
    ASSUME TypeInv, OnceInv, BookInv, pc \in {"check", "engine"}, request \in Requests,
           caller \in Actors, NEW result \in Results \union {NoResult}, NEW visible \in Receipts,
           NEW submitted \in BOOLEAN, Answer(result, visible, submitted),
           visible.actor = caller, visible.reason # "REQUEST_ID_CONFLICT",
           \A k \in DOMAIN record' : \/ record'[k].request.id = request.id
                                     \/ k \in DOMAIN record /\ record'[k] = record[k],
           \A k \in DOMAIN record' :
               record'[k].request.id = request.id =>
                   record'[k].request = request /\ visible = PublicResult(caller, request, record'[k])
    PROVE  EntryInv' /\ AnswerInv' /\ AnsweredAlike' /\ RetriesLinked' /\ RecordInv'
<1>1. PICK r \in Requests : r = request
  OBVIOUS
<1>2. PICK a \in Actors : a = caller
  OBVIOUS
<1>3. PICK trace : trace = Trace(r, result, visible, submitted, Original)
  OBVIOUS
<1>4. Traced(trace) /\ pc' = "idle"
  BY <1>1, <1>3 DEF Answer, Leave
<1>5. trace \in Traces /\ trace.request = r /\ trace.retry_of = Original
      /\ trace.receipt = visible
  BY <1>3 DEF Trace, Traces, Original
<1>6. /\ \A other \in Ids \ {r.id} : requests'[other] = requests[other]
      /\ requests'[r.id] # NoEntry /\ requests'[r.id].fingerprint = r
      /\ requests'[r.id].actor = a /\ requests'[r.id].receipt = visible
      /\ requests'[r.id].attempt = Len(traces) + 1
  BY <1>1, <1>2, EntryStored, ZenonT(60) DEF Answer
<1>. QED  BY <1>1, <1>2, <1>4, <1>5, <1>6, BookEnded

\* A denial of what was being executed, by the session or for want of a handler.
LEMMA BookRefused ==
    ASSUME TypeInv, OnceInv, BookInv, DenyContent \/ UnknownAction
    PROVE  BookInv'
<1>1. PICK reason \in {"CONTENT_DENIED", "UNKNOWN_ACTION"}, submitted \in BOOLEAN :
          Answer(NoResult, Denial(caller, request, reason), submitted)
  BY DEF DenyContent, UnknownAction
<1>2. /\ pc \in {"check", "engine"} /\ request \in Requests /\ caller \in Actors /\ TypeOK
      /\ record' = record /\ settled = FALSE /\ settled' = FALSE /\ ~Resolved(request.id)
  <2>1. TypeOK /\ PortInv /\ OnceInv /\ settled \in BOOLEAN
    BY DEF TypeInv, TypeOK
  <2>2. CASE DenyContent
    BY <2>1, <2>2 DEF DenyContent, engine, PortInv, OnceInv
  <2>3. CASE UnknownAction
    BY <2>1, <2>3 DEF UnknownAction, Raise, PortInv, OnceInv
  <2>. QED  BY <2>2, <2>3
<1>3. /\ Denial(caller, request, reason) \in Receipts
      /\ Denial(caller, request, reason).actor = caller
      /\ Denial(caller, request, reason).reason = reason
  <2>1. Denial(caller, request, reason) \in Receipts
    BY <1>1, <1>2, DenialType DEF TypeOK, Reasons, DenialReasons
  <2>. QED  BY <2>1 DEF Denial, Receipt
<1>4. \A k \in DOMAIN record' : record'[k].request.id # request.id
  BY <1>2 DEF Resolved
<1>5. EntryInv' /\ AnswerInv' /\ AnsweredAlike' /\ RetriesLinked' /\ RecordInv'
  <2>1. PICK visible \in Receipts : visible = Denial(caller, request, reason)
    BY <1>3
  <2>. QED  BY <1>1, <1>2, <1>3, <1>4, <2>1, BookAnswered
<1>6. Paired'
  <2>1. PICK trace : trace = Trace(request, NoResult, Denial(caller, request, reason), submitted, Original)
    OBVIOUS
  <2>2. Traced(trace) /\ trace.result = NoResult
    BY <1>1, <2>1 DEF Answer, Trace
  <2>. QED  BY <1>2, <2>2, PairedUnshown DEF BookInv
<1>. QED  BY <1>5, <1>6 DEF BookInv

\* The records of the call in progress: with its result, that one is the last.
LEMMA RecordedByCall ==
    ASSUME TypeInv, OnceInv, BookInv, pc = "engine",
           \/ settled /\ record' = record
           \/ ~settled /\ \E e \in Results : e.request = request /\ record' = Append(record, e)
    PROVE  /\ Len(record') \in DOMAIN record' /\ Len(record') = offset + 1
           /\ record'[Len(record')] \in Results /\ record'[Len(record')].request = request
           /\ \A k \in DOMAIN record' :
               /\ k \in Nat /\ k <= Len(record')
               /\ k # Len(record') => /\ k \in DOMAIN record /\ record'[k] = record[k]
                                      /\ ~Unpaired(k) /\ record'[k].request.id # request.id
           /\ \A k \in DOMAIN record : k \in DOMAIN record' /\ record'[k] = record[k]
           /\ ResolvedOnce'
<1>1. /\ record \in Seq(Results) /\ Len(record) \in Nat /\ offset \in Nat /\ ResolvedOnce
      /\ DOMAIN record = 1..Len(record) /\ request \in Requests
  BY DEF TypeInv, TypeOK, PortInv, OnceInv
<1>2. CASE settled /\ record' = record
  <2>1. Len(record) = offset + 1 /\ record[Len(record)].request = request
    BY <1>2 DEF TypeInv, PortInv
  <2>2. Len(record) \in DOMAIN record /\ record[Len(record)] \in Results
    BY <1>1, <2>1
  <2>3. \A k \in DOMAIN record : k # Len(record) => ~Unpaired(k) /\ record[k].request.id # request.id
    BY <2>1, <2>2 DEF Unpaired, OnceInv, ResolvedOnce
  <2>4. ResolvedOnce'
    BY <1>1, <1>2 DEF ResolvedOnce
  <2>. QED  BY <1>1, <1>2, <2>1, <2>2, <2>3, <2>4
<1>3. CASE ~settled /\ \E e \in Results : e.request = request /\ record' = Append(record, e)
  <2>1. PICK e \in Results : e.request = request /\ record' = Append(record, e)
    BY <1>3
  <2>2. /\ Len(record') = Len(record) + 1 /\ DOMAIN record' = 1..(Len(record) + 1)
        /\ \A k \in DOMAIN record : record'[k] = record[k]
        /\ record'[Len(record) + 1] = e
    <3>1. record' = Append(record, e) /\ record \in Seq(Results) /\ e \in Results
      BY <1>1, <2>1, Zenon
    <3>. QED  BY ONLY <3>1, SMTT(60)
  <2>3. Len(record) = offset /\ ~Resolved(request.id)
    BY <1>3 DEF TypeInv, PortInv, OnceInv
  <2>4. \A k \in DOMAIN record : ~Unpaired(k) /\ record[k].request.id # request.id
    BY <1>3, <2>3 DEF Unpaired, Resolved
  <2>5. ResolvedOnce'
    BY <1>1, <2>1, <2>3, OnceResolved DEF TypeInv
  <2>. QED  BY <1>1, <2>1, <2>2, <2>3, <2>4, <2>5
<1>. QED  BY <1>2, <1>3

\* A call of the engine that ends with a result: its receipt is kept, given or
\* not, and its trace pairs off with it.
LEMMA BookResolved ==
    ASSUME TypeInv, OnceInv, BookInv, pc = "engine", ~settled', pc' = "idle",
           \/ settled /\ record' = record
           \/ ~settled /\ \E e \in Results : e.request = request /\ record' = Append(record, e),
           NEW shownReceipt,
           Traced(Trace(request, record'[Len(record')], shownReceipt, TRUE, Original)),
           shownReceipt \in {NoReceipt, PublicResult(caller, request, record'[Len(record')])},
           requests' = [requests EXCEPT ![request.id].receipt =
                            PublicResult(caller, request, record'[Len(record')])]
    PROVE  BookInv'
<1>1. PICK r \in Requests : r = request
  BY DEF TypeInv, PortInv
<1>2. PICK a \in Actors : a = caller
  BY DEF TypeInv, PortInv
<1>3. PICK result : result = record'[Len(record')]
  OBVIOUS
<1>4. PICK last : last = Len(record')
  OBVIOUS
<1>5. PICK kept : kept = PublicResult(a, r, result)
  OBVIOUS
<1>6. PICK trace : trace = Trace(r, result, shownReceipt, TRUE, Original)
  OBVIOUS
<1>7. /\ last \in DOMAIN record' /\ record'[last] = result /\ result \in Results
      /\ result.request = r
      /\ \A k \in DOMAIN record' :
          /\ k \in Nat /\ k <= last
          /\ k # last => /\ k \in DOMAIN record /\ record'[k] = record[k]
                         /\ ~Unpaired(k) /\ record'[k].request.id # r.id
      /\ \A k \in DOMAIN record : k \in DOMAIN record' /\ record'[k] = record[k]
      /\ ResolvedOnce'
  BY <1>1, <1>3, <1>4, RecordedByCall
<1>8. kept \in Receipts /\ kept.actor = a /\ kept.reason = "RESOLVED"
  <2>1. kept \in Receipts
    BY <1>5, <1>7, ReceiptType DEF PublicResult, Results, Reasons
  <2>. QED  BY <1>5, <2>1 DEF PublicResult, Receipt
<1>9. /\ trace \in Traces /\ trace.request = r /\ trace.retry_of = Original
      /\ trace.result = result /\ trace.engine_submitted /\ trace.receipt = shownReceipt
  BY <1>1, <1>2, <1>3, <1>5, <1>6, <1>7, <1>8 DEF Trace, Traces, Original
<1>10. Traced(trace)
  BY <1>1, <1>3, <1>6
<1>11. /\ \A other \in Ids \ {r.id} : requests'[other] = requests[other]
       /\ requests'[r.id] # NoEntry /\ requests'[r.id].fingerprint = r
       /\ requests'[r.id].actor = a /\ requests'[r.id].receipt = kept
       /\ requests'[r.id].attempt = Len(traces) + 1
  <2>1. requests' = [requests EXCEPT ![request.id].receipt = kept]
    BY <1>1, <1>2, <1>3, <1>5
  <2>. QED  BY <1>1, <1>2, <1>8, <2>1, EntryStored
<1>12. EntryInv' /\ AnswerInv' /\ AnsweredAlike' /\ RetriesLinked' /\ RecordInv'
  <2>1. trace.receipt # NoReceipt => trace.receipt = kept
    BY <1>1, <1>2, <1>3, <1>5, <1>9
  <2>2. \A k \in DOMAIN record' :
            record'[k].request.id = r.id =>
                record'[k].request = r /\ kept = PublicResult(a, r, record'[k])
    BY <1>5, <1>7
  <2>3. \A k \in DOMAIN record' : \/ record'[k].request.id = r.id
                                  \/ k \in DOMAIN record /\ record'[k] = record[k]
    BY <1>7
  <2>. QED  BY <1>1, <1>2, <1>8, <1>9, <1>10, <1>11, <2>1, <2>2, <2>3, BookEnded
<1>13. Paired'
  <2>1. ~Entered(r.id) /\ TypeOK /\ result # NoResult
    BY <1>1, <1>7, NoneFacts DEF TypeInv, OnceInv
  <2>. QED  BY <1>7, <1>9, <1>10, <2>1, PairedShown DEF BookInv
<1>. QED  BY <1>12, <1>13 DEF BookInv

\* The engine records the result of the call, whose books are still open.
LEMMA BookSettled ==
    ASSUME TypeInv, OnceInv, BookInv, RunEngine, Settle
    PROVE  BookInv'
<1>1. PICK r \in Requests : r = request
  BY DEF RunEngine, TypeInv, PortInv
<1>2. PICK e \in Results : e.request = r /\ record' = Append(record, e)
  <2>1. PICK e : e = [request |-> call, status |-> "SUCCEEDED", resolved |-> time]
    OBVIOUS
  <2>2. call = r /\ time \in 0..MaxTime
    BY <1>1 DEF RunEngine, TypeInv, TypeOK, PortInv
  <2>3. e \in Results /\ e.request = r
    BY <1>1, <2>1, <2>2 DEF Results, Statuses
  <2>. QED  BY <2>1, <2>3 DEF Settle, Recorded
<1>3. /\ pc = "engine" /\ pc' = "engine" /\ request' = r /\ UNCHANGED <<requests, traces, caller>>
      /\ ~settled /\ settled' /\ TypeOK /\ ~Entered(r.id) /\ Reserved(r.id) /\ r.id \in Ids
  BY <1>1, RequestFacts DEF RunEngine, Settle, session, stack, TypeInv, PortInv, OnceInv, Reserved
<1>4. \A id : Underway(id)' <=> Underway(id)
  BY <1>1, <1>3 DEF Underway
<1>5. Underway(r.id) /\ requests[r.id].fingerprint = r
  BY <1>1, <1>3 DEF Underway, BookInv, EntryInv, EntryOK
<1>6. EntryInv'
  BY <1>1, <1>3, <1>4 DEF BookInv, EntryInv, EntryOK, Reserved, Underway
<1>7. AnswerInv' /\ AnsweredAlike' /\ RetriesLinked'
  BY <1>3 DEF BookInv, AnswerInv, AnswerOK, AnsweredAlike, RetriesLinked, Reserved
<1>8. PICK n \in Nat : n = Len(record)
  BY <1>3 DEF TypeOK
<1>9. /\ DOMAIN record = 1..n /\ DOMAIN record' = 1..(n + 1)
      /\ \A k \in 1..n : record'[k] = record[k]
      /\ record'[n + 1] = e
  BY <1>2, <1>3, <1>8 DEF TypeOK
<1>10. RecordInv'
  <2>1. ASSUME NEW k \in 1..n
        PROVE  RecordOK(k)'
    <3>1. RecordOK(k) /\ record'[k] = record[k]
      BY <1>9 DEF BookInv, RecordInv
    <3>. QED  BY <1>3, <1>4, <3>1 DEF RecordOK, Reserved, PublicResult, Receipt
  <2>2. RecordOK(n + 1)'
    BY <1>2, <1>3, <1>4, <1>5, <1>9 DEF RecordOK, Reserved
  <2>3. \A k \in DOMAIN record' : k \in 1..n \/ k = n + 1
    BY <1>9
  <2>. QED  BY <2>1, <2>2, <2>3 DEF RecordInv
<1>11. Paired'
  BY <1>2, <1>3, PairedSettled DEF BookInv
<1>. QED  BY <1>6, <1>7, <1>10, <1>11 DEF BookInv

\* The engine returns with the result it has recorded, now or before.
LEMMA ResultReturned ==
    ASSUME TypeInv, EngineReturns
    PROVE  \/ settled /\ record' = record
           \/ ~settled /\ \E e \in Results : e.request = request /\ record' = Append(record, e)
<1>1. CASE Finish
  BY <1>1 DEF Finish
<1>2. CASE Decline
  <2>1. PICK outcome \in {"REJECTED", "FAILED"} : Recorded(outcome)
    BY <1>2 DEF Decline
  <2>2. PICK e : e = [request |-> call, status |-> outcome, resolved |-> time]
    OBVIOUS
  <2>3. call = request /\ call \in Requests /\ time \in 0..MaxTime
    BY DEF EngineReturns, TypeInv, TypeOK, PortInv
  <2>4. e \in Results /\ e.request = request
    BY <2>2, <2>3 DEF Results, Statuses
  <2>. QED  BY <1>2, <2>1, <2>2, <2>4 DEF Decline, Recorded
<1>. QED  BY <1>1, <1>2 DEF EngineReturns

\* The engine returns with the result of the call.
LEMMA BookReturned ==
    ASSUME TypeInv, OnceInv, BookInv, EngineReturns
    PROVE  BookInv'
<1>1. PICK result : result = record'[Len(record')]
  OBVIOUS
<1>2. PICK receipt : receipt = PublicResult(caller, request, result)
  OBVIOUS
<1>3. Answer(result, receipt, TRUE)
  BY <1>1, <1>2 DEF EngineReturns
<1>4. \/ settled /\ record' = record
      \/ ~settled /\ \E e \in Results : e.request = request /\ record' = Append(record, e)
  BY ResultReturned
<1>5. settled' = FALSE
  <2>1. settled \in BOOLEAN
    BY DEF TypeInv, TypeOK
  <2>. QED  BY <2>1 DEF EngineReturns, Finish, Decline
<1>6. /\ pc = "engine" /\ pc' = "idle"
      /\ Traced(Trace(request, record'[Len(record')], receipt, TRUE, Original))
      /\ requests' = [requests EXCEPT ![request.id].receipt =
                          PublicResult(caller, request, record'[Len(record')])]
  BY <1>1, <1>2, <1>3 DEF EngineReturns, Answer, Leave
<1>7. receipt \in {NoReceipt, PublicResult(caller, request, record'[Len(record')])}
  BY <1>1, <1>2
<1>. QED  BY <1>4, <1>5, <1>6, <1>7, BookResolved

\* The engine raises, after the action committed or before it did.
LEMMA BookFailed ==
    ASSUME TypeInv, OnceInv, BookInv, EngineFails
    PROVE  BookInv'
<1>1. /\ pc = "engine" /\ pc' = "idle" /\ record' = record /\ settled' = FALSE
      /\ settled \in BOOLEAN /\ TypeOK /\ PortInv
  BY DEF EngineFails, Raise, Leave, TypeInv, TypeOK
<1>2. Len(record) \in Nat /\ offset \in Nat
  BY <1>1 DEF TypeOK
<1>3. CASE settled
  <2>1. Len(record) = offset + 1
    BY <1>1, <1>3 DEF PortInv
  <2>2. Len(record) > offset /\ record[offset + 1] = record[Len(record)]
    BY <1>2, <2>1
  <2>3. record[Len(record)] # NoResult
    <3>1. Len(record) \in DOMAIN record /\ record \in Seq(Results)
      BY <1>1, <1>2, <2>1 DEF TypeOK
    <3>. QED  BY <3>1, NoneFacts
  <2>4. /\ Traced(Trace(request, record'[Len(record')], NoReceipt, TRUE, Original))
        /\ requests' = [requests EXCEPT ![request.id].receipt =
                            PublicResult(caller, request, record'[Len(record')])]
    BY <1>1, <2>2, <2>3 DEF EngineFails
  <2>. QED  BY <1>1, <1>3, <2>4, BookResolved
<1>4. CASE ~settled
  <2>1. ~(Len(record) > offset)
    BY <1>1, <1>2, <1>4 DEF PortInv
  <2>2. PICK r \in Requests : r = request
    BY <1>1 DEF PortInv
  <2>3. PICK a \in Actors : a = caller
    BY <1>1 DEF PortInv
  <2>4. PICK trace : trace = Trace(r, NoResult, NoReceipt, TRUE, Original)
    OBVIOUS
  <2>5. Traced(trace) /\ requests' = requests
    BY <2>1, <2>2, <2>4 DEF EngineFails
  <2>6. /\ trace \in Traces /\ trace.request = r /\ trace.retry_of = Original
        /\ trace.receipt = NoReceipt /\ trace.result = NoResult
    BY <2>4 DEF Trace, Traces, Original
  <2>7. r.id \in Ids /\ Reserved(r.id) /\ Underway(r.id) /\ ~Resolved(r.id)
    BY <1>1, <1>4, <2>2, RequestFacts DEF PortInv, Reserved, Underway, OnceInv
  <2>8. EntryOK(r.id)
    BY <2>7 DEF BookInv, EntryInv
  <2>9. /\ requests'[r.id] # NoEntry /\ requests'[r.id].fingerprint = r
        /\ requests'[r.id].actor = a /\ requests'[r.id].receipt = NoReceipt
        /\ requests'[r.id].attempt = Len(traces) + 1
    BY <2>2, <2>3, <2>5, <2>7, <2>8 DEF EntryOK, Reserved
  <2>10. \A k \in DOMAIN record' : /\ record'[k].request.id # r.id
                                   /\ k \in DOMAIN record /\ record'[k] = record[k]
    BY <1>1, <2>7 DEF Resolved
  <2>11. EntryInv' /\ AnswerInv' /\ AnsweredAlike' /\ RetriesLinked' /\ RecordInv'
    BY <1>1, <2>2, <2>3, <2>5, <2>6, <2>9, <2>10, BookEnded
  <2>12. Paired'
    <3>1. settled' = settled
      BY <1>1, <1>4
    <3>. QED  BY <1>1, <2>5, <2>6, <3>1, PairedUnshown DEF BookInv
  <2>. QED  BY <2>11, <2>12 DEF BookInv
<1>. QED  BY <1>1, <1>3, <1>4

\* Every step of the session keeps the books.
LEMMA BookStep == TypeInv /\ OnceInv /\ BookInv /\ [Next]_vars => BookInv'
<1>. SUFFICES ASSUME TypeInv, OnceInv, BookInv, [Next]_vars  PROVE BookInv'
  OBVIOUS
<1>1. CASE Owner
  BY <1>1, BookQuiet DEF Owner, session, stack, Boot, Close, Advance, Ticks
<1>2. ASSUME NEW a \in Actors, BeginObserve(a)
      PROVE  BookInv'
  BY <1>2, BookQuiet DEF BeginObserve, Enter, engine, TypeInv, PortInv
<1>3. CASE Observing
  BY <1>3, BookQuiet DEF Observing, FinishObserve, FailObserve, Leave, engine
<1>4. ASSUME NEW a \in Actors, NEW r \in Requests,
             SubmitConflicting(a, r) \/ SubmitAgain(a, r)
      PROVE  BookInv'
  BY <1>4, BookOutside
<1>5. ASSUME NEW a \in Actors, NEW r \in Requests, SubmitDenied(a, r)
      PROVE  BookInv'
  BY <1>5, BookDenied
<1>6. ASSUME NEW a \in Actors, NEW r \in Requests, SubmitFresh(a, r)
      PROVE  BookInv'
  BY <1>6, BookFresh
<1>7. CASE DenyContent \/ UnknownAction
  BY <1>7, BookRefused
<1>8. CASE FailKnowledge
  BY <1>8, BookReleased
<1>9. CASE EnterEngine
  BY <1>9, BookQuiet DEF EnterEngine, Accept, session
<1>10. CASE RunEngine
  <2>1. CASE Elapse
    BY <1>10, <2>1, BookQuiet DEF RunEngine, Elapse, Ticks, session, stack
  <2>2. CASE Settle
    BY <1>10, <2>2, BookSettled
  <2>. QED  BY <1>10, <2>1, <2>2 DEF RunEngine
<1>11. CASE EngineReturns
  BY <1>11, BookReturned
<1>12. CASE EngineFails
  BY <1>12, BookFailed
<1>13. CASE UNCHANGED vars
  BY <1>13, BookQuiet DEF vars, engine, session, stack
<1>. QED
  BY <1>1, <1>2, <1>3, <1>4, <1>5, <1>6, <1>7, <1>8, <1>9, <1>10, <1>11, <1>12, <1>13
  DEF Next, Ports, Observing, Executing

\* Between the calls of the ports the books are closed: every result of the
\* engine is in the trace and in the reservation of its request.
LEMMA BooksClosed == TypeInv /\ BookInv => NothingForgotten
<1>. SUFFICES ASSUME TypeInv, BookInv  PROVE NothingForgotten
  OBVIOUS
<1>1. ASSUME pc = "idle"
      PROVE  EngineStreamTraced /\ ResultsRecoverable
  <2>1. settled = FALSE /\ \A id : ~Underway(id)
    BY <1>1 DEF TypeInv, TypeOK, PortInv, Underway
  <2>2. EngineStreamTraced
    BY <2>1 DEF BookInv, Paired, Unpaired, EngineStreamTraced
  <2>3. ResultsRecoverable
    BY <2>1 DEF BookInv, RecordInv, RecordOK, Reserved, ResultsRecoverable
  <2>. QED  BY <2>2, <2>3
<1>2. ASSUME pc # "idle"
      PROVE  EngineStreamTraced /\ ResultsRecoverable
  BY <1>2 DEF EngineStreamTraced, ResultsRecoverable
<1>. QED  BY <1>1, <1>2 DEF NothingForgotten, CommitsKept, AnswersKept, BookInv

\* Neither a committed action nor an answer is ever forgotten or told
\* differently, whatever raised around it and however often it is submitted.
THEOREM ForgetsNothing == Spec => []NothingForgotten
<1>1. Init => TypeInv /\ OnceInv /\ BookInv
  BY TypeInit, OnceInit, BookInit
<1>2. TypeInv /\ OnceInv /\ BookInv /\ [Next]_vars => TypeInv' /\ OnceInv' /\ BookInv'
  BY TypeStep, OnceStep, BookStep
<1>. QED  BY <1>1, <1>2, BooksClosed, PTL DEF Spec
-----------------------------------------------------------------------------
(***************************************************************************)
(* What a port has shown.  The receipt it gave last is the one of the      *)
(* latest trace with a receipt for its actor, since a receipt that is kept *)
(* for a retry belongs to the actor of the reservation.                    *)
(***************************************************************************)
ShownInv == \A a \in Actors : shown[a] = LastReceipt(a)

\* Nobody was shown anything at the start.
LEMMA ShownInit == Init => ShownInv
BY DEF Init, ShownInv, LastReceipt

\* A trace with a receipt is the latest one of its actor, and of no one else.
LEMMA LastReceiptTraced ==
    ASSUME TypeOK, NEW trace, Traced(trace), NEW a \in Actors
    PROVE  LastReceipt(a)' = IF trace.receipt # NoReceipt /\ trace.receipt.actor = a
                             THEN trace.receipt ELSE LastReceipt(a)
<1>1. PICK n \in Nat : n = Len(traces)
  BY DEF TypeOK
<1>2. /\ DOMAIN traces = 1..n /\ DOMAIN traces' = 1..(n + 1)
      /\ \A i \in 1..n : traces'[i] = traces[i]
      /\ traces'[n + 1] = trace
      /\ \A i \in 1..(n + 1) : i \in 1..n \/ i = n + 1
  BY <1>1, TraceAdded
<1>3. PICK own : own = {i \in DOMAIN traces : /\ traces[i].receipt # NoReceipt
                                              /\ traces[i].receipt.actor = a}
  OBVIOUS
<1>4. PICK later : later = {i \in DOMAIN traces' : /\ traces'[i].receipt # NoReceipt
                                                   /\ traces'[i].receipt.actor = a}
  OBVIOUS
<1>5. /\ LastReceipt(a) = IF own = {} THEN NoReceipt
                          ELSE traces[CHOOSE i \in own : \A j \in own : j <= i].receipt
      /\ LastReceipt(a)' = IF later = {} THEN NoReceipt
                           ELSE traces'[CHOOSE i \in later : \A j \in later : j <= i].receipt
  BY <1>3, <1>4 DEF LastReceipt
<1>6. CASE trace.receipt # NoReceipt /\ trace.receipt.actor = a
  <2>1. n + 1 \in later /\ \A j \in later : j \in Nat /\ j <= n + 1
    BY <1>2, <1>4, <1>6
  <2>2. \A i \in later : (\A j \in later : j <= i) => i = n + 1
    BY <2>1
  <2>3. (CHOOSE i \in later : \A j \in later : j <= i) = n + 1
    BY <2>1, <2>2
  <2>. QED  BY <1>2, <1>5, <1>6, <2>1, <2>3
<1>7. CASE ~(trace.receipt # NoReceipt /\ trace.receipt.actor = a)
  <2>1. later = own
    BY <1>2, <1>3, <1>4, <1>7
  <2>2. CASE own = {}
    BY <1>5, <1>7, <2>1, <2>2
  <2>3. CASE own # {}
    <3>1. own \in SUBSET (1..n)
      BY <1>2, <1>3
    <3>2. PICK i \in own : \A j \in own : j <= i
      BY <2>3, <3>1, LastPosition
    <3>3. (CHOOSE k \in own : \A j \in own : j <= k) \in 1..n
      BY <3>1, <3>2
    <3>. QED  BY <1>2, <1>5, <1>7, <2>1, <2>3, <3>3
  <2>. QED  BY <2>2, <2>3
<1>. QED  BY <1>6, <1>7

\* An attempt that is traced with what its actor is shown.
LEMMA ShownTraced ==
    ASSUME TypeOK, ShownInv, NEW trace, Traced(trace), NEW a \in Actors,
           \/ /\ trace.receipt # NoReceipt /\ trace.receipt.actor = a
              /\ shown' = [shown EXCEPT ![a] = trace.receipt]
           \/ trace.receipt = NoReceipt /\ shown' = shown
    PROVE  ShownInv'
<1>. SUFFICES ASSUME NEW b \in Actors  PROVE shown'[b] = LastReceipt(b)'
  BY DEF ShownInv
<1>1. LastReceipt(b)' = IF trace.receipt # NoReceipt /\ trace.receipt.actor = b
                        THEN trace.receipt ELSE LastReceipt(b)
  BY LastReceiptTraced
<1>2. shown[b] = LastReceipt(b) /\ shown \in [Actors -> Receipts \union {NoReceipt}]
  BY DEF ShownInv, TypeOK
<1>. QED  BY <1>1, <1>2

\* A submission that ends with an answer shows it to the actor of the port.
LEMMA ShownAnswered ==
    ASSUME TypeInv, ShownInv, NEW r \in Requests, NEW a \in Actors, NEW result,
           NEW status \in Statuses, NEW reason \in Reasons, NEW at \in 0..MaxTime,
           NEW submitted, NEW k,
           LET visible == Receipt(a, r, status, reason, at) IN
               Traced(Trace(r, result, visible, submitted, k)) /\ Show(a, visible)
    PROVE  ShownInv'
<1>1. PICK visible \in Receipts : visible = Receipt(a, r, status, reason, at)
  BY ReceiptType
<1>2. PICK trace : trace = Trace(r, result, visible, submitted, k)
  OBVIOUS
<1>3. Traced(trace) /\ shown' = [shown EXCEPT ![a] = visible]
  BY <1>1, <1>2 DEF Show
<1>4. trace.receipt = visible /\ visible # NoReceipt /\ visible.actor = a
  BY <1>1, <1>2, NoneFacts DEF Trace, Receipt
<1>. QED  BY <1>3, <1>4, ShownTraced DEF TypeInv

\* Every step of the session keeps it.
LEMMA ShownStep == TypeInv /\ OnceInv /\ BookInv /\ ShownInv /\ [Next]_vars => ShownInv'
<1>. SUFFICES ASSUME TypeInv, OnceInv, BookInv, ShownInv, [Next]_vars  PROVE ShownInv'
  OBVIOUS
<1>a. TypeOK /\ PortInv /\ time \in 0..MaxTime /\ "REJECTED" \in Statuses
  BY DEF TypeInv, TypeOK, Statuses
<1>b. ASSUME UNCHANGED <<traces, shown>>
      PROVE  ShownInv'
  BY <1>b DEF ShownInv, LastReceipt
<1>1. CASE Owner
  BY <1>1, <1>b DEF Owner, session
<1>2. ASSUME NEW a \in Actors, BeginObserve(a)
      PROVE  ShownInv'
  BY <1>2, <1>b DEF BeginObserve
<1>3. CASE Observing
  BY <1>3, <1>b DEF Observing, FinishObserve, FailObserve
<1>4. ASSUME NEW a \in Actors, NEW r \in Requests, SubmitConflicting(a, r)
      PROVE  ShownInv'
  <2>1. PICK k : k = requests[r.id].attempt
    OBVIOUS
  <2>2. "REQUEST_ID_CONFLICT" \in Reasons
    BY DEF Reasons
  <2>. QED  BY <1>4, <1>a, <2>1, <2>2, ShownAnswered DEF SubmitConflicting, Denial
<1>5. ASSUME NEW a \in Actors, NEW r \in Requests, SubmitAgain(a, r)
      PROVE  ShownInv'
  <2>1. PICK given : given = requests[r.id].receipt
    OBVIOUS
  <2>2. PICK trace : trace = Trace(r, NoResult, given, FALSE, requests[r.id].attempt)
    OBVIOUS
  <2>3. Traced(trace) /\ trace.receipt = given
    BY <1>5, <2>1, <2>2 DEF SubmitAgain, Trace
  <2>4. given # NoReceipt => given.actor = a /\ shown' = [shown EXCEPT ![a] = given]
    <3>1. r.id \in Ids /\ Reserved(r.id)
      BY <1>5, RequestFacts DEF SubmitAgain, Reserved
    <3>2. EntryOK(r.id)
      BY <3>1 DEF BookInv, EntryInv
    <3>. QED  BY <1>5, <2>1, <3>2 DEF SubmitAgain, Matches, EntryOK, Show
  <2>5. given = NoReceipt => shown' = shown
    BY <1>5, <2>1 DEF SubmitAgain
  <2>. QED  BY <1>a, <2>3, <2>4, <2>5, ShownTraced
<1>6. ASSUME NEW a \in Actors, NEW r \in Requests, SubmitDenied(a, r)
      PROVE  ShownInv'
  <2>1. PICK reason \in Reasons : reason = AuthorityReason(a, r)
    BY <1>6 DEF SubmitDenied, AuthorityReason, Reasons, DenialReasons
  <2>. QED  BY <1>6, <1>a, <2>1, ShownAnswered DEF SubmitDenied, Denial
<1>7. ASSUME NEW a \in Actors, NEW r \in Requests, SubmitFresh(a, r)
      PROVE  ShownInv'
  BY <1>7, <1>b DEF SubmitFresh
<1>8. CASE DenyContent \/ UnknownAction
  <2>1. PICK reason \in {"CONTENT_DENIED", "UNKNOWN_ACTION"}, submitted \in BOOLEAN :
            Answer(NoResult, Denial(caller, request, reason), submitted)
    BY <1>8 DEF DenyContent, UnknownAction
  <2>2. PICK r \in Requests : r = request
    BY <1>8, <1>a DEF DenyContent, UnknownAction, PortInv
  <2>3. PICK a \in Actors : a = caller
    BY <1>8, <1>a DEF DenyContent, UnknownAction, PortInv
  <2>4. reason \in Reasons
    BY DEF Reasons, DenialReasons
  <2>. QED  BY <1>a, <2>1, <2>2, <2>3, <2>4, ShownAnswered DEF Answer, Denial
<1>9. CASE FailKnowledge \/ EngineFails
  <2>1. PICK result, submitted : Traced(Trace(request, result, NoReceipt, submitted, Original))
    BY <1>9 DEF FailKnowledge, EngineFails
  <2>2. PICK trace : trace = Trace(request, result, NoReceipt, submitted, Original)
    OBVIOUS
  <2>3. trace.receipt = NoReceipt /\ Traced(trace) /\ shown' = shown
    BY <1>9, <2>1, <2>2 DEF Trace, FailKnowledge, EngineFails
  <2>4. PICK a \in Actors : TRUE
    BY <1>9, <1>a DEF FailKnowledge, EngineFails, PortInv
  <2>. QED  BY <1>a, <2>3, <2>4, ShownTraced
<1>10. CASE EnterEngine \/ RunEngine
  BY <1>10, <1>b DEF EnterEngine, RunEngine, session
<1>11. CASE EngineReturns
  <2>1. PICK result : result = record'[Len(record')]
    OBVIOUS
  <2>2. result \in Results
    <3>1. \/ settled /\ record' = record
          \/ ~settled /\ \E e \in Results : e.request = request /\ record' = Append(record, e)
      BY <1>11, ResultReturned
    <3>. QED  BY <1>11, <2>1, <3>1, RecordedByCall DEF EngineReturns
  <2>3. PICK r \in Requests : r = request
    BY <1>11, <1>a DEF EngineReturns, PortInv
  <2>4. PICK a \in Actors : a = caller
    BY <1>11, <1>a DEF EngineReturns, PortInv
  <2>5. result.status \in Statuses /\ result.resolved \in 0..MaxTime /\ "RESOLVED" \in Reasons
    BY <2>2 DEF Results, Reasons
  <2>. QED  BY <1>11, <2>1, <2>3, <2>4, <2>5, ShownAnswered DEF EngineReturns, Answer, PublicResult
<1>12. CASE UNCHANGED vars
  BY <1>12, <1>b DEF vars, session
<1>. QED
  BY <1>1, <1>2, <1>3, <1>4, <1>5, <1>6, <1>7, <1>8, <1>9, <1>10, <1>11, <1>12
  DEF Next, Ports, Observing, Executing

\* The receipt that an observation repeats is the one its port gave last.
LEMMA RepeatsShown ==
    ASSUME TypeInv, ShownInv, [Next]_vars, Len(observations') > Len(observations)
    PROVE  LET latest == observations'[Len(observations')] IN
           latest.last = shown[latest.actor]
<1>1. Len(observations) \in Nat /\ observations \in Seq(Observations) /\ PortInv
  BY DEF TypeInv, TypeOK
<1>2. observations' # observations
  BY <1>1
<1>3. FinishObserve
  BY <1>2 DEF Next, Owner, Ports, Observing, Executing, BeginObserve, FailObserve,
     SubmitConflicting, SubmitAgain, SubmitDenied, SubmitFresh, DenyContent, FailKnowledge,
     EnterEngine, RunEngine, EngineReturns, UnknownAction, EngineFails, Answer, session, vars
<1>4. PICK latest : latest = [actor |-> caller, time |-> moment, last |-> LastReceipt(caller)]
  OBVIOUS
<1>5. observations' = Append(observations, latest)
  BY <1>3, <1>4 DEF FinishObserve
<1>6. observations'[Len(observations')] = latest
  BY <1>1, <1>5
<1>7. caller \in Actors
  BY <1>1, <1>3 DEF FinishObserve, PortInv
<1>. QED  BY <1>4, <1>6, <1>7 DEF ShownInv

\* Whatever was denied, retried, answered or lost in between, an actor is told
\* of its own last receipt when it next observes.
THEOREM ShowsLastReceipt == Spec => LastReceiptShown
<1>1. Init => TypeInv /\ OnceInv /\ BookInv /\ ShownInv
  BY TypeInit, OnceInit, BookInit, ShownInit
<1>2. TypeInv /\ OnceInv /\ BookInv /\ ShownInv /\ [Next]_vars
      => TypeInv' /\ OnceInv' /\ BookInv' /\ ShownInv'
  BY TypeStep, OnceStep, BookStep, ShownStep
<1>3. TypeInv /\ ShownInv /\ [Next]_vars =>
          [Len(observations') > Len(observations) =>
              LET latest == observations'[Len(observations')] IN
              latest.last = shown[latest.actor]]_vars
  BY RepeatsShown
<1>. QED  BY <1>1, <1>2, <1>3, PTL DEF Spec, LastReceiptShown
=============================================================================
