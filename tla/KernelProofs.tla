---------------------------- MODULE KernelProofs ----------------------------
(***************************************************************************)
(* Theorems about the simulation kernel, for every horizon, number of      *)
(* inputs, results, subscribers and event types; and about the boot, for   *)
(* any number of modules and any succession of registrations and boots.    *)
(***************************************************************************)
EXTENDS Boot, WellFoundedInduction, FiniteSetTheorems, TLAPS

(***************************************************************************)
(* The call in progress.  A transition is active exactly while a call has  *)
(* not ended, and only in a running run; whatever works for an action has  *)
(* its request at hand; the input being dispatched is still queued.        *)
(***************************************************************************)
AdvancePurposes == {"advance", "arrival", "elapse"}
ActionPurposes == {"arrival", "elapse", "commit"}

FrameInv ==
    /\ active <=> pc # "idle"
    /\ active => status = "RUNNING"
    /\ pc \in {"advance", "dispatch"} => purpose \in AdvancePurposes
    /\ pc = "publish" => purpose \in AdvancePurposes \union {"commit"}
    /\ pc \in {"validate", "completion", "resolve"} => purpose \in ActionPurposes
    /\ purpose \in ActionPurposes => request \in Requests
    /\ pc = "dispatch" => current \in queue

TypeInv == TypeOK /\ FrameInv

\* Times are natural numbers and hold the start time.
LEMMA TimesFacts == Times \subseteq Nat /\ StartTime \in Times /\ 0 \in Times
BY KernelAssumption DEF Times

\* The components of a scheduled input.
LEMMA ItemFacts ==
    \A e \in Items : e.due \in Nat /\ e.priority \in Int /\ e.insertion \in Nat
<1>1. \A e \in Items : e.due \in Nat /\ e.insertion \in Nat
  BY KernelAssumption DEF Items, Times
<1>2. \A e \in Items : e.priority \in Int
  BY KernelAssumption DEF Items
<1>. QED  BY <1>1, <1>2

\* The times of the log are numbers.
LEMMA EnvelopeFacts ==
    ASSUME events \in Seq(Envelopes)
    PROVE  \A i \in DOMAIN events : events[i].time \in Int
<1>1. \A e \in Envelopes : e.time \in Int
  BY KernelAssumption DEF Envelopes, Times
<1>. QED  BY <1>1

\* What a commit appends to the log, and what it owes to the subscribers.
LEMMA EmittedType ==
    ASSUME NEW drafts \in Drafts, clock \in Times, eventSequence \in Nat,
           transitions \in Nat
    PROVE  /\ Emitted(drafts) \in Seq(Envelopes)
           /\ Len(drafts) \in Nat
           /\ Len(Emitted(drafts)) = Len(drafts)
           /\ Owed(Emitted(drafts)) \subseteq Deliveries
<1>1. PICK n \in 0..MaxDrafts : drafts \in [1..n -> EventTypes]
  BY DEF Drafts
<1>2. n \in Nat
  BY KernelAssumption
<1>3. Len(drafts) = n
  BY <1>1, <1>2
<1>4. Emitted(drafts) \in [1..n -> Envelopes]
  BY <1>1, <1>2, <1>3 DEF Emitted, Envelopes
<1>5. Emitted(drafts) \in Seq(Envelopes) /\ Len(Emitted(drafts)) = n
  BY <1>2, <1>4
<1>6. Owed(Emitted(drafts)) \subseteq Deliveries
  BY <1>2, <1>4 DEF Owed, Deliveries, Envelopes
<1>. QED  BY <1>2, <1>3, <1>5, <1>6

\* A run that is not booted has its types.
THEOREM TypeInit == Init => TypeInv
<1>. SUFFICES ASSUME Init  PROVE TypeInv
  OBVIOUS
<1>1. RunOK /\ ScheduleOK /\ RecordOK /\ SeenOK
  BY TimesFacts DEF Init, RunOK, ScheduleOK, RecordOK, SeenOK
<1>2. FrameOK
  BY TimesFacts, KernelAssumption DEF Init, FrameOK
<1>3. active \in BOOLEAN
  BY DEF Init
<1>4. FrameInv
  BY DEF Init, FrameInv, AdvancePurposes, ActionPurposes
<1>. QED  BY <1>1, <1>2, <1>3, <1>4 DEF TypeInv, TypeOK

(***************************************************************************)
(* Every step preserves the types and the invariants of the call.          *)
(***************************************************************************)
LEMMA ReturnType ==
    ASSUME NEW how \in {"returned", "raised"}, Return(how)
    PROVE  FrameOK' /\ FrameInv' /\ active' \in BOOLEAN
<1>1. FrameOK'
  BY TimesFacts, KernelAssumption DEF Return, FrameOK
<1>2. FrameInv' /\ active' \in BOOLEAN
  BY DEF Return, FrameInv, ActionPurposes
<1>. QED  BY <1>1, <1>2

\* Every step of the kernel keeps the types of its run, schedule, record and frame.
THEOREM TypeStep == TypeInv /\ [Next]_vars => TypeInv'
<1>. SUFFICES ASSUME TypeInv, [Next]_vars  PROVE TypeInv'
  OBVIOUS
<1>. USE DEF TypeInv, TypeOK, RunOK, ScheduleOK, RecordOK, SeenOK,
             run, schedule, record, frame, seen
<1>1. CASE Boot
  BY <1>1 DEF Boot, FrameOK, FrameInv
<1>2. CASE Close
  BY <1>2 DEF Close, EnsureNotTransitioning, FrameOK, FrameInv
<1>3. ASSUME NEW due \in Times, NEW p \in Priorities, Schedule(due, p)
      PROVE  TypeInv'
  BY <1>3 DEF Schedule, EnsureNotTransitioning, FrameOK, FrameInv, Items
<1>4. ASSUME NEW t \in Times, AdvanceTo(t)
      PROVE  TypeInv'
  BY <1>4 DEF AdvanceTo, EnterAdvance, EnsureRunning, FrameOK, FrameInv,
    AdvancePurposes, ActionPurposes
<1>5. ASSUME NEW r \in Requests, NEW t \in Times, SubmitAction(r, t)
      PROVE  TypeInv'
  BY <1>5 DEF SubmitAction, EnterAdvance, EnsureRunning, FrameOK, FrameInv,
    AdvancePurposes, ActionPurposes
<1>6. CASE Draw
  BY <1>6 DEF Draw, FrameOK, FrameInv
<1>7. CASE BeginDispatch
  BY <1>7 DEF BeginDispatch, FrameOK, FrameInv, Due, Items
<1>8. CASE DispatchFails
  BY <1>8, ReturnType DEF DispatchFails, FrameOK
<1>9. CASE CommitSystemEvent
  <2>1. PICK drafts \in Drafts : CommitPlan(drafts)
    BY <1>9 DEF CommitSystemEvent
  <2>2. current \in Items /\ clock \in Times /\ pc = "dispatch"
    BY <1>9 DEF CommitSystemEvent, FrameInv
  <2>3. RunOK' /\ events' \in Seq(Envelopes) /\ outbox' \subseteq Deliveries
    BY <1>9, <2>1, EmittedType DEF CommitSystemEvent, CommitPlan, FrameOK
  <2>4. outcomes' \in Seq(Outcomes)
    <3>1. Identity("SCHEDULED_EVENT", current.insertion) \in SystemIdentities
      BY <2>2, ItemFacts DEF Identity, SystemIdentities
    <3>. QED  BY <1>9, <2>2, <3>1, ItemFacts DEF CommitSystemEvent, Outcomes
  <2>5. results' \in Seq(Results) /\ ScheduleOK' /\ SeenOK'
    BY <1>9 DEF CommitSystemEvent
  <2>6. FrameOK'
    BY <1>9, <2>1, <2>3 DEF CommitSystemEvent, CommitPlan, FrameOK
  <2>7. FrameInv' /\ active' \in BOOLEAN
    BY <1>9, <2>1, <2>2 DEF CommitSystemEvent, CommitPlan, FrameInv
  <2>. QED  BY <2>3, <2>4, <2>5, <2>6, <2>7
<1>10. ASSUME NEW why \in AdvancePurposes, ReachTarget(why)
       PROVE  RunOK' /\ ScheduleOK' /\ RecordOK' /\ SeenOK'
  BY <1>10 DEF ReachTarget, FrameOK
<1>11. CASE FinishAdvance
  BY <1>11, <1>10, ReturnType DEF FinishAdvance, AdvancePurposes
<1>12. CASE FinishArrival
  <2>1. FrameOK' /\ active' \in BOOLEAN
    BY <1>12 DEF FinishArrival, FrameOK
  <2>2. FrameInv'
    BY <1>12 DEF FinishArrival, ReachTarget, FrameInv, ActionPurposes
  <2>. QED  BY <1>12, <1>10, <2>1, <2>2 DEF FinishArrival, AdvancePurposes
<1>13. CASE FinishElapse
  <2>1. FrameOK' /\ active' \in BOOLEAN
    BY <1>13 DEF FinishElapse, FrameOK
  <2>2. FrameInv'
    BY <1>13 DEF FinishElapse, ReachTarget, FrameInv, ActionPurposes
  <2>. QED  BY <1>13, <1>10, <2>1, <2>2 DEF FinishElapse, AdvancePurposes
<1>14. ASSUME pc \in {"validate", "completion"},
              NEW outcome \in {"REJECTED", "FAILED"}, 
              RecordResult(outcome, NoTransition)
       PROVE  results' \in Seq(Results)
  BY <1>14 DEF RecordResult, Results, FrameOK, FrameInv
<1>15. CASE RejectAction
  BY <1>15, <1>14, ReturnType DEF RejectAction
<1>16. CASE FailAction
  BY <1>16, <1>14, ReturnType DEF FailAction
<1>17. CASE AbortAction
  BY <1>17, ReturnType DEF AbortAction
<1>18. ASSUME NEW d \in 1..MaxDuration, BeginElapse(d)
       PROVE  TypeInv'
  <2>1. started + d \in Times /\ d \in 0..MaxDuration
    BY <1>18, KernelAssumption DEF BeginElapse, Times, FrameOK
  <2>2. FrameOK'
    BY <1>18, <2>1 DEF BeginElapse, EnterAdvance, FrameOK
  <2>3. FrameInv' /\ active' \in BOOLEAN
    BY <1>18 DEF BeginElapse, EnterAdvance, FrameInv, AdvancePurposes, ActionPurposes
  <2>. QED  BY <1>18, <2>2, <2>3 DEF BeginElapse
<1>19. CASE BeginResolve
  BY <1>19 DEF BeginResolve, FrameOK, FrameInv
<1>20. CASE CommitAction
  <2>1. PICK drafts \in Drafts : CommitPlan(drafts)
    BY <1>20 DEF CommitAction
  <2>2. request \in Requests /\ pc = "resolve"
    BY <1>20 DEF CommitAction, FrameInv
  <2>3. RunOK' /\ events' \in Seq(Envelopes) /\ outbox' \subseteq Deliveries
    BY <1>20, <2>1, EmittedType DEF CommitAction, CommitPlan, FrameOK
  <2>4. results' \in Seq(Results)
    <3>1. Identity("ACTION", request) \in ActionIdentities
      BY <2>2 DEF Identity, ActionIdentities
    <3>. QED  BY <1>20, <2>2, <3>1 DEF CommitAction, RecordResult, Results, FrameOK
  <2>5. outcomes' \in Seq(Outcomes) /\ ScheduleOK' /\ SeenOK'
    BY <1>20 DEF CommitAction
  <2>6. FrameOK'
    BY <1>20, <2>1, <2>3 DEF CommitAction, CommitPlan, FrameOK
  <2>7. FrameInv' /\ active' \in BOOLEAN
    BY <1>20, <2>1, <2>2 DEF CommitAction, CommitPlan, FrameInv
  <2>. QED  BY <2>3, <2>4, <2>5, <2>6, <2>7
<1>21. CASE Deliver
  BY <1>21 DEF Deliver, FrameOK, FrameInv
<1>22. CASE DeliveryFails
  BY <1>22, ReturnType DEF DeliveryFails, FrameOK
<1>23. CASE Published
  <2>1. CASE purpose = "commit"
    BY <1>23, <2>1, ReturnType DEF Published
  <2>2. CASE purpose # "commit"
    BY <1>23, <2>2 DEF Published, FrameOK, FrameInv
  <2>. QED  BY <2>1, <2>2
<1>24. CASE UNCHANGED vars
  BY <1>24 DEF vars, FrameOK, FrameInv
<1>. QED
  BY <1>1, <1>2, <1>3, <1>4, <1>5, <1>6, <1>7, <1>8, <1>9, <1>11, <1>12, <1>13,
     <1>15, <1>16, <1>17, <1>18, <1>19, <1>20, <1>21, <1>22, <1>23, <1>24
  DEF Next, Calls, Internal, Advancing, Acting, Publishing

\* The kernel keeps its types, those of the call in progress included.
THEOREM TypeCorrect == Spec => []TypeInv
<1>. QED  BY TypeInit, TypeStep, PTL DEF Spec
-----------------------------------------------------------------------------
(***************************************************************************)
(* Time.  The clock never passes a pending input.  That needs to know that *)
(* an advance stays below its target, that a dispatch stands at the due    *)
(* time of the head of the queue, and that the time it would restore is no *)
(* later.                                                                  *)
(***************************************************************************)
TimeInv ==
    /\ NothingOverdue
    /\ pc \in {"advance", "publish"} /\ purpose \in AdvancePurposes =>
           clock <= target
    /\ pc = "dispatch" =>
           /\ IsHead(current)
           /\ clock = current.due
           /\ before <= clock
           /\ clock <= target
    /\ pc = "validate" => clock = started

\* Before the boot nothing is scheduled, so nothing is overdue.
LEMMA TimeInit == Init => TimeInv
BY DEF Init, TimeInv, NothingOverdue, AdvancePurposes

\* The steps that keep the clock and queue and do not enter an advance.
LEMMA TimeKept ==
    ASSUME TimeInv, UNCHANGED <<clock, queue>>,
           pc' \notin {"dispatch", "validate"},
           pc' \in {"advance", "publish"} /\ purpose' \in AdvancePurposes =>
               clock' <= target'
    PROVE  TimeInv'
BY DEF TimeInv, NothingOverdue

\* No step takes the clock past a pending input.
LEMMA TimeStep == TypeInv /\ TimeInv /\ [Next]_vars => TimeInv'
<1>. SUFFICES ASSUME TypeInv, TimeInv, [Next]_vars  PROVE TimeInv'
  OBVIOUS
<1>. USE DEF run, schedule, record, frame, seen
<1>0. /\ clock \in Int /\ before \in Int /\ target \in Int
      /\ \A e \in queue : e.due \in Int
  <2>1. clock \in Times /\ before \in Times /\ target \in Times /\ queue \subseteq Items
    BY DEF TypeInv, TypeOK, RunOK, FrameOK, ScheduleOK
  <2>2. clock \in Int /\ before \in Int /\ target \in Int
    BY <2>1, TimesFacts
  <2>3. \A e \in queue : e.due \in Int
    BY <2>1, ItemFacts
  <2>. QED  BY <2>2, <2>3
<1>1. CASE Boot
  BY <1>1 DEF Boot, TimeInv, NothingOverdue, IsHead
<1>2. CASE Close
  BY <1>2 DEF Close, TimeInv, NothingOverdue, IsHead
<1>3. ASSUME NEW due \in Times, NEW p \in Priorities, Schedule(due, p)
      PROVE  TimeInv'
  <2>1. pc = "idle" /\ pc' = "idle"
    BY <1>3 DEF Schedule, EnsureNotTransitioning, TypeInv, FrameInv
  <2>2. NothingOverdue'
    BY <1>3 DEF Schedule, TimeInv, NothingOverdue
  <2>. QED  BY <2>1, <2>2 DEF TimeInv
<1>4. ASSUME NEW t \in Times, AdvanceTo(t)
      PROVE  TimeInv'
  BY <1>4, TimeKept DEF AdvanceTo, EnterAdvance
<1>5. ASSUME NEW r \in Requests, NEW t \in Times, SubmitAction(r, t)
      PROVE  TimeInv'
  BY <1>5, TimeKept DEF SubmitAction, EnterAdvance
<1>6. CASE Draw
  BY <1>6 DEF Draw, TimeInv, NothingOverdue, IsHead
<1>7. CASE BeginDispatch
  <2>1. PICK e \in Due(target) : /\ IsHead(e) /\ before' = clock
                                 /\ current' = e /\ clock' = e.due
    BY <1>7 DEF BeginDispatch
  <2>2. e \in queue /\ e.due <= target /\ clock <= e.due
    BY <2>1 DEF Due, TimeInv, NothingOverdue
  <2>3. UNCHANGED <<queue, target>> /\ pc' = "dispatch"
    BY <1>7 DEF BeginDispatch
  <2>4. \A other \in queue : e.due <= other.due
    BY <1>0, <2>1, <2>2 DEF IsHead, Before
  <2>5. NothingOverdue'
    BY <2>1, <2>3, <2>4 DEF NothingOverdue
  <2>6. IsHead(current)'
    BY <2>1, <2>3 DEF IsHead
  <2>. QED  BY <2>1, <2>2, <2>3, <2>5, <2>6 DEF TimeInv
<1>8. CASE DispatchFails
  <2>1. /\ clock' = before /\ queue' = queue /\ pc' = "idle"
    BY <1>8 DEF DispatchFails, Return
  <2>2. \A e \in queue : before <= e.due
    BY <1>0, <1>8 DEF DispatchFails, TimeInv, NothingOverdue
  <2>. QED  BY <2>1, <2>2 DEF TimeInv, NothingOverdue
<1>9. CASE CommitSystemEvent
  <2>1. /\ clock' = clock /\ queue' = queue \ {current} /\ target' = target
        /\ purpose' = purpose /\ pc' = "publish"
    BY <1>9 DEF CommitSystemEvent, CommitPlan
  <2>. QED  BY <1>9, <2>1 DEF CommitSystemEvent, TimeInv, NothingOverdue
<1>10. ASSUME NEW why, ReachTarget(why), pc' \notin {"advance", "publish", "dispatch"},
              pc' = "validate" => started' = target
       PROVE  TimeInv'
  <2>1. \A e \in queue : ~(e.due <= target)
    BY <1>10 DEF ReachTarget, Due
  <2>2. \A e \in queue : target <= e.due
    BY <1>0, <2>1
  <2>. QED  BY <1>10, <2>2 DEF ReachTarget, TimeInv, NothingOverdue
<1>11. CASE FinishAdvance
  BY <1>11, <1>10 DEF FinishAdvance, Return
<1>12. CASE FinishArrival
  BY <1>12, <1>10 DEF FinishArrival
<1>13. CASE FinishElapse
  BY <1>13, <1>10 DEF FinishElapse
<1>14. CASE RejectAction
  BY <1>14, TimeKept DEF RejectAction, Return
<1>15. CASE FailAction
  BY <1>15, TimeKept DEF FailAction, Return
<1>16. CASE AbortAction
  BY <1>16, TimeKept DEF AbortAction, Return
<1>17. ASSUME NEW d \in 1..MaxDuration, BeginElapse(d)
       PROVE  TimeInv'
  <2>1. clock <= started + d
    <3>1. clock = started /\ d \in Nat /\ clock \in Int
      BY <1>0, <1>17, KernelAssumption DEF BeginElapse, TimeInv
    <3>. QED  BY <3>1
  <2>. QED  BY <1>17, <2>1, TimeKept DEF BeginElapse, EnterAdvance
<1>18. CASE BeginResolve
  BY <1>18, TimeKept DEF BeginResolve
<1>19. CASE CommitAction
  BY <1>19, TimeKept DEF CommitAction, CommitPlan, AdvancePurposes
<1>20. CASE Deliver
  BY <1>20, TimeKept DEF Deliver, TimeInv
<1>21. CASE DeliveryFails
  BY <1>21, TimeKept DEF DeliveryFails, Return
<1>22. CASE Published
  BY <1>22, TimeKept DEF Published, Return, TimeInv, TypeInv, FrameInv
<1>23. CASE UNCHANGED vars
  BY <1>23 DEF vars, TimeInv, NothingOverdue, IsHead
<1>. QED
  BY <1>1, <1>2, <1>3, <1>4, <1>5, <1>6, <1>7, <1>8, <1>9, <1>11, <1>12, <1>13,
     <1>14, <1>15, <1>16, <1>17, <1>18, <1>19, <1>20, <1>21, <1>22, <1>23
  DEF Next, Calls, Internal, Advancing, Acting, Publishing

-----------------------------------------------------------------------------
(***************************************************************************)
(* Exactly once.  Only two actions touch the queue or the outcomes: one    *)
(* adds an item under a fresh insertion number, the other moves the head   *)
(* from the queue to the outcomes.                                         *)
(***************************************************************************)
QueueInv ==
    /\ ScheduledOnce
    /\ \A e \in queue : e.insertion < insertions
    /\ \A i \in DOMAIN outcomes : outcomes[i].insertion < insertions

\* Before the boot nothing is scheduled or executed.
LEMMA QueueInit == Init => QueueInv
BY DEF Init, QueueInv, ScheduledOnce

\* Steps that leave the queue and the outcomes alone keep what is said of them.
LEMMA QueueKept ==
    ASSUME QueueInv, UNCHANGED <<queue, insertions, outcomes>>
    PROVE  QueueInv'
BY DEF QueueInv, ScheduledOnce

\* An input enters the queue under a new number and leaves it for the outcomes.
LEMMA QueueStep == TypeInv /\ QueueInv /\ [Next]_vars => QueueInv'
<1>. SUFFICES ASSUME TypeInv, QueueInv, [Next]_vars  PROVE QueueInv'
  OBVIOUS
<1>. USE DEF run, schedule, record, frame, seen
<1>0. /\ insertions \in Nat /\ outcomes \in Seq(Outcomes)
      /\ \A e \in queue : e.insertion \in Nat
      /\ \A i \in DOMAIN outcomes : outcomes[i].insertion \in Nat
  <2>1. insertions \in Nat /\ outcomes \in Seq(Outcomes) /\ queue \subseteq Items
    BY DEF TypeInv, TypeOK, ScheduleOK, RecordOK
  <2>2. \A i \in DOMAIN outcomes : outcomes[i].insertion \in Nat
    <3>1. ASSUME NEW i \in DOMAIN outcomes  PROVE outcomes[i] \in Outcomes
      BY <2>1
    <3>. QED  BY <3>1 DEF Outcomes
  <2>. QED  BY <2>1, <2>2, ItemFacts
<1>1. ASSUME NEW due \in Times, NEW p \in Priorities, Schedule(due, p)
      PROVE  QueueInv'
  <2>. DEFINE new == [due |-> due, priority |-> p, insertion |-> insertions]
  <2>1. /\ queue' = queue \union {new}
        /\ insertions' = insertions + 1
        /\ outcomes' = outcomes
    BY <1>1 DEF Schedule
  <2>2. new.insertion = insertions
    OBVIOUS
  <2>. HIDE DEF new
  <2>3. \A n \in 0..(insertions' - 1) :
            \/ \E e \in queue' : e.insertion = n
            \/ \E i \in DOMAIN outcomes' : outcomes'[i].insertion = n
    BY <1>0, <2>1, <2>2 DEF QueueInv, ScheduledOnce
  <2>4. /\ \A e \in queue' : e.insertion < insertions'
        /\ \A i \in DOMAIN outcomes' : outcomes'[i].insertion < insertions'
    BY <1>0, <2>1, <2>2 DEF QueueInv
  <2>5. /\ \A e \in queue', i \in DOMAIN outcomes' :
               e.insertion # outcomes'[i].insertion
        /\ \A e, f \in queue' : e.insertion = f.insertion => e = f
    BY <1>0, <2>1, <2>2 DEF QueueInv, ScheduledOnce
  <2>6. \A i, j \in DOMAIN outcomes' :
            outcomes'[i].insertion = outcomes'[j].insertion => i = j
    BY <2>1 DEF QueueInv, ScheduledOnce
  <2>. QED  BY <2>3, <2>4, <2>5, <2>6 DEF QueueInv, ScheduledOnce
<1>2. CASE CommitSystemEvent
  <2>. DEFINE n == Len(outcomes)
  <2>1. /\ queue' = queue \ {current}
        /\ insertions' = insertions
        /\ current \in queue
    BY <1>2 DEF CommitSystemEvent, TypeInv, FrameInv
  <2>2. /\ n \in Nat
        /\ DOMAIN outcomes = 1..n /\ DOMAIN outcomes' = 1..(n + 1)
        /\ \A i \in 1..n : outcomes'[i] = outcomes[i]
        /\ outcomes'[n + 1].insertion = current.insertion
    BY <1>0, <1>2 DEF CommitSystemEvent
  <2>. HIDE DEF n
  <2>3. \A i \in DOMAIN outcomes' :
            \/ i \in DOMAIN outcomes /\ outcomes'[i] = outcomes[i]
            \/ i = n + 1 /\ outcomes'[i].insertion = current.insertion
    BY <2>2
  <2>4. ASSUME NEW k \in 0..(insertions - 1)
        PROVE  \/ \E e \in queue' : e.insertion = k
               \/ \E i \in DOMAIN outcomes' : outcomes'[i].insertion = k
    <3>1. CASE k = current.insertion
      BY <2>2, <3>1
    <3>2. CASE \E e \in queue : e.insertion = k /\ k # current.insertion
      BY <2>1, <3>2
    <3>3. CASE \E i \in DOMAIN outcomes : outcomes[i].insertion = k
      BY <2>2, <3>3
    <3>. QED  BY <3>1, <3>2, <3>3 DEF QueueInv, ScheduledOnce
  <2>5. \A i \in DOMAIN outcomes' : outcomes'[i].insertion < insertions'
    BY <2>1, <2>3 DEF QueueInv
  <2>6. \A e \in queue', i \in DOMAIN outcomes' :
            e.insertion # outcomes'[i].insertion
    BY <2>1, <2>3 DEF QueueInv, ScheduledOnce
  <2>7. \A i, j \in DOMAIN outcomes' :
            outcomes'[i].insertion = outcomes'[j].insertion => i = j
    BY <2>1, <2>3 DEF QueueInv, ScheduledOnce
  <2>. QED  BY <2>1, <2>4, <2>5, <2>6, <2>7 DEF QueueInv, ScheduledOnce
<1>. QED
  BY <1>1, <1>2, QueueKept
  DEF Next, vars, Calls, Internal, Advancing, Acting, Publishing, Boot, Close,
      AdvanceTo, SubmitAction, Draw, BeginDispatch, DispatchFails, ReachTarget,
      FinishAdvance, FinishArrival, FinishElapse, RejectAction, FailAction,
      AbortAction, BeginElapse, BeginResolve, CommitAction, Deliver,
      DeliveryFails, Published

-----------------------------------------------------------------------------
(***************************************************************************)
(* The event log.  It grows only at a commit, by envelopes numbered on     *)
(* from its length and stamped with the clock; the clock falls only when a *)
(* dispatch is undone, to a time the log has not passed.                   *)
(***************************************************************************)
LEMMA LogInit == Init => LogInOrder
BY DEF Init, LogInOrder

\* Steps that add no event keep the log ordered.
LEMMA LogKept ==
    ASSUME LogInOrder, UNCHANGED <<events, eventSequence>>,
           events \in Seq(Envelopes),
           CommittedTime \in Int, CommittedTime' \in Int,
           CommittedTime <= CommittedTime'
    PROVE  LogInOrder'
BY EnvelopeFacts DEF LogInOrder

\* A committed plan adds its events at the present, under the next numbers.
LEMMA LogGrows ==
    ASSUME TypeInv, LogInOrder, NEW drafts \in Drafts, CommitPlan(drafts),
           \A i \in DOMAIN events : events[i].time <= clock,
           clock' = clock
    PROVE  LogInOrder'
<1>. DEFINE n == Len(events)
            new == Emitted(drafts)
<1>1. /\ events \in Seq(Envelopes) /\ n \in Nat /\ eventSequence = n
      /\ clock \in Int
  BY TimesFacts DEF TypeInv, TypeOK, RecordOK, RunOK, LogInOrder
<1>2. /\ new \in Seq(Envelopes) /\ Len(drafts) \in Nat /\ Len(new) = Len(drafts)
  BY EmittedType DEF TypeInv, TypeOK, RunOK
<1>3. \A i \in 1..Len(new) : new[i].sequence = n + i /\ new[i].time = clock
  BY <1>1, <1>2 DEF Emitted
<1>4. events' = events \o new /\ eventSequence' = n + Len(new) /\ pc' = "publish"
  BY <1>1, <1>2 DEF CommitPlan
<1>. HIDE DEF new
<1>5. /\ Len(events') = n + Len(new)
      /\ DOMAIN events' = 1..(n + Len(new))
      /\ \A i \in 1..n : events'[i] = events[i]
      /\ \A i \in 1..Len(new) : events'[n + i] = new[i]
  BY <1>1, <1>2, <1>4
<1>6. \A i \in DOMAIN events' :
         \/ i \in 1..n /\ events'[i] = events[i]
         \/ /\ i \in (n + 1)..(n + Len(new))
            /\ events'[i].sequence = i /\ events'[i].time = clock
  <2>. SUFFICES ASSUME NEW i \in DOMAIN events', i \notin 1..n
                PROVE  /\ i \in (n + 1)..(n + Len(new))
                       /\ events'[i].sequence = i /\ events'[i].time = clock
    BY <1>5
  <2>1. i \in (n + 1)..(n + Len(new)) /\ i - n \in 1..Len(new) /\ n + (i - n) = i
    BY <1>1, <1>2, <1>5
  <2>2. events'[n + (i - n)] = new[i - n]
    BY <1>5, <2>1
  <2>. QED  BY <2>1, <2>2, <1>3
<1>7. CommittedTime' = clock
  BY <1>4 DEF CommittedTime
<1>8. DOMAIN events = 1..n
  BY <1>1
<1>9. ASSUME NEW i \in DOMAIN events'
      PROVE  /\ events'[i].sequence = i
             /\ events'[i].time <= clock
             /\ \A j \in 1..i : events'[j].time <= events'[i].time
  <2>1. events'[i].sequence = i /\ events'[i].time <= clock
    BY <1>1, <1>6, <1>8 DEF LogInOrder
  <2>2. ASSUME NEW j \in 1..i  PROVE events'[j].time <= events'[i].time
    <3>1. j \in DOMAIN events'
      BY <1>1, <1>2, <1>5
    <3>2. CASE i \in 1..n
      <4>1. j \in 1..n
        BY <1>1, <3>2
      <4>. QED  BY <1>5, <1>8, <3>2, <4>1 DEF LogInOrder
    <3>3. CASE i \notin 1..n
      <4>1. events'[i].time = clock
        BY <1>6, <3>3
      <4>2. events'[j].time <= clock
        BY <1>1, <1>6, <1>8, <3>1 
      <4>. QED  BY <4>1, <4>2
    <3>. QED  BY <3>2, <3>3
  <2>. QED  BY <2>1, <2>2
<1>. QED  BY <1>1, <1>2, <1>4, <1>5, <1>7, <1>9 DEF LogInOrder

\* Every step keeps the log ordered and not ahead of time.
LEMMA LogStep == TypeInv /\ TimeInv /\ LogInOrder /\ [Next]_vars => LogInOrder'
<1>. SUFFICES ASSUME TypeInv, TimeInv, LogInOrder, [Next]_vars
              PROVE  LogInOrder'
  OBVIOUS
<1>. USE DEF run, schedule, record, frame, seen
<1>1. /\ clock \in Int /\ before \in Int /\ target \in Int
      /\ events \in Seq(Envelopes)
  BY TimesFacts DEF TypeInv, TypeOK, RunOK, FrameOK, RecordOK
<1>2. \A i \in DOMAIN events : events[i].time <= clock
  <2>1. \A i \in DOMAIN events : events[i].time \in Int
    BY <1>1, EnvelopeFacts
  <2>2. CommittedTime <= clock /\ CommittedTime \in Int
    BY <1>1 DEF CommittedTime, TimeInv
  <2>. QED  BY <1>1, <2>1, <2>2 DEF LogInOrder
<1>3. CASE CommitSystemEvent
  BY <1>2, <1>3, LogGrows DEF CommitSystemEvent
<1>4. CASE CommitAction
  BY <1>2, <1>4, LogGrows DEF CommitAction
<1>5. CASE BeginDispatch
  BY <1>1, <1>5, LogKept DEF BeginDispatch, CommittedTime
<1>6. CASE DispatchFails
  BY <1>1, <1>6, LogKept DEF DispatchFails, Return, CommittedTime
<1>7. ASSUME NEW why \in AdvancePurposes, ReachTarget(why), pc' # "dispatch"
      PROVE  LogInOrder'
  BY <1>1, <1>7, LogKept DEF ReachTarget, CommittedTime, TimeInv
<1>8. ASSUME UNCHANGED <<clock, before, events, eventSequence>>,
             pc = "dispatch" <=> pc' = "dispatch"
      PROVE  LogInOrder'
  BY <1>1, <1>8, LogKept DEF CommittedTime
<1>9. CASE FinishAdvance \/ FinishArrival \/ FinishElapse
  BY <1>7, <1>9 DEF FinishAdvance, FinishArrival, FinishElapse, Return, AdvancePurposes
<1>10. ASSUME UNCHANGED <<clock, events, eventSequence>>,
              pc # "dispatch", pc' # "dispatch"
      PROVE  LogInOrder'
  BY <1>1, <1>10, LogKept DEF CommittedTime
<1>11. CASE Calls
  BY <1>8, <1>10, <1>11 DEF Calls, Boot, Close, Schedule, AdvanceTo, SubmitAction, EnterAdvance, EnsureNotTransitioning,
     TypeInv, FrameInv
<1>12. CASE Draw \/ Publishing
  BY <1>8, <1>10, <1>12 DEF Draw, Publishing, Deliver, DeliveryFails, Published, Return
<1>13. CASE Acting
  BY <1>4, <1>10, <1>13 DEF Acting, RejectAction, FailAction, AbortAction, BeginElapse,
     EnterAdvance, BeginResolve, Return
<1>14. CASE UNCHANGED vars
  BY <1>8, <1>14 DEF vars
<1>. QED
  BY <1>3, <1>5, <1>6, <1>9, <1>11, <1>12, <1>13, <1>14
  DEF Next, Internal, Advancing

-----------------------------------------------------------------------------
(***************************************************************************)
(* The inductive invariant, and the safety properties it gives.            *)
(***************************************************************************)
IInv == TypeInv /\ TimeInv /\ QueueInv /\ LogInOrder

\* The inductive invariant of the kernel: types, time, queue and log.
THEOREM Invariance == Spec => []IInv
<1>1. Init => IInv
  BY TypeInit, TimeInit, QueueInit, LogInit DEF IInv
<1>2. IInv /\ [Next]_vars => IInv'
  BY TypeStep, TimeStep, QueueStep, LogStep DEF IInv
<1>. QED  BY <1>1, <1>2, PTL DEF Spec

\* The kernel's fields keep their types.
THEOREM TypesKept == Spec => []TypeOK
<1>1. IInv => TypeOK
  BY DEF IInv, TypeInv
<1>. QED  BY <1>1, Invariance, PTL

\* No pending input is ever behind the clock, and every scheduled input is
\* pending or executed, and executed at most once.
THEOREM KeepsInputs == Spec => []InputsKept
<1>1. IInv => InputsKept
  BY DEF IInv, TimeInv, QueueInv, InputsKept
<1>. QED  BY <1>1, Invariance, PTL

\* The event log is gapless, ordered in time and never ahead of the clock.
THEOREM LogIsOrdered == Spec => []LogInOrder
<1>1. IInv => LogInOrder
  BY DEF IInv
<1>. QED  BY <1>1, Invariance, PTL

\* Nothing a handler calls disturbs the dispatch it runs in.
THEOREM HeadIsStable == Spec => []DispatchUndisturbed
<1>1. IInv => DispatchUndisturbed
  <2>. SUFFICES ASSUME IInv, pc = "dispatch"
                PROVE  IsHead(current) /\ current.due <= target /\ status = "RUNNING"
    BY DEF DispatchUndisturbed
  <2>1. IsHead(current) /\ current.due <= target
    BY DEF IInv, TimeInv
  <2>2. status = "RUNNING"
    BY DEF IInv, TypeInv, FrameInv
  <2>. QED  BY <2>1, <2>2
<1>. QED  BY <1>1, Invariance, PTL

\* Inputs execute in the order of their keys, among those pending.
THEOREM ExecutesEarliest == Spec => EarliestFirst
<1>1. IInv /\ [Next]_vars =>
        [outcomes' # outcomes => \A e \in queue' : Before(current, e)]_vars
  <2>. SUFFICES ASSUME IInv, Next, outcomes' # outcomes
                PROVE  \A e \in queue' : Before(current, e)
    BY DEF vars, run, schedule, record, frame, seen
  <2>1. CommitSystemEvent
    BY DEF Next, vars, Calls, Internal, Advancing, Acting, Publishing, Boot, Close,
      Schedule, AdvanceTo, SubmitAction, Draw, BeginDispatch, DispatchFails,
      ReachTarget, FinishAdvance, FinishArrival, FinishElapse, RejectAction,
      FailAction, AbortAction, BeginElapse, BeginResolve, CommitAction, Deliver,
      DeliveryFails, Published, record
  <2>. QED  BY <2>1 DEF CommitSystemEvent, IInv, TimeInv, IsHead
<1>. QED  BY <1>1, Invariance, PTL DEF Spec, EarliestFirst

\* The committed RNG moves only together with a transition number.
THEOREM RngIsTransactional == Spec => RngTransactional
<1>1. [Next]_vars => [rng' # rng => transitions' = transitions + 1]_vars
  BY DEF Next, vars, Calls, Internal, Advancing, Acting, Publishing, Boot, Close,
      Schedule, AdvanceTo, SubmitAction, Draw, BeginDispatch, DispatchFails,
      ReachTarget, FinishAdvance, FinishArrival, FinishElapse, RejectAction,
      FailAction, AbortAction, BeginElapse, BeginResolve, CommitAction, Deliver,
      DeliveryFails, Published, CommitSystemEvent, CommitPlan, run
<1>. QED  BY <1>1, PTL DEF Spec, RngTransactional

-----------------------------------------------------------------------------
(***************************************************************************)
(* Refinement.  The abstract time is the committed clock, so the start of  *)
(* a dispatch and its failure are invisible; only two actions extend the   *)
(* ledger.                                                                 *)
(***************************************************************************)
LEMMA LedgerByOutcome ==
    ASSUME outcomes \in Seq(Outcomes), NEW o,
           outcomes' = Append(outcomes, o), results' = results
    PROVE  Ledger' = Ledger \union {o.transition}
<1>. DEFINE n == Len(outcomes)
<1>1. /\ n \in Nat /\ DOMAIN outcomes = 1..n /\ DOMAIN outcomes' = 1..(n + 1)
      /\ \A i \in 1..n : outcomes'[i] = outcomes[i]
      /\ outcomes'[n + 1] = o
  OBVIOUS
<1>. HIDE DEF n
<1>2. {outcomes'[i].transition : i \in 1..(n + 1)} =
          {outcomes[i].transition : i \in 1..n} \union {o.transition}
  <2>1. \A i \in 1..(n + 1) : i \in 1..n \/ i = n + 1
    BY <1>1
  <2>2. 1..n \subseteq 1..(n + 1) /\ n + 1 \in 1..(n + 1)
    BY <1>1
  <2>. QED  BY <1>1, <2>1, <2>2
<1>. QED  BY <1>1, <1>2 DEF Ledger

\* A result adds to the abstract ledger exactly when it succeeded.
LEMMA LedgerByResult ==
    ASSUME results \in Seq(Results), NEW r,
           results' = Append(results, r), outcomes' = outcomes
    PROVE  /\ r.status # "SUCCEEDED" => Ledger' = Ledger
           /\ r.status = "SUCCEEDED" => Ledger' = Ledger \union {r.transition}
<1>. DEFINE n == Len(results)
            S == {j \in 1..n : results[j].status = "SUCCEEDED"}
            T == {j \in 1..(n + 1) : results'[j].status = "SUCCEEDED"}
<1>1. /\ n \in Nat /\ DOMAIN results = 1..n /\ DOMAIN results' = 1..(n + 1)
      /\ \A i \in 1..n : results'[i] = results[i]
      /\ results'[n + 1] = r
  OBVIOUS
<1>. HIDE DEF n
<1>2. /\ r.status # "SUCCEEDED" => T = S
      /\ r.status = "SUCCEEDED" => T = S \union {n + 1}
  <2>1. \A i \in 1..(n + 1) : i \in 1..n \/ i = n + 1
    BY <1>1
  <2>2. 1..n \subseteq 1..(n + 1) /\ n + 1 \in 1..(n + 1)
    BY <1>1
  <2>. QED  BY <1>1, <2>1, <2>2
<1>3. \A i \in S : results'[i] = results[i]
  BY <1>1
<1>4. /\ Ledger = {outcomes[i].transition : i \in DOMAIN outcomes} \union
                  {results[i].transition : i \in S}
      /\ Ledger' = {outcomes[i].transition : i \in DOMAIN outcomes} \union
                   {results'[i].transition : i \in T}
  BY <1>1 DEF Ledger
<1>. HIDE DEF S, T
<1>5. CASE r.status = "SUCCEEDED"
  <2>1. {results'[i].transition : i \in T} =
            {results[i].transition : i \in S} \union {r.transition}
    BY <1>1, <1>2, <1>3, <1>5
  <2>. QED  BY <1>4, <1>5, <2>1
<1>6. CASE r.status # "SUCCEEDED"
  <2>1. {results'[i].transition : i \in T} = {results[i].transition : i \in S}
    BY <1>2, <1>3, <1>6
  <2>. QED  BY <1>4, <1>6, <2>1
<1>. QED  BY <1>5, <1>6

\* A new kernel is a new timeline.
LEMMA RefineInit == Init => Abstract!Init
BY DEF Init, Abstract!Init, CommittedTime, Ledger

\* Every step of the kernel is a step of the timeline or leaves it alone.
LEMMA RefineStep ==
    IInv /\ [Next]_vars => [Abstract!Next]_(Abstract!vars)
<1>. SUFFICES ASSUME IInv, [Next]_vars
              PROVE  [Abstract!Next]_(Abstract!vars)
  OBVIOUS
<1>. USE DEF run, schedule, record, frame, seen
<1>1. /\ clock \in Times /\ target \in Times /\ clock \in Int /\ target \in Int
      /\ outcomes \in Seq(Outcomes) /\ results \in Seq(Results)
  BY TimesFacts DEF IInv, TypeInv, TypeOK, RunOK, FrameOK, RecordOK
<1>2. \A e \in queue : e.due \in Int /\ e.due \in Times
  BY ItemFacts DEF IInv, TypeInv, TypeOK, ScheduleOK, Items
<1>3. ASSUME UNCHANGED <<clock, queue, insertions, transitions, outcomes, results>>,
             pc # "dispatch", pc' # "dispatch"
      PROVE  UNCHANGED Abstract!vars
  BY <1>3 DEF Abstract!vars, CommittedTime, Ledger
<1>4. ASSUME NEW due \in Times, NEW p \in Priorities, Schedule(due, p)
      PROVE  Abstract!Next
  <2>1. pc = "idle" /\ UNCHANGED <<pc, clock, before, transitions, outcomes, results>>
    BY <1>4 DEF Schedule, EnsureNotTransitioning, IInv, TypeInv, FrameInv
  <2>2. UNCHANGED <<CommittedTime, transitions, Ledger>> /\ CommittedTime = clock
    BY <2>1 DEF CommittedTime, Ledger
  <2>3. Abstract!Schedule
    BY <1>4, <2>2 DEF Schedule, Abstract!Schedule, Abstract!Times, Times
  <2>. QED  BY <2>3 DEF Abstract!Next
<1>5. CASE BeginDispatch
  BY <1>5 DEF BeginDispatch, Abstract!vars, CommittedTime, Ledger
<1>6. CASE DispatchFails
  BY <1>6 DEF DispatchFails, Return, Abstract!vars, CommittedTime, Ledger
<1>7. CASE CommitSystemEvent
  <2>1. /\ pc = "dispatch" /\ pc' = "publish" /\ clock' = clock
        /\ transitions' = transitions + 1 /\ insertions' = insertions
        /\ queue' = queue \ {current}
    BY <1>7 DEF CommitSystemEvent, CommitPlan
  <2>2. /\ current \in queue /\ clock = current.due /\ before <= clock
        /\ \A other \in queue \ {current} : Before(current, other)
    BY <2>1 DEF IInv, TimeInv, IsHead
  <2>3. CommittedTime = before /\ CommittedTime' = clock
    BY <2>1 DEF CommittedTime
  <2>4. Ledger' = Ledger \union
                    {Identity("SCHEDULED_EVENT", current.insertion)}
    BY <1>1, <1>7, LedgerByOutcome DEF CommitSystemEvent
  <2>5. Abstract!Commit(current.due, "SCHEDULED_EVENT", current.insertion)
    BY <2>1, <2>2, <2>4 DEF Abstract!Commit, Abstract!Identity, Identity
  <2>6. Abstract!Execute
    BY <2>1, <2>2, <2>3, <2>5 DEF Abstract!Execute, Abstract!Before, Before
  <2>. QED  BY <2>6 DEF Abstract!Next
<1>8. ASSUME NEW why, ReachTarget(why), pc' # "dispatch",
             clock <= target, pc = "advance"
      PROVE  [Abstract!Next]_(Abstract!vars)
  <2>1. /\ clock' = target
        /\ UNCHANGED <<queue, insertions, transitions, outcomes, results>>
    BY <1>8 DEF ReachTarget
  <2>2. \A e \in queue : target < e.due
    BY <1>1, <1>2, <1>8 DEF ReachTarget, Due
  <2>3. /\ CommittedTime = clock /\ CommittedTime' = target
        /\ Ledger' = Ledger
    BY <1>8, <2>1 DEF CommittedTime, Ledger
  <2>4. CASE clock = target
    BY <2>1, <2>3, <2>4 DEF Abstract!vars
  <2>5. CASE clock # target
    <3>1. Abstract!Elapse
      BY <1>1, <1>8, <2>1, <2>2, <2>3, <2>5 DEF Abstract!Elapse, Abstract!Times, Times
    <3>. QED  BY <3>1 DEF Abstract!Next
  <2>. QED  BY <2>4, <2>5
<1>9. CASE FinishAdvance \/ FinishArrival \/ FinishElapse
  <2>1. pc = "advance" /\ clock <= target
    BY <1>9 DEF FinishAdvance, FinishArrival, FinishElapse, ReachTarget,
      IInv, TimeInv, TypeInv, FrameInv
  <2>. QED  BY <1>8, <1>9, <2>1 DEF FinishAdvance, FinishArrival, FinishElapse, Return
<1>10. CASE RejectAction \/ FailAction
  <2>1. Ledger' = Ledger
    BY <1>1, <1>10, LedgerByResult DEF RejectAction, FailAction, RecordResult
  <2>. QED  BY <1>10, <2>1 DEF RejectAction, FailAction, Return, Abstract!vars,
              CommittedTime
<1>11. CASE CommitAction
  <2>1. /\ pc = "resolve" /\ pc' = "publish" /\ clock' = clock
        /\ transitions' = transitions + 1
        /\ UNCHANGED <<queue, insertions>>
        /\ request \in Requests
    BY <1>11 DEF CommitAction, CommitPlan, IInv, TypeInv, FrameInv
  <2>2. CommittedTime = clock /\ CommittedTime' = clock
    BY <2>1 DEF CommittedTime
  <2>3. Ledger' = Ledger \union {Identity("ACTION", request)}
    BY <1>1, <1>11, LedgerByResult DEF CommitAction, RecordResult
  <2>4. Abstract!Commit(CommittedTime, "ACTION", request)
    BY <2>1, <2>2, <2>3 DEF Abstract!Commit, Abstract!Identity, Identity
  <2>5. Abstract!Act
    BY <2>1, <2>2, <2>4 DEF Abstract!Act
  <2>. QED  BY <2>5 DEF Abstract!Next
<1>12. CASE Draw
  BY <1>12 DEF Draw, Abstract!vars, CommittedTime, Ledger
<1>13. CASE Boot \/ Close
  BY <1>13 DEF Boot, Close, Abstract!vars, CommittedTime, Ledger
<1>14. ASSUME NEW t \in Times, AdvanceTo(t)
       PROVE  UNCHANGED Abstract!vars
  BY <1>3, <1>14 DEF AdvanceTo, EnterAdvance, EnsureNotTransitioning, IInv,
    TypeInv, FrameInv
<1>15. ASSUME NEW r \in Requests, NEW t \in Times, SubmitAction(r, t)
       PROVE  UNCHANGED Abstract!vars
  BY <1>3, <1>15 DEF SubmitAction, EnterAdvance, EnsureNotTransitioning, IInv,
    TypeInv, FrameInv
<1>16. CASE AbortAction \/ BeginResolve \/ (\E d \in 1..MaxDuration : BeginElapse(d))
  BY <1>3, <1>16 DEF AbortAction, BeginResolve, BeginElapse, EnterAdvance, Return
<1>17. CASE Publishing
  BY <1>3, <1>17 DEF Publishing, Deliver, DeliveryFails, Published, Return
<1>18. CASE UNCHANGED vars
  BY <1>18 DEF vars, Abstract!vars, CommittedTime, Ledger
<1>. QED
  BY <1>4, <1>5, <1>6, <1>7, <1>9, <1>10, <1>11, <1>12, <1>13, <1>14, <1>15,
     <1>16, <1>17, <1>18
  DEF Next, Calls, Internal, Advancing, Acting

\* Every behaviour of the kernel is a behaviour of the timeline.
THEOREM Refinement == Spec => ImplementsTimeline
<1>. QED
  BY RefineInit, RefineStep, Invariance, PTL DEF Spec, ImplementsTimeline, Abstract!Spec

-----------------------------------------------------------------------------
(***************************************************************************)
(* The contract of a call.  The request is at hand exactly while an action *)
(* is submitted, and a result is recorded before its events are published  *)
(* and at no other point of the call that goes on.                         *)
(***************************************************************************)
CallInv ==
    /\ purpose \in {"none", "advance"} => request = NoRequest
    /\ pc = "idle" <=> purpose = "none"
    /\ purpose = "commit" => pc = "publish"

\* The call invariant holds at the start.
LEMMA CallInit == Init => CallInv
BY DEF Init, CallInv

\* Every step preserves the call invariant.
LEMMA CallStep == TypeInv /\ CallInv /\ [Next]_vars => CallInv'
<1>. SUFFICES ASSUME TypeInv, CallInv, [Next]_vars  PROVE CallInv'
  OBVIOUS
<1>. USE DEF CallInv, run, schedule, record, frame, seen
<1>1. CASE Calls
  BY <1>1 DEF Calls, Boot, Close, Schedule, AdvanceTo, SubmitAction, EnterAdvance,
    EnsureNotTransitioning, TypeInv, FrameInv
<1>2. CASE Draw
  BY <1>2 DEF Draw
<1>3. CASE BeginDispatch \/ DispatchFails
  BY <1>3 DEF BeginDispatch, DispatchFails, Return
<1>4. CASE CommitSystemEvent
  BY <1>4 DEF CommitSystemEvent, CommitPlan, TypeInv, FrameInv, AdvancePurposes
<1>5. CASE FinishAdvance \/ FinishArrival \/ FinishElapse
  BY <1>5 DEF FinishAdvance, FinishArrival, FinishElapse, ReachTarget, Return
<1>6. CASE RejectAction \/ FailAction \/ AbortAction
  BY <1>6 DEF RejectAction, FailAction, AbortAction, Return
<1>7. CASE (\E d \in 1..MaxDuration : BeginElapse(d)) \/ BeginResolve
  BY <1>7 DEF BeginElapse, BeginResolve, EnterAdvance
<1>8. CASE CommitAction
  BY <1>8 DEF CommitAction, CommitPlan, TypeInv, FrameInv, ActionPurposes
<1>9. CASE Publishing
  BY <1>9 DEF Publishing, Deliver, DeliveryFails, Published, Return
<1>10. CASE UNCHANGED vars
  BY <1>10 DEF vars
<1>. QED
  BY <1>1, <1>2, <1>3, <1>4, <1>5, <1>6, <1>7, <1>8, <1>9, <1>10
  DEF Next, Internal, Advancing, Acting

\* What the caller sees of the results recorded so far.
PublicResults ==
    [i \in DOMAIN results |->
        [request |-> results[i].request, status |-> results[i].status,
         resolved |-> results[i].resolved]]

\* Recording a result appends the caller's view of it.
LEMMA PublicResultAppended ==
    ASSUME TypeInv, NEW outcome, NEW identity, RecordResult(outcome, identity)
    PROVE  PublicResults' =
               Append(PublicResults,
                      [request |-> request, status |-> outcome, resolved |-> clock])
<1>. DEFINE n == Len(results)
            public(r) == [request |-> r.request, status |-> r.status,
                          resolved |-> r.resolved]
            new == [request |-> request, status |-> outcome, started |-> started,
                    resolved |-> clock, transition |-> identity]
<1>1. results \in Seq(Results) /\ n \in Nat /\ DOMAIN results = 1..n
  BY DEF TypeInv, TypeOK, RecordOK
<1>2. results' = Append(results, new)
  BY DEF RecordResult
<1>3. /\ DOMAIN results' = 1..(n + 1)
      /\ \A i \in 1..n : results'[i] = results[i]
      /\ results'[n + 1] = new
  BY <1>1, <1>2
<1>4. PublicResults = [i \in 1..n |-> public(results[i])]
  BY <1>1 DEF PublicResults
<1>5. PublicResults' = [i \in 1..(n + 1) |-> public(results'[i])]
  BY <1>3 DEF PublicResults
<1>. HIDE DEF n, public, new
<1>6. /\ Len(PublicResults) = n
      /\ Append(PublicResults, public(new)) =
             [i \in 1..(n + 1) |-> IF i = n + 1 THEN public(new) ELSE PublicResults[i]]
  BY <1>1, <1>4
<1>7. PublicResults' = Append(PublicResults, public(new))
  BY <1>1, <1>3, <1>4, <1>5, <1>6
<1>. QED  BY <1>7 DEF public, new

\* The initial states of the kernel are those of an engine.
LEMMA ServeInit == Init => Port!EngineInit
BY DEF Init, Port!EngineInit, CommittedTime, NoRequest

\* Every step of the kernel is a step of an engine or invisible to its caller.
LEMMA ServeStep ==
    IInv /\ CallInv /\ [Next]_vars => [Port!EngineNext]_(Port!engine)
<1>. SUFFICES ASSUME IInv, CallInv, [Next]_vars
              PROVE  Port!EngineNext \/ UNCHANGED Port!engine
  OBVIOUS
<1>. USE DEF run, schedule, record, frame, seen
<1>1. TypeInv /\ TimeInv
  BY DEF IInv
<1>2. /\ "none" \notin Requests /\ request \in Requests \union {NoRequest}
      /\ purpose \in AdvancePurposes \union {"none", "commit"}
      /\ clock \in 0..MaxTime /\ before \in 0..MaxTime /\ target \in 0..MaxTime
  BY <1>1, KernelAssumption
  DEF TypeInv, TypeOK, RunOK, FrameOK, AdvancePurposes, Times
<1>3. /\ active <=> pc # "idle"
      /\ active => status = "RUNNING"
      /\ pc = "dispatch" => purpose \in AdvancePurposes
      /\ purpose \in ActionPurposes => request \in Requests
  BY <1>1 DEF TypeInv, FrameInv
<1>4. /\ purpose = "commit" => pc = "publish"
      /\ pc = "idle" <=> purpose = "none"
      /\ purpose \in {"none", "advance"} => request = NoRequest
  BY DEF CallInv
<1>5. CASE Boot
  BY <1>5 DEF Boot, Port!EngineNext, Port!Boot, CommittedTime
<1>6. CASE Close
  BY <1>3, <1>4, <1>6
  DEF Close, EnsureNotTransitioning, Port!EngineNext, Port!Close, CommittedTime, NoRequest
<1>7. ASSUME NEW due \in Times, NEW p \in Priorities, Schedule(due, p)
      PROVE  UNCHANGED Port!engine
  BY <1>7 DEF Schedule, Port!engine, CommittedTime
<1>8. ASSUME NEW t \in Times, AdvanceTo(t)
      PROVE  UNCHANGED Port!engine
  BY <1>3, <1>4, <1>8
  DEF AdvanceTo, EnterAdvance, EnsureNotTransitioning, Port!engine, CommittedTime
<1>9. ASSUME NEW r \in Requests, NEW t \in Times, SubmitAction(r, t)
      PROVE  Port!Accept(r)
  BY <1>3, <1>4, <1>9
  DEF SubmitAction, EnterAdvance, EnsureRunning, EnsureNotTransitioning, Port!Accept,
    CommittedTime, NoRequest
<1>10. CASE Draw
  BY <1>10 DEF Draw, Port!engine, CommittedTime
<1>11. CASE BeginDispatch
  BY <1>11 DEF BeginDispatch, Port!engine, CommittedTime
\* A step that ends the call by raising, without time passing.
<1>12. ASSUME Return("raised"), pc # "idle", CommittedTime' = CommittedTime,
              UNCHANGED <<status, results>>
       PROVE  Port!Raise \/ Port!Advance
  <2>1. CASE request = NoRequest
    <3>1. CommittedTime \in 0..MaxTime
      BY <1>2 DEF CommittedTime
    <3>2. status = "RUNNING" /\ purpose # "commit" /\ purpose' # "commit"
      BY <1>2, <1>3, <1>12, <2>1 DEF Return, ActionPurposes, NoRequest
    <3>3. Port!Ticks
      BY <1>12, <2>1, <3>1, <3>2 DEF Port!Ticks, Return
    <3>. QED  BY <1>12, <2>1, <3>3 DEF Port!Advance, Return, NoRequest
  <2>2. CASE request # NoRequest
    BY <1>12, <2>2 DEF Port!Raise, Return, NoRequest
  <2>. QED  BY <2>1, <2>2
<1>13. CASE DispatchFails
  BY <1>12, <1>13 DEF DispatchFails, Return, CommittedTime, Port!EngineNext
<1>14. CASE AbortAction
  BY <1>12, <1>14 DEF AbortAction, Return, CommittedTime, Port!EngineNext
<1>15. CASE DeliveryFails
  BY <1>12, <1>15 DEF DeliveryFails, Return, CommittedTime, Port!EngineNext
\* A step that only lets time pass, within a call or an advance of its own.
<1>16. ASSUME CommittedTime <= CommittedTime', CommittedTime' \in 0..MaxTime,
              status = "RUNNING", purpose \in AdvancePurposes,
              purpose' \in AdvancePurposes,
              UNCHANGED <<status, results, request, reply>>
       PROVE  Port!Elapse \/ Port!Advance
  <2>1. Port!Ticks
    BY <1>16 DEF Port!Ticks, AdvancePurposes
  <2>2. CASE request = NoRequest
    BY <1>16, <2>1, <2>2 DEF Port!Advance, NoRequest
  <2>3. CASE request # NoRequest
    BY <1>16, <2>1, <2>3 DEF Port!Elapse, NoRequest, AdvancePurposes
  <2>. QED  BY <2>2, <2>3
<1>17. CASE CommitSystemEvent
  <2>1. /\ pc = "dispatch" /\ pc' = "publish" /\ clock' = clock
        /\ UNCHANGED <<status, results, request, reply, purpose>>
    BY <1>17 DEF CommitSystemEvent, CommitPlan
  <2>2. before <= clock
    BY <1>1, <2>1 DEF TimeInv
  <2>. QED
    BY <1>2, <1>3, <1>16, <2>1, <2>2 DEF CommittedTime, Port!EngineNext
<1>18. ASSUME NEW why \in AdvancePurposes, ReachTarget(why)
       PROVE  /\ CommittedTime = clock /\ clock <= target
              /\ pc' # "dispatch" => CommittedTime' = target
              /\ UNCHANGED <<status, results>>
  BY <1>1, <1>18 DEF ReachTarget, TimeInv, CommittedTime
<1>19. CASE FinishAdvance
  <2>1. /\ pc = "advance" /\ purpose = "advance" /\ pc' = "idle"
        /\ CommittedTime = clock /\ CommittedTime' = target /\ clock <= target
        /\ UNCHANGED <<status, results>>
    BY <1>18, <1>19 DEF FinishAdvance, ReachTarget, Return, AdvancePurposes
  <2>2. request = NoRequest /\ request' = NoRequest /\ reply' = "returned"
        /\ purpose' = "none" /\ status = "RUNNING"
    BY <1>3, <1>4, <1>19, <2>1 DEF FinishAdvance, Return
  <2>3. Port!Ticks
    BY <1>2, <2>1, <2>2 DEF Port!Ticks
  <2>. QED  BY <2>2, <2>3 DEF Port!Advance, Port!EngineNext, NoRequest
<1>20. CASE FinishArrival \/ FinishElapse
  <2>1. /\ pc = "advance" /\ purpose \in AdvancePurposes
        /\ CommittedTime = clock /\ CommittedTime' = target /\ clock <= target
        /\ UNCHANGED <<status, results, request, reply, purpose>>
    BY <1>18, <1>20 DEF FinishArrival, FinishElapse, ReachTarget, AdvancePurposes
  <2>. QED  BY <1>2, <1>3, <1>16, <2>1 DEF Port!EngineNext
<1>21. CASE RejectAction \/ FailAction
  <2>1. PICK outcome \in {"REJECTED", "FAILED"} : RecordResult(outcome, NoTransition)
    BY <1>21 DEF RejectAction, FailAction
  <2>2. /\ pc \in {"validate", "completion"} /\ Return("returned")
        /\ clock' = clock /\ status' = status
    BY <1>21 DEF RejectAction, FailAction
  <2>3. purpose # "commit" /\ purpose' # "commit" /\ request # NoRequest
    BY <1>1, <1>2, <1>4, <2>2
    DEF Return, TypeInv, FrameInv, NoRequest
  <2>4. CommittedTime = clock /\ CommittedTime' = clock
    BY <2>2 DEF CommittedTime, Return
  <2>5. PublicResults' =
            Append(PublicResults,
                   [request |-> request, status |-> outcome, resolved |-> clock])
    BY <1>1, <2>1, PublicResultAppended
  <2>6. Port!Decline
    BY <2>2, <2>3, <2>4, <2>5
    DEF Port!Decline, Port!Recorded, PublicResults, Return, NoRequest
  <2>. QED  BY <2>6 DEF Port!EngineNext
<1>22. CASE (\E d \in 1..MaxDuration : BeginElapse(d)) \/ BeginResolve
  <2>1. purpose # "commit" /\ purpose' # "commit"
    BY <1>4, <1>22 DEF BeginElapse, BeginResolve, EnterAdvance
  <2>. QED
    BY <1>22, <2>1 DEF BeginElapse, BeginResolve, EnterAdvance, Port!engine, CommittedTime
<1>23. CASE CommitAction
  <2>1. /\ pc = "resolve" /\ pc' = "publish" /\ purpose' = "commit"
        /\ RecordResult("SUCCEEDED", Identity("ACTION", request))
        /\ UNCHANGED <<status, clock, request, reply>>
    BY <1>23 DEF CommitAction, CommitPlan
  <2>2. purpose # "commit" /\ request # NoRequest
    BY <1>1, <1>2, <1>4, <2>1 DEF TypeInv, FrameInv, NoRequest
  <2>3. CommittedTime = clock /\ CommittedTime' = clock
    BY <2>1 DEF CommittedTime
  <2>4. PublicResults' =
            Append(PublicResults,
                   [request |-> request, status |-> "SUCCEEDED", resolved |-> clock])
    BY <1>1, <2>1, PublicResultAppended
  <2>5. Port!Settle
    BY <2>1, <2>2, <2>3, <2>4 DEF Port!Settle, Port!Recorded, PublicResults, NoRequest
  <2>. QED  BY <2>5 DEF Port!EngineNext
<1>24. CASE Deliver
  BY <1>24 DEF Deliver, Port!engine, CommittedTime
<1>25. CASE Published
  <2>1. CASE purpose = "commit"
    BY <1>2, <1>3, <1>25, <2>1
    DEF Published, Return, Port!Finish, Port!EngineNext, CommittedTime, ActionPurposes,
      NoRequest
  <2>2. CASE purpose # "commit"
    BY <1>25, <2>2 DEF Published, Port!engine, CommittedTime
  <2>. QED  BY <2>1, <2>2
<1>26. CASE UNCHANGED vars
  BY <1>26 DEF vars, Port!engine, CommittedTime
<1>. QED
  BY <1>5, <1>6, <1>7, <1>8, <1>9, <1>10, <1>11, <1>13, <1>14, <1>15, <1>17, <1>19,
     <1>20, <1>21, <1>22, <1>23, <1>24, <1>25, <1>26
  DEF Next, Calls, Internal, Advancing, Acting, Publishing, Port!EngineNext

\* The kernel keeps the contract of Engine.tla, on which the session is built.
THEOREM Serves == Spec => ImplementsEngine
<1>1. Spec => []CallInv
  BY CallInit, CallStep, Invariance, PTL DEF Spec, IInv
<1>. QED
  BY <1>1, ServeInit, ServeStep, Invariance, PTL DEF Spec, ImplementsEngine, Port!EngineSpec

-----------------------------------------------------------------------------
(***************************************************************************)
(* The accounts.  A transition takes the next number at the committed time *)
(* it moves to, so numbers, times and events stay in step.  That actions   *)
(* do not overlap needs to know of the action underway that whatever was   *)
(* recorded before was resolved by its start, and that an elapse ends      *)
(* after it.                                                               *)
(***************************************************************************)
Underway == pc \in {"validate", "completion", "resolve"} \/ purpose = "elapse"

ActionInv ==
    /\ Underway => /\ started <= CommittedTime
                   /\ \A i \in DOMAIN results : results[i].resolved <= started
    /\ purpose = "elapse" => started < target
    /\ pc = "completion" => started < clock

LedgerInv == TransitionsAccounted /\ \A t \in Ledger : t.time <= CommittedTime

\* The times of the kernel are numbers.
LEMMA NumericTimes ==
    ASSUME TypeInv
    PROVE  /\ clock \in Nat /\ before \in Nat /\ target \in Nat /\ started \in Nat
           /\ CommittedTime \in Nat /\ transitions \in Nat
           /\ outcomes \in Seq(Outcomes) /\ results \in Seq(Results)
           /\ events \in Seq(Envelopes)
           /\ \A i \in DOMAIN results : results[i].started \in Nat /\ results[i].resolved \in Nat
<1>1. /\ clock \in Nat /\ before \in Nat /\ target \in Nat /\ started \in Nat
      /\ transitions \in Nat /\ outcomes \in Seq(Outcomes) /\ results \in Seq(Results)
      /\ events \in Seq(Envelopes)
  BY TimesFacts DEF TypeInv, TypeOK, RunOK, FrameOK, RecordOK
<1>2. CommittedTime \in Nat
  BY <1>1 DEF CommittedTime
<1>3. \A r \in Results : r.started \in Nat /\ r.resolved \in Nat
  BY TimesFacts DEF Results
<1>. QED  BY <1>1, <1>2, <1>3

\* So are the times of the committed transitions.
LEMMA LedgerTimes ==
    ASSUME TypeInv, ActionsDisjoint
    PROVE  \A t \in Ledger : t.time \in Nat
<1>1. \A i \in DOMAIN outcomes : outcomes[i].transition.time \in Nat
  <2>1. \A o \in Outcomes : o.transition.time \in Nat
    BY TimesFacts DEF Outcomes, SystemIdentities
  <2>. QED  BY <2>1, NumericTimes
<1>2. \A i \in DOMAIN results : results[i].status = "SUCCEEDED" => results[i].transition.time \in Nat
  BY NumericTimes DEF ActionsDisjoint
<1>. QED  BY <1>1, <1>2 DEF Ledger

\* A new kernel has no accounts.
LEMMA AccountsInit == Init => LedgerInv /\ ActionsDisjoint /\ ActionInv
<1>. SUFFICES ASSUME Init  PROVE LedgerInv /\ ActionsDisjoint /\ ActionInv
  OBVIOUS
<1>1. Ledger = {} /\ events = <<>> /\ results = <<>> /\ transitions = 0
  BY DEF Init, Ledger
<1>2. LedgerInv
  BY <1>1 DEF LedgerInv, TransitionsAccounted
<1>. QED  BY <1>1, <1>2 DEF Init, ActionsDisjoint, ActionInv, Underway

\* Time may pass: what happened is not later for it.
LEMMA LedgerKept ==
    ASSUME TypeInv, TypeInv', LedgerInv, ActionsDisjoint,
           UNCHANGED <<Ledger, transitions, events>>, CommittedTime <= CommittedTime'
    PROVE  LedgerInv'
<1>1. CommittedTime \in Nat /\ \A t \in Ledger : t.time \in Nat
  BY NumericTimes, LedgerTimes
<1>2. CommittedTime' \in Nat
  BY NumericTimes DEF TypeInv, TypeOK, RunOK, FrameOK, CommittedTime, Times
<1>3. \A t \in Ledger' : t.time <= CommittedTime'
  BY <1>1, <1>2 DEF LedgerInv
<1>4. TransitionsAccounted'
  BY DEF LedgerInv, TransitionsAccounted
<1>. QED  BY <1>3, <1>4 DEF LedgerInv

\* A committed plan takes the next number, now, and so do its events.
LEMMA LedgerGrows ==
    ASSUME TypeInv, LedgerInv, ActionsDisjoint,
           NEW drafts \in Drafts, CommitPlan(drafts), NEW t,
           t.sequence = transitions + 1, t.time = clock,
           Ledger' = Ledger \union {t}, CommittedTime <= clock, clock' = clock
    PROVE  LedgerInv'
<1>. DEFINE new == Emitted(drafts)
<1>1. /\ transitions' = transitions + 1 /\ events' = events \o new
      /\ CommittedTime' = clock
  BY DEF CommitPlan, CommittedTime
<1>2. /\ transitions \in Nat /\ clock \in Nat /\ CommittedTime \in Nat
      /\ events \in Seq(Envelopes)
      /\ \A u \in Ledger : u.time \in Nat
  BY NumericTimes, LedgerTimes
<1>3. \A u \in Ledger : u.sequence \in 1..transitions /\ u.time <= clock
  BY <1>2 DEF LedgerInv, TransitionsAccounted
<1>4. {u.sequence : u \in Ledger'} = 1..(transitions + 1)
  <2>1. {u.sequence : u \in Ledger} = 1..transitions
    BY DEF LedgerInv, TransitionsAccounted
  <2>2. {u.sequence : u \in Ledger'} = {u.sequence : u \in Ledger} \union {transitions + 1}
    OBVIOUS
  <2>. QED  BY <1>2, <2>1, <2>2
<1>5. \A u, v \in Ledger' : u.sequence < v.sequence => u.time <= v.time
  BY <1>2, <1>3 DEF LedgerInv, TransitionsAccounted
<1>6. \A u, v \in Ledger' : u.sequence = v.sequence => u = v
  BY <1>2, <1>3 DEF LedgerInv, TransitionsAccounted
<1>7. /\ new \in Seq(Envelopes) /\ \A i \in 1..Len(new) : new[i].transition = transitions + 1
                                                         /\ new[i].time = clock
  <2>1. new \in Seq(Envelopes) /\ Len(drafts) \in Nat /\ Len(new) = Len(drafts)
    BY EmittedType DEF TypeInv, TypeOK, RunOK
  <2>. QED  BY <2>1 DEF Emitted
<1>. HIDE DEF new
<1>8. \A i \in DOMAIN events' : \E u \in Ledger' :
          u.sequence = events'[i].transition /\ u.time = events'[i].time
  <2>. SUFFICES ASSUME NEW i \in DOMAIN events'
                PROVE  \E u \in Ledger' : u.sequence = events'[i].transition
                                          /\ u.time = events'[i].time
    OBVIOUS
  <2>1. i \in 1..(Len(events) + Len(new))
    BY <1>1, <1>2, <1>7
  <2>2. CASE i <= Len(events)
    <3>1. i \in DOMAIN events /\ events'[i] = events[i]
      BY <1>1, <1>2, <1>7, <2>1, <2>2
    <3>. QED  BY <3>1 DEF LedgerInv, TransitionsAccounted
  <2>3. CASE i > Len(events)
    <3>1. i - Len(events) \in 1..Len(new) /\ events'[i] = new[i - Len(events)]
      BY <1>1, <1>2, <1>7, <2>1, <2>3
    <3>. QED  BY <1>7, <3>1
  <2>. QED  BY <1>2, <2>1, <2>2, <2>3
<1>9. \A u \in Ledger' : u.time <= clock
  BY <1>2, <1>3
<1>. QED  BY <1>1, <1>4, <1>5, <1>6, <1>8, <1>9 DEF LedgerInv, TransitionsAccounted

\* A recorded result begins no earlier than the one before was resolved, and
\* is resolved at the committed time.
LEMMA ResultRecorded ==
    ASSUME TypeInv, TypeInv', ActionsDisjoint, ActionInv, Underway, NEW r,
           results' = Append(results, r),
           r.started = started, r.resolved = clock, started <= clock,
           CommittedTime = clock, CommittedTime' = clock,
           r.status = "REJECTED" => clock = started,
           r.status = "FAILED" => started < clock,
           r.status = "SUCCEEDED" => r.transition.time = clock
    PROVE  ActionsDisjoint'
<1>. DEFINE n == Len(results)
<1>1. /\ n \in Nat /\ DOMAIN results = 1..n /\ DOMAIN results' = 1..(n + 1)
      /\ \A i \in 1..n : results'[i] = results[i]
      /\ results'[n + 1] = r
      /\ clock \in Nat /\ started \in Nat
      /\ \A i \in 1..n : results[i].started \in Nat /\ results[i].resolved \in Nat
  BY NumericTimes
<1>. HIDE DEF n
<1>2. \A i \in 1..(n + 1) : i = n + 1 \/ i \in 1..n
  BY <1>1
<1>3. \A i \in 1..n : results[i].resolved <= started
  BY <1>1 DEF ActionInv
<1>4. ASSUME NEW i \in 1..(n + 1)
      PROVE  /\ results'[i].started <= results'[i].resolved
             /\ results'[i].resolved <= clock
             /\ results'[i].status = "REJECTED" => results'[i].resolved = results'[i].started
             /\ results'[i].status = "FAILED" => results'[i].started < results'[i].resolved
             /\ results'[i].status = "SUCCEEDED" =>
                    results'[i].transition.time = results'[i].resolved
  <2>1. CASE i = n + 1
    BY <1>1, <2>1
  <2>2. CASE i \in 1..n
    BY <1>1, <2>2 DEF ActionsDisjoint
  <2>. QED  BY <1>2, <2>1, <2>2
<1>5. ASSUME NEW i \in 1..(n + 1), NEW j \in 1..(n + 1), i < j
      PROVE  results'[i].resolved <= results'[j].started
  <2>1. i \in 1..n
    BY <1>1, <1>5
  <2>2. CASE j = n + 1
    BY <1>1, <1>3, <2>1, <2>2
  <2>3. CASE j \in 1..n
    BY <1>1, <1>5, <2>1, <2>3 DEF ActionsDisjoint
  <2>. QED  BY <1>2, <2>2, <2>3
<1>. QED  BY <1>1, <1>4, <1>5 DEF ActionsDisjoint

\* Steps that record no result.
LEMMA ResultsKept ==
    ASSUME TypeInv, ActionsDisjoint, results' = results,
           CommittedTime <= CommittedTime', CommittedTime' \in Nat
    PROVE  ActionsDisjoint'
<1>1. CommittedTime \in Nat
      /\ \A i \in DOMAIN results : results[i].resolved \in Nat
  BY NumericTimes
<1>2. \A i \in DOMAIN results : results[i].resolved <= CommittedTime'
  BY <1>1 DEF ActionsDisjoint
<1>. QED  BY <1>2 DEF ActionsDisjoint

\* An action that was underway and is not yet at its completion stays so.
LEMMA ActionKept ==
    ASSUME TypeInv, ActionInv, UNCHANGED <<started, target, results>>,
           Underway' => Underway, purpose' = "elapse" => purpose = "elapse",
           pc' # "completion",
           CommittedTime <= CommittedTime', CommittedTime' \in Nat
    PROVE  ActionInv'
BY NumericTimes DEF ActionInv

\* Nothing is known of a call that is not an action underway.
LEMMA NotUnderway ==
    ASSUME ~Underway'
    PROVE  ActionInv'
BY DEF ActionInv, Underway

\* The committed time never falls.
LEMMA TimeAdvances ==
    ASSUME TypeInv, TimeInv, Next
    PROVE  CommittedTime <= CommittedTime' /\ CommittedTime' \in Nat
<1>. USE DEF run, schedule, record, frame, seen
<1>1. clock \in Nat /\ before \in Nat /\ target \in Nat /\ CommittedTime \in Nat
  BY NumericTimes
<1>2. CASE Calls
  BY <1>1, <1>2 DEF Calls, Boot, Close, Schedule, AdvanceTo, SubmitAction, EnterAdvance,
     EnsureNotTransitioning, TypeInv, FrameInv, CommittedTime
<1>3. CASE BeginDispatch
  BY <1>1, <1>3 DEF BeginDispatch, CommittedTime
<1>4. CASE DispatchFails
  BY <1>1, <1>4 DEF DispatchFails, Return, CommittedTime
<1>5. CASE CommitSystemEvent
  BY <1>1, <1>5 DEF CommitSystemEvent, CommitPlan, CommittedTime, TimeInv
<1>6. CASE FinishAdvance \/ FinishArrival \/ FinishElapse
  BY <1>1, <1>6 DEF FinishAdvance, FinishArrival, FinishElapse, ReachTarget, Return,
     CommittedTime, TimeInv, AdvancePurposes
<1>7. CASE Draw \/ Publishing
  BY <1>1, <1>7 DEF Draw, Publishing, Deliver, DeliveryFails, Published, Return, CommittedTime
<1>8. CASE Acting
  BY <1>1, <1>8 DEF Acting, RejectAction, FailAction, AbortAction, BeginElapse,
     EnterAdvance, BeginResolve, CommitAction, CommitPlan, Return, CommittedTime
<1>. QED
  BY <1>2, <1>3, <1>4, <1>5, <1>6, <1>7, <1>8 DEF Next, Internal, Advancing

\* No step makes the records of actions overlap.
LEMMA ActionStep ==
    TypeInv /\ TimeInv /\ ActionsDisjoint /\ ActionInv /\ Next => ActionsDisjoint' /\ ActionInv'
<1>. SUFFICES ASSUME TypeInv, TimeInv, ActionsDisjoint, ActionInv, Next
              PROVE  ActionsDisjoint' /\ ActionInv'
  OBVIOUS
<1>. USE DEF run, schedule, record, frame, seen
<1>1. /\ clock \in Nat /\ target \in Nat /\ started \in Nat
      /\ CommittedTime <= CommittedTime' /\ CommittedTime' \in Nat
      /\ TypeInv'
  <2>1. TypeInv'
    BY TypeStep
  <2>. QED  BY <2>1, NumericTimes, TimeAdvances
<1>2. results' = results => ActionsDisjoint'
  BY <1>1, ResultsKept
<1>3. ASSUME Underway' => Underway, purpose' = "elapse" => purpose = "elapse",
             pc' # "completion", UNCHANGED <<started, target, results>>
      PROVE  ActionsDisjoint' /\ ActionInv'
  BY <1>1, <1>2, <1>3, ActionKept
<1>4. CASE Boot \/ Close \/ (\E due \in Times, p \in Priorities : Schedule(due, p))
  <2>1. pc = "idle" \/ status = "CREATED"
    BY <1>4 DEF Boot, Close, Schedule, EnsureNotTransitioning, TypeInv, FrameInv
  <2>2. pc = "idle"
    BY <2>1 DEF TypeInv, TypeOK, FrameInv
  <2>. QED  BY <1>3, <1>4, <2>2 DEF Boot, Close, Schedule, Underway
<1>5. CASE (\E t \in Times : AdvanceTo(t)) \/ (\E r \in Requests, t \in Times : SubmitAction(r, t))
  BY <1>2, <1>5, NotUnderway DEF AdvanceTo, SubmitAction, EnterAdvance, Underway
<1>6. CASE Draw \/ BeginDispatch \/ CommitSystemEvent
  BY <1>3, <1>6 DEF Draw, BeginDispatch, CommitSystemEvent, CommitPlan, Underway
<1>7. CASE DispatchFails \/ FinishAdvance \/ AbortAction \/ DeliveryFails
  BY <1>2, <1>7, NotUnderway
  DEF DispatchFails, FinishAdvance, ReachTarget, AbortAction, DeliveryFails, Return, Underway
<1>8. CASE Deliver
  BY <1>3, <1>8 DEF Deliver, Underway
<1>9. CASE Published
  <2>1. CASE purpose = "commit"
    BY <1>2, <1>9, <2>1, NotUnderway DEF Published, Return, Underway
  <2>2. CASE purpose # "commit"
    BY <1>3, <1>9, <2>2 DEF Published, Underway
  <2>. QED  BY <2>1, <2>2
<1>10. CASE FinishArrival
  <2>1. /\ pc = "advance" /\ clock <= target /\ clock' = target /\ started' = target
        /\ pc' = "validate" /\ purpose' # "elapse" /\ results' = results
    BY <1>10 DEF FinishArrival, ReachTarget, TimeInv, AdvancePurposes
  <2>2. \A i \in DOMAIN results : results[i].resolved <= clock
    BY <2>1 DEF ActionsDisjoint, CommittedTime
  <2>3. \A i \in DOMAIN results : results[i].resolved <= target
    <3>1. \A i \in DOMAIN results : results[i].resolved \in Nat
      BY NumericTimes
    <3>. QED  BY <1>1, <2>1, <2>2, <3>1
  <2>4. CommittedTime' = target
    BY <2>1 DEF CommittedTime
  <2>. QED  BY <1>1, <1>2, <2>1, <2>3, <2>4 DEF ActionInv
<1>11. CASE FinishElapse
  <2>1. /\ purpose = "elapse" /\ pc' = "completion" /\ clock' = target
        /\ UNCHANGED <<started, target, purpose, results>>
    BY <1>11 DEF FinishElapse, ReachTarget
  <2>. QED  BY <1>1, <1>2, <2>1 DEF ActionInv, Underway, CommittedTime
<1>12. CASE RejectAction \/ FailAction \/ CommitAction
  <2>1. /\ pc \in {"validate", "completion", "resolve"} /\ Underway
        /\ clock' = clock /\ pc' # "dispatch" /\ ~Underway'
    BY <1>12 DEF RejectAction, FailAction, CommitAction, CommitPlan, Return, Underway
  <2>2. CommittedTime = clock /\ CommittedTime' = clock /\ started <= clock
    BY <2>1 DEF CommittedTime, ActionInv
  <2>3. ActionInv'
    BY <2>1, NotUnderway
  <2>4. CASE RejectAction
    <3>1. clock = started
      BY <2>4 DEF RejectAction, TimeInv
    <3>. QED
      BY <1>1, <2>1, <2>2, <2>3, <2>4, <3>1, ResultRecorded DEF RejectAction, RecordResult
  <2>5. CASE FailAction
    <3>1. started < clock
      BY <2>5 DEF FailAction, ActionInv
    <3>. QED
      BY <1>1, <2>1, <2>2, <2>3, <2>5, <3>1, ResultRecorded DEF FailAction, RecordResult
  <2>6. CASE CommitAction
    BY <1>1, <2>1, <2>2, <2>3, <2>6, ResultRecorded DEF CommitAction, RecordResult, Identity
  <2>. QED  BY <1>12, <2>4, <2>5, <2>6
<1>13. ASSUME NEW d \in 1..MaxDuration, BeginElapse(d)
       PROVE  ActionsDisjoint' /\ ActionInv'
  <2>1. /\ Underway /\ d \in Nat \ {0} /\ target' = started + d /\ pc' = "advance"
        /\ UNCHANGED <<started, results>>
    BY <1>13, KernelAssumption DEF BeginElapse, EnterAdvance, Underway
  <2>. QED  BY <1>1, <1>2, <2>1, NumericTimes DEF ActionInv
<1>14. CASE BeginResolve
  BY <1>3, <1>14 DEF BeginResolve, Underway
<1>. QED
  BY <1>4, <1>5, <1>6, <1>7, <1>8, <1>9, <1>10, <1>11, <1>12, <1>13, <1>14
  DEF Next, Calls, Internal, Advancing, Acting, Publishing

\* No step breaks the numbering of transitions and the stamps of their events.
LEMMA LedgerStep ==
    TypeInv /\ TimeInv /\ ActionsDisjoint /\ LedgerInv /\ Next => LedgerInv'
<1>. SUFFICES ASSUME TypeInv, TimeInv, ActionsDisjoint, LedgerInv, Next
              PROVE  LedgerInv'
  OBVIOUS
<1>. USE DEF run, schedule, record, frame, seen
<1>1. /\ outcomes \in Seq(Outcomes) /\ results \in Seq(Results)
      /\ CommittedTime <= CommittedTime' /\ TypeInv'
  <2>1. TypeInv'
    BY TypeStep
  <2>. QED  BY <2>1, NumericTimes, TimeAdvances
<1>2. UNCHANGED <<Ledger, transitions, events>> => LedgerInv'
  BY <1>1, LedgerKept
<1>3. CASE CommitSystemEvent
  <2>1. Ledger' = Ledger \union {Identity("SCHEDULED_EVENT", current.insertion)}
    BY <1>1, <1>3, LedgerByOutcome DEF CommitSystemEvent
  <2>2. CommittedTime <= clock /\ clock' = clock
    BY <1>3 DEF CommitSystemEvent, TimeInv, CommittedTime
  <2>. QED  BY <1>3, <2>1, <2>2, LedgerGrows DEF CommitSystemEvent, Identity
<1>4. CASE CommitAction
  <2>1. Ledger' = Ledger \union {Identity("ACTION", request)}
    BY <1>1, <1>4, LedgerByResult DEF CommitAction, RecordResult
  <2>2. CommittedTime <= clock /\ clock' = clock
    BY <1>4, NumericTimes DEF CommitAction, CommittedTime
  <2>. QED  BY <1>4, <2>1, <2>2, LedgerGrows DEF CommitAction, Identity
<1>5. CASE RejectAction \/ FailAction
  <2>1. Ledger' = Ledger
    BY <1>1, <1>5, LedgerByResult DEF RejectAction, FailAction, RecordResult
  <2>. QED  BY <1>2, <1>5, <2>1 DEF RejectAction, FailAction
<1>6. UNCHANGED <<outcomes, results, transitions, events>> => LedgerInv'
  BY <1>2 DEF Ledger
<1>7. CASE Calls
  BY <1>6, <1>7 DEF Calls, Boot, Close, Schedule, AdvanceTo, SubmitAction
<1>8. CASE Draw \/ BeginDispatch \/ DispatchFails \/ FinishAdvance \/ FinishArrival \/ FinishElapse
  BY <1>6, <1>8 DEF Draw, BeginDispatch, DispatchFails, FinishAdvance, FinishArrival,
     FinishElapse, ReachTarget
<1>9. CASE AbortAction \/ BeginResolve \/ \E d \in 1..MaxDuration : BeginElapse(d)
  BY <1>6, <1>9 DEF AbortAction, BeginResolve, BeginElapse
<1>10. CASE Publishing
  BY <1>6, <1>10 DEF Publishing, Deliver, DeliveryFails, Published
<1>. QED
  BY <1>3, <1>4, <1>5, <1>7, <1>8, <1>9, <1>10 DEF Next, Internal, Advancing, Acting

AccountInv == LedgerInv /\ ActionsDisjoint /\ ActionInv

\* The logs of transitions, events and results fit together at every moment:
\* gapless numbers in the order of time, and actions that do not overlap.
THEOREM RecordsFit == Spec => []RecordsAccounted
<1>1. IInv /\ AccountInv /\ [Next]_vars => AccountInv'
  <2>1. IInv /\ AccountInv /\ Next => AccountInv'
    BY LedgerStep, ActionStep DEF IInv, AccountInv
  <2>2. AccountInv /\ UNCHANGED vars => AccountInv'
    BY DEF AccountInv, LedgerInv, TransitionsAccounted, ActionsDisjoint, ActionInv, Underway,
       CommittedTime, Ledger, vars, run, schedule, record, frame
  <2>. QED  BY <2>1, <2>2
<1>2. IInv /\ AccountInv => RecordsAccounted
  BY DEF IInv, AccountInv, LedgerInv, RecordsAccounted, LogAccounted
<1>3. Init => AccountInv
  BY AccountsInit DEF AccountInv
<1>. QED  BY <1>1, <1>2, <1>3, Invariance, PTL DEF Spec

-----------------------------------------------------------------------------
(***************************************************************************)
(* Publication.  Between publications nothing is owed, and a new plan owes *)
(* deliveries of events that are later than all the log had.               *)
(***************************************************************************)
Made == {delivered[i] : i \in DOMAIN delivered}

PublishInv == PublishedOnce /\ (pc # "publish" => outbox = {})

\* What is owed for a sequence of envelopes, one delivery at a time.
LEMMA OwedMembers ==
    ASSUME NEW s, NEW d
    PROVE  d \in Owed(s) <=>
               \E i \in DOMAIN s, k \in Subscribers :
                   d = <<s[i].sequence, k>> /\ s[i].type \in Wants[k]
<1>1. ASSUME NEW i \in DOMAIN s, NEW k \in Subscribers,
             d = <<s[i].sequence, k>>, s[i].type \in Wants[k]
      PROVE  d \in Owed(s)
  <2>1. d[1] = s[i].sequence /\ d[2] = k
    BY <1>1
  <2>2. d \in {s[j].sequence : j \in DOMAIN s} \X Subscribers
    BY <1>1
  <2>. QED  BY <1>1, <2>1, <2>2 DEF Owed
<1>2. ASSUME d \in Owed(s)
      PROVE  \E i \in DOMAIN s, k \in Subscribers :
                 d = <<s[i].sequence, k>> /\ s[i].type \in Wants[k]
  <2>1. d \in {s[j].sequence : j \in DOMAIN s} \X Subscribers
    BY <1>2 DEF Owed
  <2>2. PICK i \in DOMAIN s : s[i].sequence = d[1] /\ s[i].type \in Wants[d[2]]
    BY <1>2 DEF Owed
  <2>3. d = <<d[1], d[2]>> /\ d[2] \in Subscribers
    BY <2>1
  <2>. QED  BY <2>2, <2>3
<1>. QED  BY <1>1, <1>2

\* What a log owes, it owes for its parts.
LEMMA OwedConcat ==
    ASSUME NEW s \in Seq(Envelopes), NEW t \in Seq(Envelopes)
    PROVE  Owed(s \o t) = Owed(s) \union Owed(t)
<1>. DEFINE u == s \o t
            n == Len(s)
<1>1. /\ n \in Nat /\ DOMAIN s = 1..n /\ DOMAIN t = 1..Len(t) /\ Len(t) \in Nat
      /\ Len(u) = n + Len(t) /\ DOMAIN u = 1..(n + Len(t))
      /\ \A i \in 1..n : u[i] = s[i]
      /\ \A i \in 1..Len(t) : u[n + i] = t[i]
  OBVIOUS
<1>. HIDE DEF u, n
<1>2. ASSUME NEW d, d \in Owed(u)  PROVE d \in Owed(s) \union Owed(t)
  <2>1. PICK i \in DOMAIN u, k \in Subscribers :
            d = <<u[i].sequence, k>> /\ u[i].type \in Wants[k]
    BY <1>2, OwedMembers
  <2>2. CASE i \in 1..n
    BY <1>1, <2>1, <2>2, OwedMembers
  <2>3. CASE i \notin 1..n
    <3>1. i - n \in 1..Len(t) /\ n + (i - n) = i
      BY <1>1, <2>3
    <3>2. i - n \in DOMAIN t /\ u[i] = t[i - n]
      BY <1>1, <3>1
    <3>. QED  BY <2>1, <3>2, OwedMembers
  <2>. QED  BY <2>2, <2>3
<1>3. ASSUME NEW d, d \in Owed(s)  PROVE d \in Owed(u)
  <2>1. PICK i \in DOMAIN s, k \in Subscribers :
            d = <<s[i].sequence, k>> /\ s[i].type \in Wants[k]
    BY <1>3, OwedMembers
  <2>2. i \in DOMAIN u /\ u[i] = s[i]
    BY <1>1
  <2>. QED  BY <2>1, <2>2, OwedMembers
<1>4. ASSUME NEW d, d \in Owed(t)  PROVE d \in Owed(u)
  <2>1. PICK i \in DOMAIN t, k \in Subscribers :
            d = <<t[i].sequence, k>> /\ t[i].type \in Wants[k]
    BY <1>4, OwedMembers
  <2>2. n + i \in DOMAIN u /\ u[n + i] = t[i]
    BY <1>1
  <2>3. d = <<u[n + i].sequence, k>> /\ u[n + i].type \in Wants[k]
    BY <2>1, <2>2
  <2>. QED  BY <2>2, <2>3, OwedMembers
<1>5. Owed(u) = Owed(s) \union Owed(t)
  BY <1>2, <1>3, <1>4
<1>. QED  BY <1>5 DEF u

\* A delivery newly owed is of an event later than all those owed before.
LEMMA OwedLater ==
    ASSUME TypeInv, LogInOrder, NEW drafts \in Drafts
    PROVE  /\ Owed(events \o Emitted(drafts)) = Owed(events) \union Owed(Emitted(drafts))
           /\ \A c \in Owed(events), d \in Owed(Emitted(drafts)) : c[1] < d[1]
<1>. DEFINE n == Len(events)
            new == Emitted(drafts)
<1>1. events \in Seq(Envelopes) /\ n \in Nat /\ eventSequence = n
  BY NumericTimes DEF LogInOrder
<1>2. new \in Seq(Envelopes) /\ Len(drafts) \in Nat /\ Len(new) = Len(drafts)
  BY EmittedType DEF TypeInv, TypeOK, RunOK
<1>3. \A i \in DOMAIN new : i \in Nat \ {0} /\ new[i].sequence = n + i
  BY <1>1, <1>2 DEF Emitted
<1>4. \A i \in DOMAIN events : i \in 1..n /\ events[i].sequence = i
  BY <1>1 DEF LogInOrder
<1>. HIDE DEF new, n
<1>5. ASSUME NEW c \in Owed(events), NEW d \in Owed(new)  PROVE c[1] < d[1]
  <2>1. PICK i \in DOMAIN events : c[1] = events[i].sequence
    BY OwedMembers
  <2>2. PICK j \in DOMAIN new : d[1] = new[j].sequence
    BY OwedMembers
  <2>3. c[1] \in 1..n /\ \E k \in Nat \ {0} : d[1] = n + k
    BY <1>3, <1>4, <2>1, <2>2
  <2>. QED  BY <1>1, <2>3
<1>. QED  BY <1>1, <1>2, <1>5, OwedConcat DEF new

\* A commit owes what is new; what was owed before is made or lost already.
LEMMA PublishCommitted ==
    ASSUME TypeInv, LogInOrder, PublishInv, pc # "publish",
           NEW drafts \in Drafts, CommitPlan(drafts), UNCHANGED seen
    PROVE  PublishInv'
<1>1. /\ events' = events \o Emitted(drafts) /\ outbox' = Owed(Emitted(drafts))
      /\ pc' = "publish" /\ delivered' = delivered /\ lost' = lost
  BY DEF CommitPlan, seen
<1>2. /\ Owed(events') = Owed(events) \union outbox'
      /\ \A c \in Owed(events), d \in outbox' : c[1] < d[1]
  BY <1>1, OwedLater
<1>3. Owed(events) = Made \union lost /\ Made \intersect lost = {}
  BY DEF PublishInv, PublishedOnce, DeliveriesAccounted, Made
<1>4. \A d \in outbox' : d[1] \in Nat
  BY <1>1, EmittedType DEF TypeInv, TypeOK, RunOK, Deliveries
<1>5. Owed(events) \intersect outbox' = {}
  BY <1>2, <1>4
<1>6. DeliveriesAccounted'
  BY <1>1, <1>2, <1>3, <1>5 DEF DeliveriesAccounted, Made
<1>7. \A i \in DOMAIN delivered, d \in outbox' : Precedes(delivered[i], d)
  BY <1>2, <1>3 DEF Made, Precedes
<1>8. DeliveredInOrder'
  BY <1>1, <1>7 DEF PublishInv, PublishedOnce, DeliveredInOrder
<1>. QED  BY <1>1, <1>6, <1>8 DEF PublishInv, PublishedOnce

\* The next delivery is the first of those owed, and comes after those made.
LEMMA PublishDelivered ==
    ASSUME TypeInv, PublishInv, Deliver
    PROVE  PublishInv'
<1>. DEFINE n == Len(delivered)
<1>1. PICK d \in outbox : /\ IsNextDelivery(d)
                          /\ outbox' = outbox \ {d} /\ delivered' = Append(delivered, d)
                          /\ lost' = lost /\ events' = events /\ pc' = pc /\ pc = "publish"
  BY DEF Deliver, record
<1>2. /\ n \in Nat /\ DOMAIN delivered = 1..n /\ DOMAIN delivered' = 1..(n + 1)
      /\ \A i \in 1..n : delivered'[i] = delivered[i]
      /\ delivered'[n + 1] = d
  BY <1>1 DEF TypeInv, TypeOK, SeenOK
<1>. HIDE DEF n
<1>3. \A i \in 1..(n + 1) : i = n + 1 \/ i \in 1..n
  BY <1>2
<1>4. Made' = Made \union {d}
  <2>1. ASSUME NEW c \in Made'  PROVE c \in Made \union {d}
    BY <1>2, <1>3, <2>1 DEF Made
  <2>2. ASSUME NEW c \in Made  PROVE c \in Made'
    <3>1. PICK i \in 1..n : c = delivered[i]
      BY <1>2, <2>2 DEF Made
    <3>2. i \in 1..(n + 1)
      BY <1>2
    <3>. QED  BY <1>2, <3>1, <3>2 DEF Made
  <2>3. d \in Made'
    <3>1. n + 1 \in 1..(n + 1)
      BY <1>2
    <3>. QED  BY <1>2, <3>1 DEF Made
  <2>. QED  BY <2>1, <2>2, <2>3
<1>5. /\ Owed(events) = Made \union outbox \union lost
      /\ Made \intersect outbox = {} /\ Made \intersect lost = {} /\ outbox \intersect lost = {}
  BY DEF PublishInv, PublishedOnce, DeliveriesAccounted, Made
<1>6. /\ Owed(events') = Made' \union outbox' \union lost'
      /\ Made' \intersect outbox' = {} /\ Made' \intersect lost' = {}
      /\ outbox' \intersect lost' = {}
  BY <1>1, <1>4, <1>5
<1>7. DeliveriesAccounted'
  BY <1>6 DEF DeliveriesAccounted, Made
<1>8. \A i \in 1..n : Precedes(delivered[i], d)
  BY <1>1, <1>2 DEF PublishInv, PublishedOnce, DeliveredInOrder
<1>9. ASSUME NEW i \in 1..(n + 1), NEW j \in 1..(n + 1), i < j
      PROVE  Precedes(delivered'[i], delivered'[j])
  <2>1. i \in 1..n
    BY <1>2, <1>9
  <2>2. CASE j = n + 1
    BY <1>2, <1>8, <2>1, <2>2
  <2>3. CASE j \in 1..n
    BY <1>2, <1>9, <2>1, <2>3 DEF PublishInv, PublishedOnce, DeliveredInOrder
  <2>. QED  BY <1>3, <2>2, <2>3
<1>10. ASSUME NEW i \in 1..(n + 1), NEW c \in outbox'
       PROVE  Precedes(delivered'[i], c)
  <2>1. CASE i = n + 1
    BY <1>1, <1>2, <2>1 DEF IsNextDelivery
  <2>2. CASE i \in 1..n
    BY <1>1, <1>2, <2>2 DEF PublishInv, PublishedOnce, DeliveredInOrder
  <2>. QED  BY <1>3, <2>1, <2>2
<1>11. DeliveredInOrder'
  BY <1>2, <1>9, <1>10 DEF DeliveredInOrder
<1>. QED  BY <1>1, <1>7, <1>11 DEF PublishInv, PublishedOnce

\* A subscriber that raises loses what was still owed, and nothing else does.
LEMMA PublishFailed ==
    ASSUME PublishInv, DeliveryFails
    PROVE  PublishInv'
<1>1. /\ lost' = lost \union outbox /\ outbox' = {} /\ pc' = "idle"
      /\ delivered' = delivered /\ events' = events
  BY DEF DeliveryFails, Return, record
<1>. QED
  BY <1>1 DEF PublishInv, PublishedOnce, DeliveriesAccounted, DeliveredInOrder

\* Every step keeps the deliveries accounted for and in order.
LEMMA PublishStep == TypeInv /\ LogInOrder /\ PublishInv /\ [Next]_vars => PublishInv'
<1>. SUFFICES ASSUME TypeInv, LogInOrder, PublishInv, [Next]_vars  PROVE PublishInv'
  OBVIOUS
<1>. USE DEF run, schedule, record, frame, seen
<1>1. ASSUME UNCHANGED <<events, outbox, delivered, lost>>, pc' = "publish" => pc = "publish",
             pc = "publish" /\ pc' # "publish" => outbox = {}
      PROVE  PublishInv'
  BY <1>1 DEF PublishInv, PublishedOnce, DeliveriesAccounted, DeliveredInOrder
<1>2. pc # "publish" => outbox = {}
  BY DEF PublishInv
<1>3. CASE CommitSystemEvent
  BY <1>3, PublishCommitted DEF CommitSystemEvent
<1>4. CASE CommitAction
  BY <1>4, PublishCommitted DEF CommitAction
<1>5. CASE Publishing
  BY <1>1, <1>5, PublishDelivered, PublishFailed DEF Publishing, Published, Return
<1>6. CASE Calls
  BY <1>1, <1>2, <1>6 DEF Calls, Boot, Close, Schedule, AdvanceTo, SubmitAction, EnterAdvance,
     EnsureNotTransitioning, TypeInv, FrameInv
<1>7. CASE Draw \/ BeginDispatch \/ DispatchFails \/ FinishAdvance \/ FinishArrival \/ FinishElapse
  BY <1>1, <1>2, <1>7 DEF Draw, BeginDispatch, DispatchFails, FinishAdvance, FinishArrival,
     FinishElapse, ReachTarget, Return
<1>8. CASE RejectAction \/ FailAction \/ AbortAction \/ BeginResolve
           \/ \E d \in 1..MaxDuration : BeginElapse(d)
  BY <1>1, <1>2, <1>8 DEF RejectAction, FailAction, AbortAction, BeginResolve, BeginElapse,
     EnterAdvance, Return
<1>9. CASE UNCHANGED vars
  BY <1>1, <1>9 DEF vars, PublishInv
<1>. QED
  BY <1>3, <1>4, <1>5, <1>6, <1>7, <1>8, <1>9 DEF Next, Internal, Advancing, Acting

\* What is committed reaches its subscribers once and in the order of the log,
\* or is dropped with the call in which a subscriber raised.
THEOREM PublishesOnce == Spec => []PublishedOnce
<1>1. Init => PublishInv
  BY DEF Init, PublishInv, PublishedOnce, DeliveriesAccounted, DeliveredInOrder, Owed
<1>2. IInv /\ PublishInv /\ [Next]_vars => PublishInv'
  BY PublishStep DEF IInv
<1>3. PublishInv => PublishedOnce
  BY DEF PublishInv
<1>. QED  BY <1>1, <1>2, <1>3, Invariance, PTL DEF Spec

-----------------------------------------------------------------------------
(***************************************************************************)
(* What a caller may conclude from a return.  Between calls there is no    *)
(* advance; of the ways back to the caller of advance_to only one returns. *)
(***************************************************************************)
IdleInv == pc = "idle" => purpose = "none"

\* Between calls no advance is in progress.
LEMMA IdleStep == IdleInv /\ [Next]_vars => IdleInv'
<1>. SUFFICES ASSUME IdleInv, [Next]_vars  PROVE IdleInv'
  OBVIOUS
<1>. USE DEF run, schedule, record, frame, seen
<1>1. CASE Calls \/ Draw
  BY <1>1 DEF Calls, Boot, Close, Schedule, AdvanceTo, SubmitAction, EnterAdvance, Draw, IdleInv
<1>2. CASE Advancing
  BY <1>2 DEF Advancing, BeginDispatch, DispatchFails, CommitSystemEvent, CommitPlan,
     FinishAdvance, FinishArrival, FinishElapse, ReachTarget, Return, IdleInv
<1>3. CASE Acting
  BY <1>3 DEF Acting, RejectAction, FailAction, AbortAction, BeginElapse, EnterAdvance,
     BeginResolve, CommitAction, CommitPlan, Return, IdleInv
<1>4. CASE Publishing
  BY <1>4 DEF Publishing, Deliver, DeliveryFails, Published, Return, IdleInv
<1>5. CASE UNCHANGED vars
  BY <1>5 DEF vars, IdleInv
<1>. QED  BY <1>1, <1>2, <1>3, <1>4, <1>5 DEF Next, Internal

\* An advance that returned has reached its target and left nothing due there.
THEOREM ReturnsComplete == Spec => ReturnedIsComplete
<1>1. Init => IdleInv
  BY DEF Init, IdleInv
<1>2. IInv /\ IdleInv /\ [Next]_vars =>
        [purpose = "advance" /\ pc' = "idle" /\ reply' = "returned" =>
             clock' = target /\ \A e \in queue' : target < e.due]_vars
  <2>. SUFFICES ASSUME IInv, IdleInv, Next,
                       purpose = "advance", pc' = "idle", reply' = "returned"
                PROVE  clock' = target /\ \A e \in queue' : target < e.due
    OBVIOUS
  <2>. USE DEF run, schedule, record, frame, seen
  <2>1. pc # "idle" /\ pc \notin {"validate", "completion", "resolve"}
    BY DEF IdleInv, IInv, TypeInv, FrameInv, ActionPurposes
  <2>2. ~Calls /\ ~Draw /\ ~Acting
    BY <2>1 DEF Calls, Boot, Close, Schedule, AdvanceTo, SubmitAction, EnterAdvance, Draw,
       Acting, RejectAction, FailAction, AbortAction, BeginElapse, BeginResolve, CommitAction
  <2>3. ~Publishing
    BY DEF Publishing, Deliver, DeliveryFails, Published, Return
  <2>4. FinishAdvance
    BY <2>2, <2>3 DEF Next, Internal, Advancing, BeginDispatch, DispatchFails,
       CommitSystemEvent, CommitPlan, FinishArrival, FinishElapse, Return
  <2>5. clock' = target /\ queue' = queue /\ Due(target) = {}
    BY <2>4 DEF FinishAdvance, ReachTarget
  <2>6. target \in Nat /\ \A e \in queue : e.due \in Nat
    BY NumericTimes, ItemFacts DEF IInv, TypeInv, TypeOK, ScheduleOK
  <2>. QED  BY <2>5, <2>6 DEF Due
<1>. QED  BY <1>1, <1>2, IdleStep, Invariance, PTL DEF Spec, ReturnedIsComplete

-----------------------------------------------------------------------------
(***************************************************************************)
(* Induction, from the order of the natural numbers.                       *)
(***************************************************************************)

\* A set of natural numbers, unless empty, has a least element.
LEMMA LeastNumber ==
    ASSUME NEW S \in SUBSET Nat, S # {}
    PROVE  \E i \in S : \A j \in S : i <= j
<1>. DEFINE R == OpToRel(<, Nat)
<1>. HIDE DEF R
<1>1. IsWellFoundedOn(R, Nat)
  BY NatLessThanWellFounded, Zenon DEF R
<1>2. \A x, y \in Nat : <<x, y>> \in R <=> x < y
  BY DEF R, OpToRel
<1>3. PICK i \in S : \A j \in S : ~(<<j, i>> \in R)
  BY <1>1, WFMin
<1>4. \A j \in S : ~(j < i)
  BY <1>2, <1>3
<1>. QED  BY <1>4

\* A set that has 0, and n + 1 with every n, has every natural number.
LEMMA EveryNatural ==
    ASSUME NEW S, 0 \in S, \A n \in Nat : n \in S => n + 1 \in S
    PROVE  Nat \subseteq S
<1>. SUFFICES ASSUME Nat \ S # {}  PROVE FALSE
  OBVIOUS
<1>1. PICK m \in Nat \ S : \A k \in Nat \ S : m <= k
  BY LeastNumber
<1>2. m # 0 /\ m \in Nat
  OBVIOUS
<1>3. m - 1 \in Nat /\ m - 1 < m
  BY <1>2
<1>4. m - 1 \in S
  BY <1>1, <1>3
<1>5. (m - 1) + 1 \in S
  BY <1>3, <1>4
<1>. QED  BY <1>2, <1>5

(***************************************************************************)
(* Lists of a set, which have each of its elements once.                   *)
(***************************************************************************)
Lists(s, S) ==
    /\ s \in Seq(S)
    /\ \A i, j \in DOMAIN s : s[i] = s[j] => i = j
    /\ \A x \in S : \E i \in DOMAIN s : s[i] = x

\* A list is as long as its set is large.
LEMMA ListCounts ==
    ASSUME NEW S, NEW s, Lists(s, S)
    PROVE  IsFiniteSet(S) /\ Cardinality(S) = Len(s) /\ Len(s) \in Nat /\ DOMAIN s = 1..Len(s)
<1>1. Len(s) \in Nat /\ DOMAIN s = 1..Len(s) /\ s \in [1..Len(s) -> S]
  BY DEF Lists
<1>2. s \in Bijection(1..Len(s), S)
  BY <1>1 DEF Lists, Bijection, Injection, Surjection, IsInjective
<1>3. ExistsBijection(1..Len(s), S)
  BY <1>2 DEF ExistsBijection
<1>4. IsFiniteSet(S)
  BY <1>1, <1>3, FS_NatBijection
<1>5. Cardinality(S) = Len(s)
  BY <1>1, <1>3, FS_CountingElements
<1>. QED  BY <1>1, <1>4, <1>5

\* A list of one set and then of another, disjoint from it.
LEMMA ListsJoin ==
    ASSUME NEW S, NEW T, S \intersect T = {}, NEW s, Lists(s, S), NEW t, Lists(t, T)
    PROVE  Lists(s \o t, S \union T)
<1>. DEFINE U == S \union T
            r == s \o t
            n == Len(s)
            m == Len(t)
<1>1. n \in Nat /\ m \in Nat /\ DOMAIN s = 1..n /\ DOMAIN t = 1..m
  BY ListCounts
<1>2. s \in Seq(U) /\ t \in Seq(U)
  BY <1>1 DEF Lists
<1>3. r \in Seq(U) /\ Len(r) = n + m
  BY <1>2
<1>4. DOMAIN r = 1..(n + m)
  BY <1>1, <1>3
<1>5. \A i \in 1..n : r[i] = s[i] /\ r[i] \in S
  BY <1>1, <1>2 DEF Lists
<1>6. \A i \in 1..(n + m) : ~(i <= n) => /\ i - n \in 1..m /\ r[i] = t[i - n] /\ r[i] \in T
  <2>1. ASSUME NEW i \in 1..(n + m), ~(i <= n)
        PROVE  i - n \in 1..m /\ r[i] = t[i - n] /\ r[i] \in T
    <3>1. i - n \in 1..m
      BY <1>1, <2>1
    <3>2. r[i] = t[i - n]
      BY <1>1, <1>2, <2>1
    <3>3. t[i - n] \in T
      BY <1>1, <3>1 DEF Lists
    <3>. QED  BY <3>1, <3>2, <3>3
  <2>. QED  BY <2>1
<1>. HIDE DEF r
<1>7. ASSUME NEW i \in DOMAIN r, NEW j \in DOMAIN r, r[i] = r[j]
      PROVE  i = j
  <2>1. CASE i <= n /\ j <= n
    <3>1. i \in 1..n /\ j \in 1..n
      BY <1>1, <1>4, <2>1
    <3>. QED  BY <1>1, <1>5, <1>7, <3>1 DEF Lists
  <2>2. CASE ~(i <= n) /\ ~(j <= n)
    <3>1. i - n \in 1..m /\ j - n \in 1..m /\ t[i - n] = t[j - n]
      BY <1>4, <1>6, <1>7, <2>2
    <3>2. i - n = j - n
      BY <1>1, <3>1 DEF Lists
    <3>. QED  BY <1>1, <1>4, <3>2
  <2>3. CASE i <= n /\ ~(j <= n)
    <3>1. i \in 1..n
      BY <1>1, <1>4, <2>3
    <3>. QED  BY <1>4, <1>5, <1>6, <1>7, <2>3, <3>1
  <2>4. CASE ~(i <= n) /\ j <= n
    <3>1. j \in 1..n
      BY <1>1, <1>4, <2>4
    <3>. QED  BY <1>4, <1>5, <1>6, <1>7, <2>4, <3>1
  <2>. QED  BY <2>1, <2>2, <2>3, <2>4
<1>8. ASSUME NEW x \in U
      PROVE  \E i \in DOMAIN r : r[i] = x
  <2>1. CASE x \in S
    <3>1. PICK i \in 1..n : s[i] = x
      BY <1>1, <2>1 DEF Lists
    <3>2. i \in DOMAIN r
      BY <1>1, <1>4
    <3>. QED  BY <1>5, <3>1, <3>2
  <2>2. CASE x \in T
    <3>1. PICK i \in 1..m : t[i] = x
      BY <1>1, <2>2 DEF Lists
    <3>2. i + n \in 1..(n + m) /\ ~(i + n <= n) /\ (i + n) - n = i
      BY <1>1
    <3>. QED  BY <1>4, <1>6, <3>1, <3>2
  <2>. QED  BY <2>1, <2>2
<1>. HIDE DEF U
<1>9. Lists(r, U)
  BY <1>3, <1>7, <1>8 DEF Lists
<1>. QED  BY <1>9 DEF r, U

(***************************************************************************)
(* A finite set of numbers has one increasing list.                        *)
(***************************************************************************)

\* Without one of its elements a set is smaller by one.
LEMMA SmallerByOne ==
    ASSUME NEW T, IsFiniteSet(T), NEW x \in T, NEW n \in Nat, Cardinality(T) = n + 1
    PROVE  IsFiniteSet(T \ {x}) /\ Cardinality(T \ {x}) = n
<1>1. IsFiniteSet(T \ {x}) /\ Cardinality(T \ {x}) = Cardinality(T) - 1
  BY FS_RemoveElement
<1>. QED  BY <1>1

\* A finite set of numbers, unless empty, has a greatest.
LEMMA Greatest ==
    ASSUME NEW S \in SUBSET Int, IsFiniteSet(S), S # {}
    PROVE  \E m \in S : \A k \in S : k <= m
<1>. DEFINE Good(T) == \E m \in T : \A k \in T : k <= m
            G == {n \in Nat : \A T \in SUBSET Int : IsFiniteSet(T) /\ Cardinality(T) = n + 1 => Good(T)}
<1>1. 0 \in G
  <2>1. ASSUME NEW T \in SUBSET Int, IsFiniteSet(T), Cardinality(T) = 0 + 1
        PROVE  \E m \in T : \A k \in T : k <= m
    <3>1. Cardinality(T) = 1
      BY <2>1
    <3>2. PICK x : T = {x}
      BY <2>1, <3>1, FS_Singleton
    <3>3. x \in T /\ x \in Int
      BY <3>2
    <3>. QED  BY <3>2, <3>3
  <2>. QED  BY <2>1
<1>2. ASSUME NEW n \in Nat, n \in G
      PROVE  n + 1 \in G
  <2>1. ASSUME NEW T \in SUBSET Int, IsFiniteSet(T), Cardinality(T) = (n + 1) + 1
        PROVE  \E m \in T : \A k \in T : k <= m
    <3>1. PICK x : x \in T
      BY <2>1, FS_EmptySet
    <3>2. IsFiniteSet(T \ {x}) /\ Cardinality(T \ {x}) = n + 1 /\ T \ {x} \in SUBSET Int
      BY <2>1, <3>1, SmallerByOne
    <3>3. PICK m \in T \ {x} : \A k \in T \ {x} : k <= m
      BY <1>2, <3>2
    <3>4. CASE x <= m
      BY <3>1, <3>3, <3>4
    <3>5. CASE ~(x <= m)
      <4>1. x \in Int /\ m \in Int /\ \A k \in T : k \in Int
        BY <3>1, <3>3
      <4>2. \A k \in T : k <= x
        BY <3>3, <3>5, <4>1
      <4>. QED  BY <3>1, <4>2
    <3>. QED  BY <3>4, <3>5
  <2>. QED  BY <2>1
<1>. HIDE DEF G
<1>3. Nat \subseteq G
  BY <1>1, <1>2, EveryNatural
<1>4. Cardinality(S) \in Nat /\ Cardinality(S) # 0
  BY FS_CardinalityType, FS_EmptySet
<1>5. Cardinality(S) - 1 \in Nat /\ (Cardinality(S) - 1) + 1 = Cardinality(S)
  BY <1>4
<1>6. Cardinality(S) - 1 \in G
  BY <1>3, <1>5
<1>. QED  BY <1>5, <1>6 DEF G

Increasing(s, n) == \A i, j \in 1..n : i < j => s[i] < s[j]

\* A finite set of numbers has an increasing list.
LEMMA IncreasingExists ==
    ASSUME NEW S \in SUBSET Int, IsFiniteSet(S)
    PROVE  \E s \in [1..Cardinality(S) -> S] : Increasing(s, Cardinality(S))
<1>. DEFINE Good(n) == \A T \in SUBSET Int :
                          IsFiniteSet(T) /\ Cardinality(T) = n => \E s \in [1..n -> T] : Increasing(s, n)
            G == {n \in Nat : Good(n)}
<1>1. 0 \in G
  <2>1. ASSUME NEW T \in SUBSET Int
        PROVE  \E s \in [1..0 -> T] : Increasing(s, 0)
    <3>1. \A i : i \notin 1..0
      OBVIOUS
    <3>2. [i \in 1..0 |-> 0] \in [1..0 -> T]
      BY <3>1
    <3>3. Increasing([i \in 1..0 |-> 0], 0)
      BY <3>1 DEF Increasing
    <3>. QED  BY <3>2, <3>3
  <2>. QED  BY <2>1
<1>2. ASSUME NEW n \in Nat, n \in G
      PROVE  n + 1 \in G
  <2>1. ASSUME NEW T \in SUBSET Int, IsFiniteSet(T), Cardinality(T) = n + 1
        PROVE  \E s \in [1..(n + 1) -> T] : Increasing(s, n + 1)
    <3>1. T # {}
      BY <2>1, FS_EmptySet
    <3>2. PICK m \in T : \A k \in T : k <= m
      BY <2>1, <3>1, Greatest
    <3>3. IsFiniteSet(T \ {m}) /\ Cardinality(T \ {m}) = n /\ T \ {m} \in SUBSET Int
      BY <2>1, <3>2, SmallerByOne
    <3>4. PICK s \in [1..n -> T \ {m}] : Increasing(s, n)
      BY <1>2, <3>3
    <3>. DEFINE r == [i \in 1..(n + 1) |-> IF i = n + 1 THEN m ELSE s[i]]
    <3>5. r \in [1..(n + 1) -> T]
      <4>1. \A i \in 1..(n + 1) : i # n + 1 => i \in 1..n
        OBVIOUS
      <4>. QED  BY <3>4, <4>1
    <3>6. ASSUME NEW i \in 1..(n + 1), NEW j \in 1..(n + 1), i < j
          PROVE  r[i] < r[j]
      <4>0. i \in 1..n /\ i # n + 1
        BY <3>6
      <4>1. r[i] = s[i] /\ s[i] \in T /\ s[i] # m /\ s[i] \in Int /\ m \in Int
        BY <3>4, <4>0
      <4>2. CASE j = n + 1
        BY <3>2, <4>1, <4>2
      <4>3. CASE j # n + 1
        <5>1. j \in 1..n /\ r[j] = s[j]
          BY <4>3
        <5>. QED  BY <3>4, <3>6, <4>0, <4>1, <5>1 DEF Increasing
      <4>. QED  BY <4>2, <4>3
    <3>. HIDE DEF r
    <3>7. Increasing(r, n + 1)
      BY <3>6 DEF Increasing
    <3>. QED  BY <3>5, <3>7
  <2>. QED  BY <2>1
<1>. HIDE DEF G
<1>3. Nat \subseteq G
  BY <1>1, <1>2, EveryNatural
<1>4. Good(Cardinality(S))
  BY <1>3, FS_CardinalityType DEF G
<1>. QED  BY <1>4

\* What the sort returns has each of the modules once.
LEMMA SortedLists ==
    ASSUME NEW S \in SUBSET Int, IsFiniteSet(S)
    PROVE  Lists(Sorted(S), S)
<1>. DEFINE n == Cardinality(S)
<1>1. n \in Nat
  BY FS_CardinalityType
<1>2. \E s \in [1..n -> S] : \A i, j \in DOMAIN s : i < j => s[i] < s[j]
  <2>1. PICK s \in [1..n -> S] : Increasing(s, n)
    BY IncreasingExists
  <2>2. DOMAIN s = 1..n
    OBVIOUS
  <2>. QED  BY <2>1, <2>2 DEF Increasing
<1>3. PICK s : /\ s = Sorted(S) /\ s \in [1..n -> S]
               /\ \A i, j \in DOMAIN s : i < j => s[i] < s[j]
  BY <1>2 DEF Sorted
<1>4. ASSUME NEW i \in 1..n, NEW j \in 1..n, s[i] = s[j]
      PROVE  i = j
  <2>1. s[i] \in Int /\ s[j] \in Int /\ DOMAIN s = 1..n
    BY <1>3
  <2>2. ~(i < j) /\ ~(j < i)
    BY <1>3, <1>4, <2>1
  <2>. QED  BY <1>1, <2>2
<1>5. s \in Injection(1..n, S)
  BY <1>3, <1>4 DEF Injection, IsInjective
<1>6. Cardinality(1..n) = n
  BY <1>1, FS_Interval
<1>7. s \in Surjection(1..n, S)
  BY <1>5, <1>6, FS_Injection
<1>8. s \in Seq(S) /\ DOMAIN s = 1..n
  BY <1>1, <1>3
<1>. QED  BY <1>3, <1>4, <1>7, <1>8 DEF Lists, Surjection

(***************************************************************************)
(* The passes of the loop.                                                 *)
(***************************************************************************)
Grows(dependencies, f, n) ==
    f = [k \in 0..n |-> IF k = 0 THEN {} ELSE f[k - 1] \union Ready(dependencies, f[k - 1])]

\* The passes are defined.
LEMMA GrowthExists ==
    ASSUME NEW dependencies, NEW n \in Nat
    PROVE  \E f : Grows(dependencies, f, n)
<1>. DEFINE G == {k \in Nat : \E f : Grows(dependencies, f, k)}
<1>1. 0 \in G
  <2>. DEFINE f == [k \in 0..0 |-> {}]
  <2>1. \A k \in 0..0 : k = 0
    OBVIOUS
  <2>2. f = [k \in 0..0 |-> IF k = 0 THEN {} ELSE f[k - 1] \union Ready(dependencies, f[k - 1])]
    BY <2>1
  <2>. QED  BY <2>2 DEF Grows
<1>2. ASSUME NEW k \in Nat, k \in G
      PROVE  k + 1 \in G
  <2>1. PICK f : Grows(dependencies, f, k)
    BY <1>2
  <2>. DEFINE new == f[k] \union Ready(dependencies, f[k])
              g == [i \in 0..(k + 1) |-> IF i = k + 1 THEN new ELSE f[i]]
  <2>2. ASSUME NEW i \in 0..(k + 1)
        PROVE  g[i] = IF i = 0 THEN {} ELSE g[i - 1] \union Ready(dependencies, g[i - 1])
    <3>1. CASE i = 0
      <4>1. i \in 0..k /\ i # k + 1
        BY <3>1
      <4>2. g[i] = f[i] /\ f[i] = {}
        BY <2>1, <3>1, <4>1 DEF Grows
      <4>. QED  BY <3>1, <4>2
    <3>2. CASE i # 0
      <4>1. i - 1 \in 0..k /\ i - 1 # k + 1 /\ i - 1 \in 0..(k + 1)
        BY <3>2
      <4>2. g[i - 1] = f[i - 1]
        BY <4>1
      <4>3. CASE i = k + 1
        <5>1. i - 1 = k /\ g[i] = new
          BY <4>3
        <5>. QED  BY <3>2, <4>2, <5>1
      <4>4. CASE i # k + 1
        <5>1. i \in 0..k
          BY <4>4
        <5>2. g[i] = f[i]
          BY <4>4
        <5>3. f[i] = f[i - 1] \union Ready(dependencies, f[i - 1])
          BY <2>1, <3>2, <5>1 DEF Grows
        <5>. QED  BY <3>2, <4>2, <5>2, <5>3
      <4>. QED  BY <4>3, <4>4
    <3>. QED  BY <3>1, <3>2
  <2>3. g = [i \in 0..(k + 1) |-> g[i]]
    OBVIOUS
  <2>. HIDE DEF g
  <2>4. Grows(dependencies, g, k + 1)
    BY <2>2, <2>3 DEF Grows
  <2>. QED  BY <2>4
<1>. HIDE DEF G
<1>3. Nat \subseteq G
  BY <1>1, <1>2, EveryNatural
<1>. QED  BY <1>3 DEF G

\* How they grow, along their first n.
Growing(dependencies, f, n) ==
    /\ f[0] = {}
    /\ \A k \in Nat : k + 1 <= n => f[k + 1] = f[k] \union Ready(dependencies, f[k])

LEMMA GrowthSteps ==
    ASSUME NEW dependencies, NEW n \in Nat, NEW f, Grows(dependencies, f, n)
    PROVE  Growing(dependencies, f, n)
<1>1. f[0] = {}
  <2>1. 0 \in 0..n
    OBVIOUS
  <2>. QED  BY <2>1 DEF Grows
<1>2. ASSUME NEW k \in Nat, k + 1 <= n
      PROVE  f[k + 1] = f[k] \union Ready(dependencies, f[k])
  <2>1. k + 1 \in 0..n /\ k + 1 # 0 /\ (k + 1) - 1 = k
    BY <1>2
  <2>. QED  BY <2>1 DEF Grows
<1>. QED  BY <1>1, <1>2 DEF Growing

\* Longer or shorter, they agree.
LEMMA GrowthAgrees ==
    ASSUME NEW dependencies, NEW n \in Nat, NEW m \in Nat, NEW f, NEW g,
           Growing(dependencies, f, n), Growing(dependencies, g, m)
    PROVE  \A k \in Nat : k <= n /\ k <= m => f[k] = g[k]
<1>. DEFINE G == {k \in Nat : k <= n /\ k <= m => f[k] = g[k]}
<1>1. 0 \in G
  BY DEF Growing
<1>2. ASSUME NEW k \in Nat, k \in G  PROVE k + 1 \in G
  <2>. SUFFICES ASSUME k + 1 <= n, k + 1 <= m  PROVE f[k + 1] = g[k + 1]
    OBVIOUS
  <2>1. f[k] = g[k]
    BY <1>2
  <2>. QED  BY <2>1 DEF Growing
<1>. HIDE DEF G
<1>3. Nat \subseteq G
  BY <1>1, <1>2, EveryNatural
<1>. QED  BY <1>3 DEF G

\* What is resolved after n passes is where they have come to.
LEMMA ResolvedIs ==
    ASSUME NEW dependencies, NEW n \in Nat
    PROVE  \E f : Grows(dependencies, f, n) /\ Resolved(dependencies, n) = f[n]
<1>. DEFINE F == CHOOSE f : Grows(dependencies, f, n)
<1>1. Grows(dependencies, F, n)
  BY GrowthExists, Zenon
<1>2. Resolved(dependencies, n) = F[n]
  BY Zenon DEF Resolved, Grows
<1>. QED  BY <1>1, <1>2

\* One pass more resolves what was ready.
LEMMA ResolvedGrows ==
    ASSUME NEW dependencies
    PROVE  /\ Resolved(dependencies, 0) = {}
           /\ \A n \in Nat : Resolved(dependencies, n + 1) =
                  Resolved(dependencies, n) \union Ready(dependencies, Resolved(dependencies, n))
<1>1. Resolved(dependencies, 0) = {}
  <2>1. PICK f : Grows(dependencies, f, 0) /\ Resolved(dependencies, 0) = f[0]
    BY ResolvedIs
  <2>. QED  BY <2>1, GrowthSteps DEF Growing
<1>2. ASSUME NEW n \in Nat
      PROVE  Resolved(dependencies, n + 1) =
                 Resolved(dependencies, n) \union Ready(dependencies, Resolved(dependencies, n))
  <2>1. PICK m \in Nat : m = n + 1
    OBVIOUS
  <2>2. PICK f : Grows(dependencies, f, n) /\ Resolved(dependencies, n) = f[n]
    BY ResolvedIs
  <2>3. PICK g : Grows(dependencies, g, m) /\ Resolved(dependencies, m) = g[m]
    BY ResolvedIs
  <2>4. Growing(dependencies, f, n) /\ Growing(dependencies, g, m)
    BY <2>2, <2>3, GrowthSteps
  <2>5. f[n] = g[n]
    BY <2>1, <2>4, GrowthAgrees
  <2>6. g[n + 1] = g[n] \union Ready(dependencies, g[n])
    BY <2>1, <2>4 DEF Growing
  <2>. QED  BY <2>1, <2>2, <2>3, <2>5, <2>6
<1>. QED  BY <1>1, <1>2

\* What is resolved is registered, and what is not ready in one pass and in no
\* earlier one never will be.
LEMMA ResolvedRegistered ==
    ASSUME NEW dependencies
    PROVE  \A n \in Nat : Resolved(dependencies, n) \subseteq DOMAIN dependencies
<1>. DEFINE R(n) == Resolved(dependencies, n)
            G == {n \in Nat : R(n) \subseteq DOMAIN dependencies}
<1>1. 0 \in G
  BY ResolvedGrows
<1>2. ASSUME NEW n \in Nat, n \in G  PROVE n + 1 \in G
  <2>1. R(n + 1) = R(n) \union Ready(dependencies, R(n))
    BY ResolvedGrows
  <2>2. Ready(dependencies, R(n)) \subseteq DOMAIN dependencies
    BY DEF Ready
  <2>. QED  BY <1>2, <2>1, <2>2
<1>. HIDE DEF G
<1>3. Nat \subseteq G
  BY <1>1, <1>2, EveryNatural
<1>. QED  BY <1>3 DEF G

\* The n-th pass resolves the n-th module at the latest, or none any more.
LEMMA PassesSuffice ==
    ASSUME NEW dependencies, IsFiniteSet(DOMAIN dependencies)
    PROVE  \A n \in Nat : \/ Ready(dependencies, Resolved(dependencies, n)) = {}
                          \/ n <= Cardinality(Resolved(dependencies, n))
<1>. DEFINE R(n) == Resolved(dependencies, n)
            Good(n) == Ready(dependencies, R(n)) = {} \/ n <= Cardinality(R(n))
            G == {n \in Nat : Good(n)}
<1>0. ASSUME NEW n \in Nat  PROVE IsFiniteSet(R(n)) /\ Cardinality(R(n)) \in Nat
  <2>1. R(n) \subseteq DOMAIN dependencies
    BY ResolvedRegistered
  <2>2. IsFiniteSet(R(n))
    BY <2>1, FS_Subset
  <2>. QED  BY <2>2, FS_CardinalityType
<1>1. 0 \in G
  BY <1>0
<1>2. ASSUME NEW n \in Nat, n \in G  PROVE n + 1 \in G
  <2>1. R(n + 1) = R(n) \union Ready(dependencies, R(n))
    BY ResolvedGrows
  <2>2. CASE Ready(dependencies, R(n)) = {}
    <3>1. R(n + 1) = R(n)
      BY <2>1, <2>2
    <3>. QED  BY <2>2, <3>1
  <2>3. CASE Ready(dependencies, R(n)) # {}
    <3>1. PICK x : x \in Ready(dependencies, R(n))
      BY <2>3
    <3>2. x \notin R(n) /\ R(n) \union {x} \subseteq R(n + 1)
      BY <2>1, <3>1 DEF Ready
    <3>3. Cardinality(R(n) \union {x}) = Cardinality(R(n)) + 1
      BY <1>0, <3>2, FS_AddElement
    <3>4. IsFiniteSet(R(n + 1)) /\ Cardinality(R(n + 1)) \in Nat
      BY <1>0
    <3>5. Cardinality(R(n) \union {x}) <= Cardinality(R(n + 1))
      BY <3>2, <3>4, FS_Subset
    <3>6. n <= Cardinality(R(n)) /\ Cardinality(R(n)) \in Nat
      BY <1>0, <1>2, <2>3
    <3>. QED  BY <3>3, <3>4, <3>5, <3>6
  <2>. QED  BY <2>2, <2>3
<1>. HIDE DEF G
<1>3. Nat \subseteq G
  BY <1>1, <1>2, EveryNatural
<1>. QED  BY <1>3 DEF G

(***************************************************************************)
(* The order.                                                              *)
(***************************************************************************)

\* A list of some modules, each after what it depends on.
Ordered(dependencies, s, S) ==
    /\ Lists(s, S)
    /\ \A i \in DOMAIN s : \A d \in dependencies[s[i]] : \E j \in 1..(i - 1) : s[j] = d

\* Modules that depend on those alone may follow.
LEMMA OrderJoins ==
    ASSUME NEW dependencies, NEW S, NEW T, S \intersect T = {},
           NEW s, Ordered(dependencies, s, S), NEW t, Lists(t, T),
           \A x \in T : dependencies[x] \subseteq S
    PROVE  Ordered(dependencies, s \o t, S \union T)
<1>. DEFINE r == s \o t
            n == Len(s)
            m == Len(t)
<1>1. n \in Nat /\ m \in Nat /\ DOMAIN s = 1..n /\ DOMAIN t = 1..m
  BY ListCounts DEF Ordered
<1>2. Lists(r, S \union T)
  BY ListsJoin DEF Ordered
<1>3. s \in Seq(S) /\ t \in Seq(T)
  BY DEF Ordered, Lists
<1>4. Len(r) = n + m /\ DOMAIN r = 1..(n + m)
  BY <1>1, <1>3
<1>5. \A i \in 1..n : r[i] = s[i]
  BY <1>1, <1>3
<1>6. \A i \in 1..(n + m) : ~(i <= n) => i - n \in 1..m /\ r[i] = t[i - n]
  BY <1>1, <1>3
<1>. HIDE DEF r
<1>7. ASSUME NEW i \in 1..(n + m), NEW d \in dependencies[r[i]]
      PROVE  \E j \in 1..(i - 1) : r[j] = d
  <2>1. CASE i <= n
    <3>1. i \in 1..n /\ r[i] = s[i]
      BY <1>1, <1>5, <2>1
    <3>2. PICK j \in 1..(i - 1) : s[j] = d
      BY <1>1, <1>7, <3>1 DEF Ordered
    <3>3. j \in 1..n
      BY <1>1, <3>1, <3>2
    <3>. QED  BY <1>5, <3>2, <3>3
  <2>2. CASE ~(i <= n)
    <3>1. r[i] = t[i - n] /\ i - n \in 1..m
      BY <1>6, <2>2
    <3>2. t[i - n] \in T
      BY <1>1, <1>3, <3>1
    <3>3. d \in S
      BY <1>7, <3>1, <3>2
    <3>4. PICK j \in 1..n : s[j] = d
      BY <1>1, <3>3 DEF Ordered, Lists
    <3>5. j \in 1..(i - 1)
      BY <1>1, <2>2, <3>4
    <3>. QED  BY <1>5, <3>4, <3>5
  <2>. QED  BY <2>1, <2>2
<1>8. Ordered(dependencies, r, S \union T)
  BY <1>2, <1>4, <1>7 DEF Ordered, r
<1>. QED  BY <1>8 DEF r

\* What FlattenSeq computes of the first n layers, if there is one.
Flattens(f, n, layers) ==
    f = [i \in 1..n |-> IF i = 1 THEN layers[i] ELSE f[i - 1] \o layers[i]]

\* It can be computed.
LEMMA FlatExists ==
    ASSUME NEW layers, NEW n \in Nat
    PROVE  \E f : Flattens(f, n, layers)
<1>. DEFINE G == {k \in Nat : \E f : Flattens(f, k, layers)}
<1>1. 0 \in G
  <2>. DEFINE f == [i \in 1..0 |-> <<>>]
  <2>1. \A i : i \notin 1..0
    OBVIOUS
  <2>2. f = [i \in 1..0 |-> IF i = 1 THEN layers[i] ELSE f[i - 1] \o layers[i]]
    BY <2>1
  <2>. QED  BY <2>2 DEF Flattens
<1>2. ASSUME NEW k \in Nat, k \in G  PROVE k + 1 \in G
  <2>1. PICK f : Flattens(f, k, layers)
    BY <1>2
  <2>. DEFINE new == IF k = 0 THEN layers[1] ELSE f[k] \o layers[k + 1]
              g == [i \in 1..(k + 1) |-> IF i = k + 1 THEN new ELSE f[i]]
  <2>2. ASSUME NEW i \in 1..(k + 1)
        PROVE  g[i] = IF i = 1 THEN layers[i] ELSE g[i - 1] \o layers[i]
    <3>1. CASE i = k + 1
      <4>1. g[i] = new
        BY <3>1
      <4>2. CASE k = 0
        BY <3>1, <4>1, <4>2
      <4>3. CASE k # 0
        <5>1. i - 1 = k /\ k \in 1..(k + 1) /\ k # k + 1 /\ i # 1
          BY <3>1, <4>3
        <5>2. g[k] = f[k]
          BY <5>1
        <5>. QED  BY <3>1, <4>1, <4>3, <5>1, <5>2
      <4>. QED  BY <4>2, <4>3
    <3>2. CASE i # k + 1
      <4>1. i \in 1..k
        BY <3>2
      <4>2. g[i] = f[i]
        BY <3>2
      <4>3. f[i] = IF i = 1 THEN layers[i] ELSE f[i - 1] \o layers[i]
        BY <2>1, <4>1 DEF Flattens
      <4>4. i # 1 => g[i - 1] = f[i - 1]
        <5>. SUFFICES ASSUME i # 1  PROVE g[i - 1] = f[i - 1]
          OBVIOUS
        <5>1. i - 1 \in 1..(k + 1) /\ i - 1 # k + 1
          BY <4>1
        <5>. QED  BY <5>1
      <4>. HIDE DEF g
      <4>. QED  BY <4>2, <4>3, <4>4
    <3>. QED  BY <3>1, <3>2
  <2>3. g = [i \in 1..(k + 1) |-> g[i]]
    OBVIOUS
  <2>. HIDE DEF g
  <2>4. Flattens(g, k + 1, layers)
    BY <2>2, <2>3 DEF Flattens
  <2>. QED  BY <2>4
<1>. HIDE DEF G
<1>3. Nat \subseteq G
  BY <1>1, <1>2, EveryNatural
<1>. QED  BY <1>3 DEF G

\* What validate_dependencies is given: names of modules, each with names.
LEMMA RegistrationIs ==
    ASSUME NEW dependencies \in Registrations
    PROVE  /\ DOMAIN dependencies \subseteq Modules
           /\ DOMAIN dependencies \in SUBSET Int
           /\ IsFiniteSet(DOMAIN dependencies)
           /\ Cardinality(Modules) \in Nat
           /\ Cardinality(DOMAIN dependencies) \in Nat
           /\ Cardinality(DOMAIN dependencies) <= Cardinality(Modules)
<1>1. DOMAIN dependencies \subseteq Modules
  BY DEF Registrations
<1>2. IsFiniteSet(Modules) /\ Modules \subseteq Int
  BY RegistryAssumption
<1>3. IsFiniteSet(DOMAIN dependencies) /\ Cardinality(DOMAIN dependencies) <= Cardinality(Modules)
  BY <1>1, <1>2, FS_Subset
<1>. QED  BY <1>1, <1>2, <1>3, FS_CardinalityType

\* When the loop ends with modules left over, none of them is ready.
LEMMA StuckIfCyclic ==
    ASSUME NEW dependencies \in Registrations, Cyclic(dependencies)
    PROVE  Ready(dependencies, Resolved(dependencies, Cardinality(Modules))) = {}
<1>. DEFINE D == DOMAIN dependencies
            n == Cardinality(Modules)
            R == Resolved(dependencies, n)
<1>1. IsFiniteSet(D) /\ n \in Nat /\ Cardinality(D) \in Nat /\ Cardinality(D) <= n
  BY RegistrationIs
<1>2. R \subseteq D /\ R # D
  BY <1>1, ResolvedRegistered DEF Cyclic
<1>3. IsFiniteSet(R) /\ Cardinality(R) <= Cardinality(D) /\ Cardinality(R) # Cardinality(D)
  BY <1>1, <1>2, FS_Subset
<1>4. Cardinality(R) \in Nat
  BY <1>3, FS_CardinalityType
<1>5. ~(n <= Cardinality(R))
  BY <1>1, <1>3, <1>4
<1>. QED  BY <1>1, <1>5, PassesSuffice

\* Modules that wait for each other: each depends on one of them.
Stuck(dependencies, waiting) ==
    /\ waiting # {} /\ waiting \subseteq DOMAIN dependencies
    /\ \A m \in waiting : \E d \in dependencies[m] : d \in waiting

\* The modules left over are such, when none is missing.
LEMMA CycleIsStuck ==
    ASSUME NEW dependencies \in Registrations, Missing(dependencies) = {},
           Cyclic(dependencies)
    PROVE  \E waiting : Stuck(dependencies, waiting)
<1>. DEFINE R == Resolved(dependencies, Cardinality(Modules))
            W == DOMAIN dependencies \ R
<1>1. R \subseteq DOMAIN dependencies /\ R # DOMAIN dependencies
  BY RegistrationIs, ResolvedRegistered DEF Cyclic
<1>2. Ready(dependencies, R) = {}
  BY StuckIfCyclic
<1>. HIDE DEF R
<1>3. ASSUME NEW m \in W
      PROVE  \E d \in dependencies[m] : d \in W
  <2>1. dependencies[m] \subseteq DOMAIN dependencies
    BY DEF Missing
  <2>2. ~(dependencies[m] \subseteq R)
    BY <1>2 DEF Ready
  <2>. QED  BY <2>1, <2>2
<1>4. Stuck(dependencies, W)
  BY <1>1, <1>3 DEF Stuck
<1>. QED  BY <1>4

\* Then no order exists: the first of them in it depends on an earlier one.
LEMMA NoOrderIfStuck ==
    ASSUME NEW dependencies \in Registrations, NEW waiting, Stuck(dependencies, waiting),
           NEW order \in SetToSeqs(DOMAIN dependencies)
    PROVE  ~IsOrder(dependencies, order)
<1>. SUFFICES ASSUME IsOrder(dependencies, order)  PROVE FALSE
  OBVIOUS
<1>. DEFINE D == DOMAIN dependencies
            n == Cardinality(D)
            places == {i \in 1..n : order[i] \in waiting}
<1>1. n \in Nat /\ order \in [1..n -> D] /\ DOMAIN order = 1..n
  BY RegistrationIs DEF SetToSeqs
<1>2. PICK x \in D : x \in waiting
  BY DEF Stuck
<1>3. PICK k \in 1..n : order[k] = x
  BY <1>1 DEF IsOrder
<1>4. places # {} /\ places \in SUBSET Nat
  BY <1>2, <1>3
<1>5. PICK i \in places : \A j \in places : i <= j
  BY <1>4, LeastNumber
<1>6. i \in 1..n /\ order[i] \in waiting
  BY <1>1, <1>5
<1>7. PICK d \in dependencies[order[i]] : d \in waiting
  BY <1>6 DEF Stuck
<1>8. PICK j \in 1..(i - 1) : order[j] = d
  BY <1>1, <1>6, <1>7 DEF IsOrder
<1>9. j \in 1..n /\ ~(i <= j)
  BY <1>1, <1>6, <1>8
<1>. QED  BY <1>5, <1>7, <1>8, <1>9

\* Nor does it when a module names one that was not registered.
LEMMA NoOrderIfMissing ==
    ASSUME NEW dependencies \in Registrations, Missing(dependencies) # {},
           NEW order \in SetToSeqs(DOMAIN dependencies)
    PROVE  ~IsOrder(dependencies, order)
<1>. SUFFICES ASSUME IsOrder(dependencies, order)  PROVE FALSE
  OBVIOUS
<1>. DEFINE D == DOMAIN dependencies
            n == Cardinality(D)
<1>1. n \in Nat /\ order \in [1..n -> D] /\ DOMAIN order = 1..n
  BY RegistrationIs DEF SetToSeqs
<1>2. PICK x \in D : ~(dependencies[x] \subseteq D)
  BY DEF Missing
<1>3. PICK d \in dependencies[x] : d \notin D
  BY <1>2
<1>4. PICK i \in 1..n : order[i] = x
  BY <1>1 DEF IsOrder
<1>5. PICK j \in 1..(i - 1) : order[j] = d
  BY <1>1, <1>3, <1>4 DEF IsOrder
<1>6. j \in 1..n
  BY <1>1, <1>4, <1>5
<1>. QED  BY <1>1, <1>3, <1>5, <1>6

\* The layers of validate_dependencies.
LayersOf(dependencies) ==
    [n \in 1..Cardinality(Modules) |-> Sorted(Ready(dependencies, Resolved(dependencies, n - 1)))]

\* One after the other they are an order of what is resolved.
LEMMA LayersOrder ==
    ASSUME NEW dependencies \in Registrations
    PROVE  Ordered(dependencies, FlattenSeq(LayersOf(dependencies)),
                   Resolved(dependencies, Cardinality(Modules)))
<1>. DEFINE N == Cardinality(Modules)
            L == LayersOf(dependencies)
            R(n) == Resolved(dependencies, n)
            W(n) == Ready(dependencies, R(n))
<1>1. N \in Nat /\ DOMAIN dependencies \in SUBSET Int /\ IsFiniteSet(DOMAIN dependencies)
  BY RegistrationIs
<1>2. ASSUME NEW n \in Nat
      PROVE  /\ R(n + 1) = R(n) \union W(n) /\ R(n) \intersect W(n) = {}
             /\ Lists(Sorted(W(n)), W(n))
             /\ \A x \in W(n) : dependencies[x] \subseteq R(n)
  <2>1. W(n) \subseteq DOMAIN dependencies
    BY DEF Ready
  <2>2. W(n) \in SUBSET Int /\ IsFiniteSet(W(n))
    BY <1>1, <2>1, FS_Subset
  <2>3. Lists(Sorted(W(n)), W(n))
    BY <2>2, SortedLists
  <2>4. R(n + 1) = R(n) \union W(n)
    BY ResolvedGrows
  <2>. QED  BY <2>3, <2>4 DEF Ready
<1>3. Ordered(dependencies, <<>>, R(0))
  <2>1. R(0) = {}
    BY ResolvedGrows
  <2>. QED  BY <2>1 DEF Ordered, Lists
<1>4. L = [n \in 1..N |-> L[n]] /\ \A n \in 1..N : L[n] = Sorted(W(n - 1))
  BY DEF LayersOf
<1>. HIDE DEF L
<1>5. Len(L) = N
  BY <1>1, <1>4
<1>6. CASE N = 0
  <2>1. \A i : i \notin 1..0
    OBVIOUS
  <2>2. L = <<>>
    BY <1>4, <1>6, <2>1
  <2>3. FlattenSeq(L) = <<>>
    BY <1>5, <1>6, <2>2 DEF FlattenSeq
  <2>. QED  BY <1>3, <1>6, <2>3 DEF L
<1>7. CASE N # 0
  <2>. DEFINE F == CHOOSE f : Flattens(f, N, L)
  <2>1. Flattens(F, N, L)
    BY <1>1, FlatExists, Zenon
  <2>2. FlattenSeq(L) = F[N]
    <3>1. FlattenSeq(L) = LET flatten[i \in 1..Len(L)] ==
                                IF i = 1 THEN L[i] ELSE flatten[i - 1] \o L[i]
                          IN  flatten[Len(L)]
      BY <1>5, <1>7, Zenon DEF FlattenSeq
    <3>. QED  BY <1>5, <3>1, Zenon DEF Flattens
  <2>. HIDE DEF F
  <2>. DEFINE G == {k \in Nat : k < N => Ordered(dependencies, F[k + 1], R(k + 1))}
  <2>3. 0 \in G
    <3>1. 1 \in 1..N
      BY <1>1, <1>7
    <3>2. F[1] = L[1]
      BY <2>1, <3>1 DEF Flattens
    <3>3. L[1] = Sorted(W(0))
      BY <1>4, <3>1
    <3>4. /\ R(1) = R(0) \union W(0) /\ Lists(Sorted(W(0)), W(0))
          /\ \A x \in W(0) : dependencies[x] \subseteq R(0)
      BY <1>2
    <3>5. R(0) = {}
      BY ResolvedGrows
    <3>6. Lists(F[1], R(1)) /\ \A x \in R(1) : dependencies[x] = {}
      BY <3>2, <3>3, <3>4, <3>5
    <3>7. \A i \in DOMAIN F[1] : F[1][i] \in R(1)
      BY <3>6 DEF Lists
    <3>8. Ordered(dependencies, F[1], R(1))
      BY <3>6, <3>7 DEF Ordered
    <3>. QED  BY <3>8
  <2>4. ASSUME NEW k \in Nat, k \in G  PROVE k + 1 \in G
    <3>. SUFFICES ASSUME k + 1 < N  PROVE Ordered(dependencies, F[(k + 1) + 1], R((k + 1) + 1))
      OBVIOUS
    <3>1. PICK m \in Nat : m = k + 1
      OBVIOUS
    <3>2. m + 1 \in 1..N /\ m + 1 # 1 /\ (m + 1) - 1 = m /\ k < N
      BY <1>1, <3>1
    <3>3. F[m + 1] = F[m] \o L[m + 1]
      BY <2>1, <3>2 DEF Flattens
    <3>4. L[m + 1] = Sorted(W(m))
      BY <1>4, <3>2
    <3>5. Ordered(dependencies, F[m], R(m))
      BY <2>4, <3>1, <3>2
    <3>6. /\ R(m + 1) = R(m) \union W(m) /\ R(m) \intersect W(m) = {}
          /\ Lists(Sorted(W(m)), W(m))
          /\ \A x \in W(m) : dependencies[x] \subseteq R(m)
      BY <1>2
    <3>7. Ordered(dependencies, F[m] \o Sorted(W(m)), R(m) \union W(m))
      BY <3>5, <3>6, OrderJoins
    <3>. QED  BY <3>1, <3>3, <3>4, <3>6, <3>7
  <2>. HIDE DEF G
  <2>5. Nat \subseteq G
    BY <2>3, <2>4, EveryNatural
  <2>6. N - 1 \in Nat /\ N - 1 < N /\ (N - 1) + 1 = N
    BY <1>1, <1>7
  <2>7. Ordered(dependencies, F[N], R(N))
    BY <2>5, <2>6 DEF G
  <2>. QED  BY <2>2, <2>7 DEF L
<1>. QED  BY <1>6, <1>7

\* What is returned is an order when nothing is missing and nothing left over.
LEMMA OrderFound ==
    ASSUME NEW dependencies \in Registrations, ~Cyclic(dependencies)
    PROVE  LET order == FlattenSeq(LayersOf(dependencies)) IN
           order \in SetToSeqs(DOMAIN dependencies) /\ IsOrder(dependencies, order)
<1>. DEFINE D == DOMAIN dependencies
<1>1. PICK s : s = FlattenSeq(LayersOf(dependencies))
  OBVIOUS
<1>2. Ordered(dependencies, s, D)
  BY <1>1, LayersOrder DEF Cyclic
<1>3. Lists(s, D)
  BY <1>2 DEF Ordered
<1>4. Cardinality(D) = Len(s) /\ Len(s) \in Nat /\ DOMAIN s = 1..Len(s) /\ s \in [1..Len(s) -> D]
  BY <1>3, ListCounts DEF Lists
<1>5. s \in SetToSeqs(D)
  <2>1. s \in [1..Cardinality(D) -> D]
    BY <1>4
  <2>2. \A i, j \in 1..Cardinality(D) : i # j => s[i] # s[j]
    BY <1>3, <1>4 DEF Lists
  <2>. QED  BY <2>1, <2>2 DEF SetToSeqs
<1>6. {s[i] : i \in DOMAIN s} = D
  <2>1. \A x \in D : \E i \in DOMAIN s : s[i] = x
    BY <1>3 DEF Lists
  <2>2. \A i \in DOMAIN s : s[i] \in D
    BY <1>4
  <2>. QED  BY <2>1, <2>2
<1>7. IsOrder(dependencies, s)
  BY <1>2, <1>4, <1>6 DEF IsOrder, Ordered
<1>. QED  BY <1>1, <1>5, <1>7

\* validate_dependencies, for any finite number of modules with whatever
\* dependencies: it returns an order of them if there is one, and raises otherwise.
THEOREM OrderIsFound == OrderIsDependencyFirst
<1>. SUFFICES ASSUME NEW dependencies \in Registrations
              PROVE  LET result == ValidateDependencies(dependencies) IN
                     IF \E order \in SetToSeqs(DOMAIN dependencies) : IsOrder(dependencies, order)
                     THEN result.error = "none" /\ IsOrder(dependencies, result.order)
                     ELSE result.error # "none"
  BY DEF OrderIsDependencyFirst
<1>. DEFINE exists == \E order \in SetToSeqs(DOMAIN dependencies) : IsOrder(dependencies, order)
<1>1. PICK s : s = FlattenSeq(LayersOf(dependencies))
  OBVIOUS
<1>2. PICK result : result = ValidateDependencies(dependencies)
  OBVIOUS
<1>3. result = IF Missing(dependencies) # {} THEN [error |-> "missing", order |-> <<>>]
               ELSE IF Cyclic(dependencies) THEN [error |-> "cyclic", order |-> <<>>]
               ELSE [error |-> "none", order |-> s]
  BY <1>1, <1>2, Zenon DEF ValidateDependencies, LayersOf
<1>4. CASE Missing(dependencies) # {}
  <2>1. ~exists
    BY <1>4, NoOrderIfMissing
  <2>2. result.error # "none"
    BY <1>3, <1>4
  <2>. QED  BY <1>2, <2>1, <2>2
<1>5. CASE Missing(dependencies) = {} /\ Cyclic(dependencies)
  <2>1. ~exists
    BY <1>5, CycleIsStuck, NoOrderIfStuck
  <2>2. result.error # "none"
    BY <1>3, <1>5
  <2>. QED  BY <1>2, <2>1, <2>2
<1>6. CASE Missing(dependencies) = {} /\ ~Cyclic(dependencies)
  <2>1. s \in SetToSeqs(DOMAIN dependencies) /\ IsOrder(dependencies, s)
    BY <1>1, <1>6, OrderFound
  <2>2. result.error = "none" /\ result.order = s
    BY <1>3, <1>6
  <2>. QED  BY <1>2, <2>1, <2>2
<1>. QED  BY <1>4, <1>5, <1>6

-----------------------------------------------------------------------------
(* The way to the start of a run.                                          *)

\* What a boot has raised holds of what is registered: for a missing module or
\* a cycle until more is registered, for a cycle also after that, since the
\* modules that wait for each other stay as they were registered.
LaunchInv ==
    /\ registry \in Registrations
    /\ answer \in {"missing", "cyclic"} => ~HasOrder(registry)
    /\ "cyclic" \in refusals => \E waiting : Stuck(registry, waiting)

\* Nothing registered is a registration.
LEMMA NothingIsRegistered == NothingRegistered \in Registrations
<1>1. NothingRegistered \in [{} -> SUBSET (Modules \union Unregistered)]
  BY DEF NothingRegistered
<1>2. {} \in SUBSET Modules
  OBVIOUS
<1>. QED  BY <1>1, <1>2 DEF Registrations

\* Three answers, and which one.
LEMMA AnswerIs ==
    ASSUME NEW dependencies \in Registrations
    PROVE  LET error == ValidateDependencies(dependencies).error IN
           /\ error \in {"none", "missing", "cyclic"}
           /\ error = "none" <=> HasOrder(dependencies)
           /\ error = "cyclic" => \E waiting : Stuck(dependencies, waiting)
<1>. DEFINE error == ValidateDependencies(dependencies).error
<1>1. PICK s : s = FlattenSeq(LayersOf(dependencies))
  OBVIOUS
<1>2. ValidateDependencies(dependencies) =
        IF Missing(dependencies) # {} THEN [error |-> "missing", order |-> <<>>]
        ELSE IF Cyclic(dependencies) THEN [error |-> "cyclic", order |-> <<>>]
        ELSE [error |-> "none", order |-> s]
  BY <1>1, Zenon DEF ValidateDependencies, LayersOf
<1>3. error \in {"none", "missing", "cyclic"}
  BY <1>2
<1>4. error = "none" <=> HasOrder(dependencies)
  BY OrderIsFound DEF OrderIsDependencyFirst, HasOrder
<1>5. error = "cyclic" => Missing(dependencies) = {} /\ Cyclic(dependencies)
  BY <1>2
<1>6. error = "cyclic" => \E waiting : Stuck(dependencies, waiting)
  BY <1>5, CycleIsStuck
<1>. QED  BY <1>3, <1>4, <1>6

\* A registration more leaves those that wait for each other where they are.
LEMMA RegisterKeeps ==
    ASSUME LaunchInv, NEW m \in Modules,
           NEW dependencies \in SUBSET (Modules \union Unregistered),
           Register(m, dependencies)
    PROVE  LaunchInv'
<1>. DEFINE D == DOMAIN registry
            E == D \union {m}
<1>1. PICK registered \in SUBSET Modules :
          registry \in [registered -> SUBSET (Modules \union Unregistered)]
  BY DEF LaunchInv, Registrations
<1>2. D = registered /\ m \notin D
  BY <1>1 DEF Register
<1>3. registry' = [k \in E |-> IF k = m THEN dependencies ELSE registry[k]]
  BY DEF Register
<1>4. E \in SUBSET Modules /\ registry' \in [E -> SUBSET (Modules \union Unregistered)]
  BY <1>1, <1>2, <1>3
<1>5. registry' \in Registrations
  BY <1>4 DEF Registrations
<1>6. ASSUME NEW waiting, Stuck(registry, waiting)
      PROVE  Stuck(registry', waiting)
  <2>1. DOMAIN registry' = E /\ waiting \subseteq D /\ waiting # {}
    BY <1>3, <1>6 DEF Stuck
  <2>2. \A w \in waiting : registry'[w] = registry[w]
    BY <1>2, <1>3, <2>1
  <2>. QED  BY <1>6, <2>1, <2>2 DEF Stuck
<1>7. answer' = "none" /\ refusals' = refusals
  BY DEF Register
<1>8. ("cyclic" \in refusals => \E waiting : Stuck(registry, waiting))'
  BY <1>6, <1>7 DEF LaunchInv
<1>. QED  BY <1>5, <1>7, <1>8 DEF LaunchInv

\* The invariant of the launch, and what it says of a step.
LEMMA LaunchInvariant == LaunchSpec => []LaunchInv
<1>1. LaunchInit => LaunchInv
  BY NothingIsRegistered DEF LaunchInit, LaunchInv
<1>2. LaunchInv /\ [LaunchNext]_<<vars, launch>> => LaunchInv'
  <2>. SUFFICES ASSUME LaunchInv, [LaunchNext]_<<vars, launch>>  PROVE LaunchInv'
    OBVIOUS
  <2>1. ASSUME NEW m \in Modules, NEW dependencies \in SUBSET (Modules \union Unregistered),
               Register(m, dependencies)
        PROVE  LaunchInv'
    BY <2>1, RegisterKeeps
  <2>2. CASE BootRefused
    <3>1. registry' = registry /\ registry \in Registrations
      BY <2>2 DEF BootRefused, LaunchInv
    <3>2. /\ answer' = ValidateDependencies(registry).error /\ answer' # "none"
          /\ refusals' = refusals \union {answer'}
      BY <2>2 DEF BootRefused
    <3>3. ~HasOrder(registry) /\ (answer' = "cyclic" => \E waiting : Stuck(registry, waiting))
      BY <3>1, <3>2, AnswerIs
    <3>4. "cyclic" \in refusals' => \E waiting : Stuck(registry, waiting)
      BY <3>2, <3>3 DEF LaunchInv
    <3>. QED  BY <3>1, <3>3, <3>4 DEF LaunchInv
  <2>3. CASE StoreFails
    BY <2>3 DEF StoreFails, LaunchInv
  <2>4. CASE BootStarts
    <3>1. registry' = NothingRegistered /\ answer' = "booted" /\ refusals' = {}
      BY <2>4 DEF BootStarts
    <3>. QED  BY <3>1, NothingIsRegistered DEF LaunchInv
  <2>5. CASE UNCHANGED launch
    BY <2>5 DEF launch, LaunchInv
  <2>. QED  BY <2>1, <2>2, <2>3, <2>4, <2>5 DEF LaunchNext, Started
<1>. QED  BY <1>1, <1>2, PTL DEF LaunchSpec

\* The kernel of a launch is the kernel: what is proved of Spec holds however
\* the run came to start.
THEOREM LaunchIsKernel == LaunchSpec => Spec
<1>1. LaunchInit => Init
  BY DEF LaunchInit
<1>2. [LaunchNext]_<<vars, launch>> => [Next]_vars
  <2>1. \A m, dependencies : Register(m, dependencies) => UNCHANGED vars
    BY DEF Register
  <2>2. BootRefused => UNCHANGED vars
    BY DEF BootRefused
  <2>3. StoreFails => UNCHANGED vars
    BY DEF StoreFails
  <2>4. BootStarts => Next
    BY DEF BootStarts, Next, Calls
  <2>5. Started => Next
    BY DEF Started
  <2>. QED  BY <2>1, <2>2, <2>3, <2>4, <2>5 DEF LaunchNext
<1>. QED  BY <1>1, <1>2, PTL DEF LaunchSpec, Spec

\* Whatever is registered and however often it is booted: a run starts only on
\* modules that can be ordered, and a boot raises for dependencies only when they
\* cannot, for a cycle once and for all.
THEOREM BootFindsOrder == LaunchSpec => BootIsOrdered
<1>. DEFINE Claim ==
        /\ status = "CREATED" /\ status' # "CREATED" =>
             HasOrder(registry) /\ "cyclic" \notin refusals
        /\ answer' \in {"missing", "cyclic"} => ~HasOrder(registry')
<1>1. LaunchInv /\ LaunchInv' /\ [LaunchNext]_<<vars, launch>> => [Claim]_<<vars, launch>>
  <2>. SUFFICES ASSUME LaunchInv, LaunchInv', [LaunchNext]_<<vars, launch>>
                PROVE  [Claim]_<<vars, launch>>
    OBVIOUS
  <2>1. answer' \in {"missing", "cyclic"} => ~HasOrder(registry')
    BY DEF LaunchInv
  <2>2. CASE BootStarts
    <3>1. registry \in Registrations /\ ValidateDependencies(registry).error = "none"
      BY <2>2 DEF BootStarts, LaunchInv
    <3>2. HasOrder(registry)
      BY <3>1, AnswerIs
    <3>3. \A waiting : ~Stuck(registry, waiting)
      BY <3>1, <3>2, NoOrderIfStuck DEF HasOrder
    <3>4. "cyclic" \notin refusals
      BY <3>3 DEF LaunchInv
    <3>. QED  BY <2>1, <3>2, <3>4
  <2>3. CASE UNCHANGED vars
    <3>1. status' = status
      BY <2>3 DEF vars, run
    <3>. QED  BY <2>1, <3>1
  <2>4. CASE Started
    BY <2>1, <2>4 DEF Started
  <2>5. \A m, dependencies : Register(m, dependencies) => UNCHANGED vars
    BY DEF Register
  <2>6. BootRefused \/ StoreFails => UNCHANGED vars
    BY DEF BootRefused, StoreFails
  <2>. QED  BY <2>2, <2>3, <2>4, <2>5, <2>6 DEF LaunchNext
<1>2. LaunchSpec => []LaunchInv
  BY LaunchInvariant
<1>. QED  BY <1>1, <1>2, PTL DEF LaunchSpec, BootIsOrdered
=============================================================================
