------------------------------ MODULE Timeline ------------------------------
(***************************************************************************)
(* What the simulation kernel promises, with the machinery of calls,       *)
(* callbacks and failures left out: a discrete-event timeline.  Time never *)
(* moves back and never passes a pending input; a pending input is         *)
(* consumed by exactly one transition, the earliest first, at its own due  *)
(* time; an action is one transition at the present time; transitions are  *)
(* numbered without gaps.  Kernel.tla implements this specification.       *)
(***************************************************************************)
EXTENDS Integers

CONSTANTS StartTime,     \* the logical time a run starts at
          MaxTime,       \* the horizon of the modelled runs
          Priorities,    \* the priorities scheduled inputs may have
          Requests       \* the identities of action requests

VARIABLES time,          \* the committed logical time
          pending,       \* scheduled inputs not yet consumed
          inserted,      \* how many inputs were ever scheduled
          committed,     \* how many transitions have committed
          ledger         \* the identities of the committed transitions

vars == <<time, pending, inserted, committed, ledger>>

Times == 0..MaxTime

\* The complete ordering key of a scheduled input: due time, then priority,
\* then insertion; no two inputs share an insertion number.
Before(a, b) ==
    \/ a.due < b.due
    \/ a.due = b.due /\ a.priority < b.priority
    \/ a.due = b.due /\ a.priority = b.priority /\ a.insertion < b.insertion

Identity(n, t, k, ref) ==
    [sequence |-> n, time |-> t, kind |-> k, source |-> ref]

Commit(t, k, ref) ==
    /\ committed' = committed + 1
    /\ ledger' = ledger \union {Identity(committed + 1, t, k, ref)}

Init ==
    /\ time = StartTime
    /\ pending = {}
    /\ inserted = 0
    /\ committed = 0
    /\ ledger = {}

Schedule ==
    \E due \in Times, p \in Priorities :
        /\ time <= due
        /\ pending' = pending \union
                        {[due |-> due, priority |-> p, insertion |-> inserted]}
        /\ inserted' = inserted + 1
        /\ UNCHANGED <<time, committed, ledger>>

\* Idle time passes only over instants at which nothing is due.
Elapse ==
    /\ \E t \in Times :
        /\ time < t
        /\ \A e \in pending : t < e.due
        /\ time' = t
    /\ UNCHANGED <<pending, inserted, committed, ledger>>

Execute ==
    \E e \in pending :
        /\ \A other \in pending \ {e} : Before(e, other)
        /\ time <= e.due
        /\ time' = e.due
        /\ pending' = pending \ {e}
        /\ Commit(e.due, "SCHEDULED_EVENT", e.insertion)
        /\ UNCHANGED inserted

Act ==
    /\ \E r \in Requests : Commit(time, "ACTION", r)
    /\ UNCHANGED <<time, pending, inserted>>

Next == Schedule \/ Elapse \/ Execute \/ Act

Spec == Init /\ [][Next]_vars
=============================================================================
