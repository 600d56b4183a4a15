----------------------------- MODULE Knowledge -----------------------------
(***************************************************************************)
(* Who knows what, computed from the committed events: the records of the  *)
(* ledger, the scenario's rule for what is seen, the social rule for what  *)
(* is told, and the projection that folds both over the whole log.         *)
(*                                                                         *)
(* An event is identified by its position in the log, and a record by the  *)
(* event it stems from (0 for the author's records), its rule and whom it  *)
(* belongs to or how the author named it.                                  *)
(***************************************************************************)
EXTENDS Integers, Sequences, FiniteSets

CONSTANTS Initial,       \* the author's records
          Lookouts,      \* OBSERVABLE_LOCATIONS
          Condition      \* the topic <<BRIDGE_ID, "condition">>

Nobody == <<0, "none", "none">>      \* supersedes_id of a record that corrects none
NoReply == 0

Record(id, actor, topic, value, kind, at) ==
    [id |-> id, actor |-> actor, topic |-> topic, value |-> value, kind |-> kind,
     at |-> at, supersedes |-> Nobody]

\* for_actor
ForActor(records, a) == {r \in records : r.actor = a}

\* query
About(records, topic) == {r \in records : r.topic = topic}

\* The corrections form no cycle: in no set of records is everyone superseded
\* by, and so learned at the same time as, another of the set.
Acyclic(records) ==
    ~\E cycle \in SUBSET records :
        /\ cycle # {}
        /\ \A r \in cycle : \E q \in cycle : q.id = r.supersedes

\* What KnowledgeLedger demands of its records at the time it is built for.
Ledger(records, now) ==
    /\ \A r \in records : r.at <= now
    /\ \A r, q \in records : r.id = q.id => r = q
    /\ \A r \in records : r.supersedes # Nobody =>
        \E q \in records : /\ q.id = r.supersedes
                           /\ q.actor = r.actor /\ q.topic = r.topic
                           /\ q.at <= r.at
    /\ Acyclic({r \in records : r.supersedes # Nobody})
-----------------------------------------------------------------------------
(* project_bridge_knowledge: what the i-th event of a log lets actors see. *)

Collapsed(log, n) == \E i \in 1..n : log[i].type = "BridgeCollapsed"

\* Fault: whoever arrives in sight of the bridge learns that it is down.
LearnersAnytime(log, i) ==
    CASE log[i].type = "BridgeCollapsed" -> log[i].witnesses
      [] log[i].type = "ActorMoved" ->
            IF log[i].destination \in Lookouts THEN {log[i].actor} ELSE {}
      [] OTHER -> {}

Learners(log, i) ==
    CASE log[i].type = "BridgeCollapsed" -> log[i].witnesses
      [] log[i].type = "ActorMoved" ->
            IF Collapsed(log, i - 1) /\ log[i].destination \in Lookouts
            THEN {log[i].actor} ELSE {}
      [] OTHER -> {}

Learned(log, n) == UNION {Learners(log, i) : i \in 1..n}

Seen(log, i) ==
    {Record(<<i, "direct", a>>, a, Condition, "collapsed", "DIRECT_OBSERVATION", log[i].time) :
        a \in Learners(log, i) \ Learned(log, i - 1)}

\* The fold refuses a second collapse, and witnesses who cannot be.
Plausible(log) ==
    \A i, j \in DOMAIN log :
        log[i].type = "BridgeCollapsed" /\ log[j].type = "BridgeCollapsed" => i = j
-----------------------------------------------------------------------------
(* project_informed_knowledge: what the i-th event of a log tells.         *)

\* validate_reply: the reference names a question of the one who is now told,
\* to the one who now tells, about the topic of the claim.
AnswersQuestion(log, before, reply, sender, target, topic) ==
    /\ reply \in 1..before
    /\ log[reply].type = "ActorAsked"
    /\ log[reply].sender = target /\ log[reply].target = sender
    /\ log[reply].topic = topic

\* The sender's record that the event passes on, in the records before it.
Claims(event, records) == {r \in ForActor(records, event.sender) : r.id = event.claim}

Supported(log, i, records) ==
    LET event == log[i] IN
    \E claim \in Claims(event, records) :
        /\ claim.at <= event.time
        /\ event.reply # NoReply =>
             AnswersQuestion(log, i - 1, event.reply, event.sender, event.target, claim.topic)

Heard(log, i, records) ==
    {Record(<<i, "informed", log[i].target>>, log[i].target, claim.topic, claim.value,
            "INFORMED", log[i].time) : claim \in Claims(log[i], records)}
-----------------------------------------------------------------------------
(* KnowledgeProjection                                                     *)

\* The records that the i-th event adds to those of the events before it.
Added(log, i, records) ==
    Seen(log, i) \union
    (IF log[i].type = "ActorInformed" THEN Heard(log, i, records) ELSE {})

\* The complete log is folded each time: a valid flag, since one event that
\* cannot be projected leaves no view at all, and the records.
Rebuild(log) ==
    LET Prefix[n \in 0..Len(log)] ==
            IF n = 0 THEN [valid |-> Plausible(log), records |-> Initial]
            ELSE LET before == Prefix[n - 1]
                     after == before.records \union Added(log, n, before.records)
                 IN  [valid |-> /\ before.valid
                                /\ log[n].type = "ActorInformed"
                                     => Supported(log, n, before.records)
                                /\ Ledger(after, log[n].time),
                      records |-> after]
    IN  Prefix[Len(log)]
=============================================================================
