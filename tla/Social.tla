------------------------------- MODULE Social -------------------------------
(***************************************************************************)
(* The people of Alderwick with the social module: they move, see the      *)
(* bridge collapse, ask, tell and request.  An action takes time, during   *)
(* which the collapse may fall due, and its handler looks at the world     *)
(* again at its end.  A claim may be passed on only by one who held it and *)
(* had been shown it; NPCs take turns in the order of the script, players  *)
(* act in between on any view they were ever given.                        *)
(*                                                                         *)
(* The knowledge of everybody is projected from the complete log at every  *)
(* read; `known' is that projection, carried along event by event.         *)
(***************************************************************************)
EXTENDS Knowledge, SequencesExt

CONSTANTS Actors, Players, Places,
          Home,          \* the place of every actor at the start
          Routes,        \* pairs of an origin and a destination
          Fragile,       \* AFFECTED_ROUTES of the bridge
          Topics,        \* what can be asked about: pairs of a subject and a predicate
          Activations,   \* NPC_ACTIVATIONS
          CollapseAt,    \* the tick of the scheduled collapse
          MaxTime,       \* the horizon
          MaxPlayed      \* actions of players

Traversal == 2           \* traversal_cost of every route
SocialDuration == 1

News == <<Condition, "collapsed">>

ASSUME SocialAssumption ==
    /\ Players \subseteq Actors
    /\ Home \in [Actors -> Places]
    /\ Lookouts \subseteq Places
    /\ Fragile \subseteq Routes /\ Routes \subseteq Places \X Places
    /\ Condition \in Topics
    /\ Activations \in Seq(Actors \ Players)
    /\ CollapseAt \in Nat \ {0} /\ MaxTime \in Nat /\ CollapseAt <= MaxTime
    /\ MaxPlayed \in Nat
    \* The author's records are somebody's, of the start, and know no future.
    /\ \A r \in Initial :
        /\ r.id[1] = 0 /\ r.actor \in Actors /\ r.topic \in Topics /\ r.at = 0
        /\ r.kind = "INITIAL"
        /\ <<r.topic, r.value>> # News
    /\ \A r, q \in Initial :
        /\ r.id = q.id => r = q
        /\ r.actor = q.actor /\ {r.topic[2], q.topic[2]} \subseteq {"npc_return_route", "npc_inquiry"}
             => r = q
    /\ Ledger(Initial, 0)

VARIABLES time, position,
          bridge,        \* the truth about the bridge
          log,           \* the committed events
          known,         \* what the projection of the log yields
          action,        \* the action in progress: its request and its end
          turn,          \* the activations that are over
          played         \* the actions of players

vars == <<time, position, bridge, log, known, action, turn, played>>

Idle == [request |-> "none"]

Init ==
    /\ time = 0
    /\ position = Home
    /\ bridge = "intact"
    /\ log = <<>>
    /\ known = Initial
    /\ action = Idle
    /\ turn = 0 /\ played = 0
-----------------------------------------------------------------------------
(* What an actor is shown: perceive, perceive_social.                      *)

Interactions == {"ActorAsked", "ActorInformed", "ActorRequested"}

Incoming(a) ==
    {i \in DOMAIN log : log[i].type \in Interactions /\ log[i].target = a}

\* Fault: only what was told to the actor counts as an answer.
AnsweredToMe(a) ==
    {log[i].reply : i \in {j \in Incoming(a) : log[j].type = "ActorInformed"}}

\* The questions that an event the actor took part in refers to.
Answered(a) ==
    {log[i].reply : i \in {j \in DOMAIN log :
        log[j].type = "ActorInformed" /\ a \in {log[j].sender, log[j].target}}} \ {NoReply}

\* What an observation made after the first n events showed actor a.
Shown(a, n) ==
    [time |-> IF n = 0 THEN 0 ELSE log[n].time,
     records |-> {r \in ForActor(known, a) : r.id[1] <= n},
     incoming |-> Incoming(a) \intersect 1..n]

View(a) ==
    [actor |-> a, time |-> time, location |-> position[a],
     records |-> ForActor(known, a), incoming |-> Incoming(a), answered |-> Answered(a)]
-----------------------------------------------------------------------------
(* Who may submit what: validate_claim and the handlers' start checks.     *)

Move(a, to) == [type |-> "MOVE", actor |-> a, destination |-> to]
Ask(a, b, topic) == [type |-> "ASK", actor |-> a, target |-> b, topic |-> topic]
Inform(a, b, claim, reply) ==
    [type |-> "INFORM", actor |-> a, target |-> b, claim |-> claim, reply |-> reply]
RequestOf(a, b) == [type |-> "REQUEST", actor |-> a, target |-> b]
Wait(a) == [type |-> "WAIT", actor |-> a]

\* Fault: whatever the view shows may be answered.
EntitledToReply(request, view) ==
    \E claim \in ForActor(known, request.actor) :
        /\ claim.id = request.claim
        /\ claim.at <= time /\ claim.at <= view.time
        /\ claim \in view.records
        /\ request.reply # NoReply => request.reply \in view.incoming

\* validate_claim: the record is the actor's, was in the view, and a reply is
\* to a question in the view that fits it.
Entitled(request, view) ==
    \E claim \in ForActor(known, request.actor) :
        /\ claim.id = request.claim
        /\ claim.at <= time /\ claim.at <= view.time
        /\ claim \in view.records
        /\ request.reply # NoReply =>
             /\ request.reply \in view.incoming
             /\ AnswersQuestion(log, Len(log), request.reply, request.actor,
                                request.target, claim.topic)

Passable(from, to) ==
    <<from, to>> \in Routes /\ (bridge = "intact" \/ <<from, to>> \notin Fragile)

\* What the handler of a request demands of the world, at both of its ends.
Possible(request) ==
    CASE request.type = "MOVE" -> Passable(position[request.actor], request.destination)
      [] request.type = "WAIT" -> TRUE
      [] OTHER -> /\ request.target \in Actors
                  /\ request.actor # request.target
                  /\ position[request.actor] = position[request.target]

Duration(request) == IF request.type = "MOVE" THEN Traversal ELSE SocialDuration

CollapseDue(at) == bridge = "intact" /\ CollapseAt <= at

\* The session and the kernel accept the request: its end is fixed.  What they
\* reject changes nothing.
Accepted(request, view) ==
    /\ Possible(request)
    /\ request.type = "INFORM" => Entitled(request, view)

Start(request) ==
    /\ time + Duration(request) <= MaxTime
    /\ action' = [request |-> request, until |-> time + Duration(request)]
-----------------------------------------------------------------------------
(* SocialNpcController.decide                                              *)

\* The questions in a view that the controller would answer, in order.
Answerable(view) ==
    {i \in view.incoming \ view.answered :
        /\ log[i].type = "ActorAsked"
        /\ Cardinality(About(view.records, log[i].topic)) = 1}

Witnessed(view) == \E r \in view.records : r.kind = "DIRECT_OBSERVATION"

ReturnsBy(r, view) ==
    r.topic = <<view.location, "npc_return_route">> /\ Witnessed(view)

Subject(r) == <<r.topic[1], "condition">>

\* Fault: any claim at all on the subject satisfies the inquiry.
InquiresUnlessTold(r, view) ==
    r.topic[2] = "npc_inquiry" /\ About(view.records, Subject(r)) = {}

Inquires(r, view) ==
    /\ r.topic[2] = "npc_inquiry"
    /\ ~\E q \in About(view.records, Subject(r)) : q.kind = "INFORMED"

\* The order of the records in a view: when learned, then by identity.
Earlier(r, q) == r.at < q.at \/ (r.at = q.at /\ r.id[1] < q.id[1])

Instructions(view) == {r \in view.records : ReturnsBy(r, view) \/ Inquires(r, view)}

\* The first question that has one answer is answered, else the first
\* instruction that applies is followed, else the NPC waits.
Decision(view) ==
    LET a == view.actor
        first == CHOOSE i \in Answerable(view) : \A j \in Answerable(view) : i <= j
        answer == CHOOSE r \in About(view.records, log[first].topic) : TRUE
        r == CHOOSE r \in Instructions(view) :
                \A q \in Instructions(view) \ {r} : ~Earlier(q, r)
    IN  IF Answerable(view) # {} THEN Inform(a, log[first].sender, answer.id, first)
        ELSE IF Instructions(view) = {} THEN Wait(a)
        ELSE IF ReturnsBy(r, view) THEN Move(a, r.value)
        ELSE Ask(a, r.value, Subject(r))

\* An activation: observe, decide, submit.
Turn ==
    /\ action = Idle
    /\ turn < Len(Activations)
    /\ turn' = turn + 1
    /\ \E view \in {View(Activations[turn + 1])} : \E request \in {Decision(view)} :
        IF Accepted(request, view) THEN Start(request) ELSE UNCHANGED action
    /\ UNCHANGED <<time, position, bridge, log, known, played>>

\* What a player may try: any topic, any claim of anybody, any event.
Addressed(a, b) ==
    {RequestOf(a, b)} \union {Ask(a, b, topic) : topic \in Topics}
    \union {Inform(a, b, r.id, i) : r \in known, i \in {NoReply} \union DOMAIN log}

Tries(a) ==
    {Move(a, p) : p \in Places} \union {Wait(a)} \union UNION {Addressed(a, b) : b \in Actors}

\* Observing changes nothing else, and the session goes by any past
\* observation: the player has one of every moment.
Play(a) ==
    /\ action = Idle
    /\ played < MaxPlayed
    /\ \E n \in 0..Len(log), request \in Tries(a) :
        Accepted(request, Shown(a, n)) /\ Start(request)
    /\ played' = played + 1
    /\ UNCHANGED <<time, position, bridge, log, known, turn>>
-----------------------------------------------------------------------------
(* What the kernel commits.                                                *)

Commit(event) ==
    /\ log' = Append(log, event)
    /\ known' = known \union Added(Append(log, event), Len(log) + 1, known)

\* The scheduled collapse: while an action runs, or in the owner's advance
\* before the script begins.
Collapse ==
    /\ bridge = "intact"
    /\ IF action = Idle THEN turn = 0 /\ played = 0 ELSE CollapseAt <= action.until
    /\ time' = CollapseAt
    /\ bridge' = "collapsed"
    /\ Commit([type |-> "BridgeCollapsed", time |-> CollapseAt,
               witnesses |-> {a \in Actors : position[a] \in Lookouts}])
    /\ UNCHANGED <<position, action, turn, played>>

\* The event of a request, if it has one, with the sender and the topic or the
\* claim the request names.
Emitted(request) ==
    CASE request.type = "MOVE" ->
            [type |-> "ActorMoved", time |-> action.until, actor |-> request.actor,
             destination |-> request.destination]
      [] request.type = "ASK" ->
            [type |-> "ActorAsked", time |-> action.until, sender |-> request.actor,
             target |-> request.target, topic |-> request.topic]
      [] request.type = "INFORM" ->
            [type |-> "ActorInformed", time |-> action.until, sender |-> request.actor,
             target |-> request.target, claim |-> request.claim, reply |-> request.reply]
      [] request.type = "REQUEST" ->
            [type |-> "ActorRequested", time |-> action.until, sender |-> request.actor,
             target |-> request.target]

AtCompletion == action # Idle /\ ~CollapseDue(action.until)

Complete ==
    /\ AtCompletion
    /\ Possible(action.request)
    /\ time' = action.until
    /\ position' = IF action.request.type = "MOVE"
                   THEN [position EXCEPT ![action.request.actor] = action.request.destination]
                   ELSE position
    /\ IF action.request.type = "WAIT" THEN UNCHANGED <<log, known>>
       ELSE Commit(Emitted(action.request))
    /\ action' = Idle
    /\ UNCHANGED <<bridge, turn, played>>

\* FAILED: the time is spent and nothing is said.
Fail ==
    /\ AtCompletion
    /\ ~Possible(action.request)
    /\ time' = action.until
    /\ action' = Idle
    /\ UNCHANGED <<position, bridge, log, known, turn, played>>

Next ==
    \/ Turn \/ Collapse \/ Complete \/ Fail
    \/ \E a \in Players : Play(a)

\* One caller goes through the script: a call of the kernel that has begun
\* returns, and the next activation follows.
Fairness == WF_vars(Turn \/ Complete \/ Fail \/ (action # Idle /\ Collapse))

Spec == Init /\ [][Next]_vars /\ Fairness
-----------------------------------------------------------------------------
(* Properties                                                              *)

Types == Interactions \union {"BridgeCollapsed", "ActorMoved"}

TypeOK ==
    /\ time \in 0..MaxTime
    /\ position \in [Actors -> Places]
    /\ bridge \in {"intact", "collapsed"}
    /\ \A i \in DOMAIN log : log[i].type \in Types /\ log[i].time \in 0..time
    /\ \A r \in known : r.actor \in Actors /\ r.at \in 0..time /\ r.id[1] \in 0..Len(log)
    /\ action = Idle \/ (action.until \in time..MaxTime /\ action.request.actor \in Actors)
    /\ turn \in 0..Len(Activations) /\ played \in 0..MaxPlayed

\* Knowledge is rebuilt from the whole log at every read, and one event that
\* does not fit would leave everybody without a view for good.  Whatever the
\* session let through, the rebuild succeeds, and it changes nothing that the
\* events before the last one had yielded.
RebuildsAlike == Rebuild(log) = [valid |-> TRUE, records |-> known]

\* An NPC that is shown only the present answers a question no second time,
\* in spite of remembering nothing from turn to turn.
AnsweredOnce ==
    \A i, j \in DOMAIN log :
        /\ log[i].type = "ActorInformed" /\ log[j].type = "ActorInformed"
        /\ log[i].sender \notin Players /\ log[i].sender = log[j].sender
        /\ log[i].reply # NoReply /\ log[i].reply = log[j].reply
        => i = j

\* The question that an actor would answer first is by somebody who is not there.
HeldUp(a) ==
    LET open == Answerable(View(a)) IN
    \E i \in open : (\A j \in open : i <= j) /\ position[log[i].sender] # position[a]

\* An inquiry comes to an end: the one who was sent to ask is told, unless the
\* one to be asked has heard so many claims that it abstains, or one of the two
\* keeps answering somebody who has left.
InquiryEnds ==
    \A r \in {r \in Initial : r.topic[2] = "npc_inquiry"} :
        LET Holds(a) == About(ForActor(known, a), Subject(r)) IN
        <>[](\/ \E q \in Holds(r.actor) : q.kind = "INFORMED"
             \/ Cardinality(Holds(r.value)) > 1
             \/ HeldUp(r.actor) \/ HeldUp(r.value))

\* What an actor has heard of, whatever it stems from.
Claimed(records, a) == {<<r.topic, r.value>> : r \in ForActor(records, a)}

\* Nobody holds the news of something that has not happened, however many
\* times it was passed on.
NewsIsTrue ==
    \A a \in Actors : News \in Claimed(known, a) => bridge = "collapsed"

\* Whatever is held can be traced back, event by event and always to an earlier
\* one, to what somebody saw or was given by the author.
Traceable ==
    \A r \in known : r \in Initial \/
        LET source == log[r.id[1]] IN
        /\ r.id[1] \in DOMAIN log
        /\ \/ r.kind = "DIRECT_OBSERVATION" /\ r.actor \in Learners(log, r.id[1])
           \/ /\ r.kind = "INFORMED" /\ source.type = "ActorInformed" /\ source.target = r.actor
              /\ \E q \in ForActor(known, source.sender) :
                    /\ q.id = source.claim /\ q.id[1] < r.id[1]
                    /\ q.topic = r.topic /\ q.value = r.value

\* News travels by sight and by word of mouth between two at one place, and by
\* nothing else.
Gossip ==
    INSTANCE Hearsay WITH
        place <- position,
        happened <- bridge = "collapsed",
        holds <- [a \in Actors |-> Claimed(known, a)],
        Told <- [a \in Actors |-> Claimed(Initial, a)]

ImplementsHearsay == Gossip!Spec
=============================================================================
