---------------------------- MODULE SocialProofs ----------------------------
(***************************************************************************)
(* Theorems about who knows what, for every set of actors and places,      *)
(* every script, every author's records and any number of player actions:  *)
(* how news spreads, what it goes back to, what the NPCs answer, and that   *)
(* the log can always be projected again.                                  *)
(***************************************************************************)
EXTENDS Social, WellFoundedInduction, TLAPS

Elements(s) == {s[i] : i \in DOMAIN s}
IsSequence(s) == s \in Seq(Elements(s))

Requests == {"MOVE", "ASK", "INFORM", "REQUEST", "WAIT"}

\* A record is known by its identity.
Identified == \A r, q \in known : r.id = q.id => r = q

\* The truth about the bridge is what the log says, and its time has come.
BridgeTold ==
    /\ bridge = "collapsed" <=> Collapsed(log, Len(log))
    /\ bridge = "intact" => time < CollapseAt

\* Who saw it has not forgotten.
LearnedHold == \A a \in Learned(log, Len(log)) : News \in Claimed(known, a)

\* What is being told is held by the one who tells it.
Authorized ==
    action # Idle =>
        /\ action.request.type \in Requests
        /\ action.request.type = "INFORM" =>
             \E claim \in ForActor(known, action.request.actor) : claim.id = action.request.claim

Inv ==
    /\ IsSequence(log)
    /\ TypeOK
    /\ Identified
    /\ BridgeTold
    /\ LearnedHold
    /\ Authorized
    /\ NewsIsTrue

-----------------------------------------------------------------------------
\* Appending keeps what was there.
LEMMA Appended ==
    ASSUME NEW s, IsSequence(s), NEW e
    PROVE  /\ IsSequence(Append(s, e))
           /\ Len(s) \in Nat /\ Len(Append(s, e)) = Len(s) + 1
           /\ DOMAIN s = 1..Len(s) /\ DOMAIN Append(s, e) = 1..(Len(s) + 1)
           /\ \A i \in 1..Len(s) : Append(s, e)[i] = s[i]
           /\ Append(s, e)[Len(s) + 1] = e
<1>. DEFINE S == Elements(s)
            a == Append(s, e)
            T == Elements(a)
<1>1. s \in Seq(S)
  BY DEF IsSequence
<1>. HIDE DEF S
<1>2. /\ Len(s) \in Nat /\ DOMAIN s = 1..Len(s)
      /\ Len(a) = Len(s) + 1 /\ DOMAIN a = 1..(Len(s) + 1)
      /\ \A i \in 1..Len(s) : a[i] = s[i]
      /\ a[Len(s) + 1] = e
      /\ a \in Seq(S \union {e})
  BY <1>1
<1>. HIDE DEF a
<1>3. a \in Seq(T)
  <2>1. \A i \in 1..Len(a) : a[i] \in T
    BY <1>2 DEF T, Elements
  <2>. HIDE DEF T
  <2>. QED  BY <1>2, <2>1
<1>. QED  BY <1>2, <1>3 DEF IsSequence, a, T

\* A later event changes nothing of what the events before it let people see.
LEMMA SightStable ==
    ASSUME NEW s, IsSequence(s), NEW e
    PROVE  /\ \A i \in 1..Len(s) : Learners(Append(s, e), i) = Learners(s, i)
           /\ \A n \in 0..Len(s) : /\ Collapsed(Append(s, e), n) = Collapsed(s, n)
                                   /\ Learned(Append(s, e), n) = Learned(s, n)
<1>. DEFINE t == Append(s, e)
<1>1. Len(s) \in Nat /\ \A i \in 1..Len(s) : t[i] = s[i]
  BY Appended
<1>. HIDE DEF t
<1>2. \A n \in 0..Len(s) : Collapsed(t, n) = Collapsed(s, n)
  BY <1>1 DEF Collapsed
<1>3. ASSUME NEW i \in 1..Len(s)  PROVE Learners(t, i) = Learners(s, i)
  <2>1. t[i] = s[i]
    BY <1>1
  <2>2. Collapsed(t, i - 1) = Collapsed(s, i - 1)
    BY <1>1, <1>2
  <2>. QED  BY <2>1, <2>2 DEF Learners
<1>4. ASSUME NEW n \in 0..Len(s)  PROVE Learned(t, n) = Learned(s, n)
  <2>1. \A i \in 1..n : Learners(t, i) = Learners(s, i)
    BY <1>1, <1>3
  <2>. QED  BY <2>1 DEF Learned
<1>. QED  BY <1>2, <1>3, <1>4 DEF t

\* What the last event of a log lets people see.
LEMMA LastSeen ==
    ASSUME NEW s, IsSequence(s), NEW e
    PROVE  LET t == Append(s, e)
               n == Len(s) + 1
           IN  /\ e.type = "BridgeCollapsed" => Learners(t, n) = e.witnesses
               /\ e.type = "ActorMoved" =>
                    Learners(t, n) = IF Collapsed(s, Len(s)) /\ e.destination \in Lookouts
                                     THEN {e.actor} ELSE {}
               /\ e.type \in Interactions => Learners(t, n) = {}
               /\ Learned(t, n) = Learned(s, Len(s)) \union Learners(t, n)
               /\ Collapsed(t, n) <=> Collapsed(s, Len(s)) \/ e.type = "BridgeCollapsed"
<1>. DEFINE t == Append(s, e)
            n == Len(s) + 1
<1>1. /\ Len(s) \in Nat /\ \A i \in 1..Len(s) : t[i] = s[i]
      /\ t[n] = e
  BY Appended
<1>2. /\ \A i \in 1..Len(s) : Learners(t, i) = Learners(s, i)
      /\ Collapsed(t, Len(s)) = Collapsed(s, Len(s))
      /\ Learned(t, Len(s)) = Learned(s, Len(s))
  BY <1>1, SightStable
<1>. HIDE DEF t
<1>3. n - 1 = Len(s) /\ 1..n = 1..Len(s) \union {n}
  BY <1>1
<1>. HIDE DEF n
<1>4. /\ e.type = "BridgeCollapsed" => Learners(t, n) = e.witnesses
      /\ e.type = "ActorMoved" =>
           Learners(t, n) = IF Collapsed(s, Len(s)) /\ e.destination \in Lookouts
                            THEN {e.actor} ELSE {}
      /\ e.type \in Interactions => Learners(t, n) = {}
  BY <1>1, <1>2, <1>3 DEF Learners, Interactions
<1>5. Learned(t, n) = Learned(s, Len(s)) \union Learners(t, n)
  <2>1. Learned(t, n) = Learned(t, Len(s)) \union Learners(t, n)
    BY <1>3 DEF Learned
  <2>. QED  BY <2>1, <1>2
<1>6. Collapsed(t, n) <=> Collapsed(s, Len(s)) \/ e.type = "BridgeCollapsed"
  <2>1. Collapsed(t, n) <=> Collapsed(t, Len(s)) \/ t[n].type = "BridgeCollapsed"
    BY <1>3 DEF Collapsed
  <2>. QED  BY <2>1, <1>1, <1>2
<1>. QED  BY <1>4, <1>5, <1>6 DEF t, n

\* What the records say that the last event of a log adds.
DirectOf(n, a, at) ==
    Record(<<n, "direct", a>>, a, Condition, "collapsed", "DIRECT_OBSERVATION", at)
ToldOf(n, b, c, at) == Record(<<n, "informed", b>>, b, c.topic, c.value, "INFORMED", at)

Sights(s, e) ==
    {DirectOf(Len(s) + 1, a, e.time) :
        a \in Learners(Append(s, e), Len(s) + 1) \ Learned(s, Len(s))}
Tellings(s, e, records) ==
    IF e.type = "ActorInformed"
    THEN {ToldOf(Len(s) + 1, e.target, c, e.time) : c \in Claims(e, records)} ELSE {}

\* The records that the last event of a log adds.
LEMMA LastAdded ==
    ASSUME NEW s, IsSequence(s), NEW e, NEW records
    PROVE  Added(Append(s, e), Len(s) + 1, records) = Sights(s, e) \union Tellings(s, e, records)
<1>. DEFINE t == Append(s, e)
            n == Len(s) + 1
<1>1. Len(s) \in Nat /\ t[n] = e /\ Learned(t, Len(s)) = Learned(s, Len(s))
  BY Appended, SightStable
<1>. HIDE DEF t
<1>2. n - 1 = Len(s)
  BY <1>1
<1>. HIDE DEF n
<1>3. Seen(t, n) = {DirectOf(n, a, e.time) : a \in Learners(t, n) \ Learned(s, Len(s))}
  BY <1>1, <1>2 DEF Seen, DirectOf
<1>4. Heard(t, n, records) = {ToldOf(n, e.target, c, e.time) : c \in Claims(e, records)}
  BY <1>1 DEF Heard, ToldOf
<1>5. Added(t, n, records) =
        Seen(t, n) \union (IF e.type = "ActorInformed" THEN Heard(t, n, records) ELSE {})
  BY <1>1 DEF Added
<1>. QED  BY <1>3, <1>4, <1>5 DEF Sights, Tellings, t, n

-----------------------------------------------------------------------------
\* The script and the players submit requests of one of five kinds, and tell
\* only what they hold.
LEMMA Decided ==
    ASSUME NEW a  PROVE Decision(View(a)).actor = a /\ Decision(View(a)).type \in Requests
BY DEF Decision, View, Inform, Wait, Move, Ask, Requests

LEMMA Tried ==
    ASSUME NEW a, NEW request \in Tries(a)
    PROVE  request.actor = a /\ request.type \in Requests
<1>1. CASE request \in {Move(a, p) : p \in Places} \union {Wait(a)}
  BY <1>1 DEF Wait, Move, Requests
<1>2. ASSUME NEW b \in Actors, request \in Addressed(a, b)
      PROVE  request.actor = a /\ request.type \in Requests
  <2>1. CASE request \in {RequestOf(a, b)} \union {Ask(a, b, topic) : topic \in Topics}
    BY <2>1 DEF Ask, RequestOf, Requests
  <2>2. CASE request \in {Inform(a, b, r.id, i) : r \in known, i \in {NoReply} \union DOMAIN log}
    <3>1. PICK r \in known, i \in {NoReply} \union DOMAIN log : request = Inform(a, b, r.id, i)
      BY <2>2
    <3>. QED  BY <3>1 DEF Inform, Requests
  <2>. QED  BY <1>2, <2>1, <2>2 DEF Addressed
<1>. QED  BY <1>1, <1>2 DEF Tries

-----------------------------------------------------------------------------
\* An event that is seen adds the news, for those who had not learned it before.
LEMMA SightAdds ==
    ASSUME IsSequence(log), LearnedHold, NEW e, Commit(e),
           e.type \in {"BridgeCollapsed", "ActorMoved"}
    PROVE  LET n == Len(log) + 1
               fresh == Learners(log', n) \ Learned(log, Len(log))
           IN  /\ known' = known \union {DirectOf(n, a, e.time) : a \in fresh}
               /\ \A a : Claimed(known', a) = IF a \in Learners(log', n)
                                              THEN Claimed(known, a) \union {News}
                                              ELSE Claimed(known, a)
<1>. DEFINE n == Len(log) + 1
            seen == Learners(log', n)
            before == Learned(log, Len(log))
            new == {DirectOf(n, a, e.time) : a \in seen \ before}
<1>1. known' = known \union new
  <2>1. Added(log', n, known) = Sights(log, e) \union Tellings(log, e, known)
    BY LastAdded DEF Commit
  <2>2. Sights(log, e) = new
    BY DEF Sights, Commit
  <2>3. Tellings(log, e, known) = {}
    BY DEF Tellings
  <2>. QED  BY <2>1, <2>2, <2>3 DEF Commit
<1>2. ASSUME NEW a  PROVE ForActor(known', a) = ForActor(known, a) \union
                             (IF a \in seen \ before THEN {DirectOf(n, a, e.time)} ELSE {})
  <2>1. \A b : DirectOf(n, b, e.time).actor = b
    BY DEF DirectOf, Record
  <2>. HIDE DEF seen, before, n
  <2>. QED  BY <1>1, <2>1 DEF ForActor
<1>3. ASSUME NEW a  PROVE <<DirectOf(n, a, e.time).topic, DirectOf(n, a, e.time).value>> = News
  BY DEF DirectOf, Record, News
<1>. HIDE DEF seen, n
<1>4. ASSUME NEW a  PROVE Claimed(known', a) = IF a \in seen THEN Claimed(known, a) \union {News}
                                               ELSE Claimed(known, a)
  <2>1. CASE a \in seen \ before
    BY <1>2, <1>3, <2>1 DEF Claimed
  <2>2. CASE a \notin seen \ before
    <3>1. Claimed(known', a) = Claimed(known, a)
      BY <1>2, <2>2 DEF Claimed
    <3>2. a \in before => News \in Claimed(known, a)
      BY DEF LearnedHold, before
    <3>. QED  BY <2>2, <3>1, <3>2
  <2>. QED  BY <2>1, <2>2
<1>. QED  BY <1>1, <1>4 DEF seen, n

\* Asking and requesting tell nobody anything.
LEMMA AskingAdds ==
    ASSUME IsSequence(log), NEW e, Commit(e), e.type \in {"ActorAsked", "ActorRequested"}
    PROVE  known' = known
<1>1. Learners(log', Len(log) + 1) = {}
  BY LastSeen DEF Commit, Interactions
<1>2. known' = known \union Added(log', Len(log) + 1, known)
  BY DEF Commit
<1>3. Added(log', Len(log) + 1, known) = {}
  <2>1. Added(log', Len(log) + 1, known) = Sights(log, e) \union Tellings(log, e, known)
    BY LastAdded DEF Commit
  <2>2. Sights(log, e) = {}
    BY <1>1 DEF Sights, Commit
  <2>3. Tellings(log, e, known) = {}
    BY DEF Tellings
  <2>. QED  BY <2>1, <2>2, <2>3
<1>. QED  BY <1>2, <1>3

\* Telling adds the claim, for the one who is told.
LEMMA TellingAdds ==
    ASSUME IsSequence(log), Identified, NEW e, Commit(e), e.type = "ActorInformed",
           NEW c \in ForActor(known, e.sender), c.id = e.claim
    PROVE  LET n == Len(log) + 1 IN
           /\ known' = known \union {ToldOf(n, e.target, c, e.time)}
           /\ \A a : Claimed(known', a) = IF a = e.target
                                          THEN Claimed(known, a) \union {<<c.topic, c.value>>}
                                          ELSE Claimed(known, a)
<1>. DEFINE n == Len(log) + 1
            new == ToldOf(n, e.target, c, e.time)
<1>1. Learners(log', n) = {}
  BY LastSeen DEF Commit, Interactions
<1>2. Claims(e, known) = {c}
  BY DEF Claims, ForActor, Identified
<1>3. known' = known \union Added(log', n, known)
  BY DEF Commit
<1>4. Added(log', n, known) = {new}
  <2>1. Added(log', n, known) = Sights(log, e) \union Tellings(log, e, known)
    BY LastAdded DEF Commit
  <2>2. Sights(log, e) = {}
    BY <1>1 DEF Sights, Commit
  <2>3. Tellings(log, e, known) = {new}
    BY <1>2 DEF Tellings
  <2>. QED  BY <2>1, <2>2, <2>3
<1>5. new.actor = e.target /\ new.topic = c.topic /\ new.value = c.value
  BY DEF ToldOf, Record
<1>. HIDE DEF new
<1>6. known' = known \union {new}
  BY <1>3, <1>4
<1>7. ASSUME NEW a  PROVE Claimed(known', a) = IF a = e.target
                                               THEN Claimed(known, a) \union {<<c.topic, c.value>>}
                                               ELSE Claimed(known, a)
  <2>1. ForActor(known', a) = ForActor(known, a) \union (IF a = e.target THEN {new} ELSE {})
    BY <1>5, <1>6 DEF ForActor
  <2>. QED  BY <1>5, <2>1 DEF Claimed
<1>. QED  BY <1>6, <1>7 DEF new

-----------------------------------------------------------------------------
\* A request that starts is one of somebody and ends within the horizon.
LEMMA Started ==
    ASSUME TypeOK, NEW request, request.actor \in Actors, request.type \in Requests,
           NEW view, Accepted(request, view), Start(request), UNCHANGED known
    PROVE  /\ action'.until \in time..MaxTime
           /\ action'.request.actor \in Actors
           /\ Authorized'
<1>1. action' = [request |-> request, until |-> time + Duration(request)]
      /\ time + Duration(request) <= MaxTime
  BY DEF Start
<1>2. Duration(request) \in Nat
  BY DEF Duration, Traversal, SocialDuration
<1>3. time \in Nat /\ MaxTime \in Nat
  BY SocialAssumption DEF TypeOK
<1>4. action'.until \in time..MaxTime
  BY <1>1, <1>2, <1>3
<1>5. request.type = "INFORM" => \E claim \in ForActor(known, request.actor) : claim.id = request.claim
  BY DEF Accepted, Entitled
<1>. QED  BY <1>1, <1>4, <1>5 DEF Authorized

\* New records keep identities apart.
LEMMA StillIdentified ==
    ASSUME IsSequence(log), TypeOK, Identified, NEW new, known' = known \union new,
           \A r \in new : r.id[1] = Len(log) + 1,
           \A r, q \in new : r.id = q.id => r = q
    PROVE  Identified'
<1>1. Len(log) \in Nat
  BY Appended
<1>2. \A r \in known, q \in new : r.id # q.id
  BY <1>1 DEF TypeOK
<1>. QED  BY <1>2 DEF Identified

\* What an event at a later time leaves of the types.
LEMMA StillTyped ==
    ASSUME IsSequence(log), TypeOK, NEW e, Commit(e), e.type \in Types,
           time' = e.time, e.time \in time..MaxTime,
           NEW new, known' = known \union new,
           \A r \in new : r.actor \in Actors /\ r.at = e.time /\ r.id[1] = Len(log) + 1
    PROVE  /\ IsSequence(log)'
           /\ (\A i \in DOMAIN log : log[i].type \in Types /\ log[i].time \in 0..time)'
           /\ (\A r \in known : r.actor \in Actors /\ r.at \in 0..time /\ r.id[1] \in 0..Len(log))'
<1>1. log' = Append(log, e)
  BY DEF Commit
<1>2. /\ IsSequence(log') /\ Len(log) \in Nat /\ Len(log') = Len(log) + 1
      /\ DOMAIN log = 1..Len(log) /\ DOMAIN log' = 1..(Len(log) + 1)
      /\ \A i \in 1..Len(log) : log'[i] = log[i]
      /\ log'[Len(log) + 1] = e
  BY <1>1, Appended
<1>3. time \in Nat /\ MaxTime \in Nat /\ time' \in Nat /\ time <= time'
  BY SocialAssumption DEF TypeOK
<1>4. ASSUME NEW i \in DOMAIN log'  PROVE log'[i].type \in Types /\ log'[i].time \in 0..time'
  <2>1. CASE i = Len(log) + 1
    BY <1>2, <1>3, <2>1
  <2>2. CASE i \in 1..Len(log)
    <3>1. log[i].type \in Types /\ log[i].time \in 0..time
      BY <1>2, <2>2 DEF TypeOK
    <3>. QED  BY <1>2, <1>3, <2>2, <3>1
  <2>. QED  BY <1>2, <2>1, <2>2
<1>5. ASSUME NEW r \in known'
      PROVE  r.actor \in Actors /\ r.at \in 0..time' /\ r.id[1] \in 0..Len(log')
  <2>1. CASE r \in known
    <3>1. r.actor \in Actors /\ r.at \in 0..time /\ r.id[1] \in 0..Len(log)
      BY <2>1 DEF TypeOK
    <3>. QED  BY <1>2, <1>3, <3>1
  <2>2. CASE r \in new
    BY <1>2, <1>3, <2>2
  <2>. QED  BY <2>1, <2>2
<1>. QED  BY <1>2, <1>4, <1>5

\* The fields of a record of what was seen.
LEMMA FieldsOfDirect ==
    ASSUME NEW n, NEW a, NEW at
    PROVE  /\ DirectOf(n, a, at).id = <<n, "direct", a>> /\ DirectOf(n, a, at).actor = a
           /\ DirectOf(n, a, at).at = at
BY DEF DirectOf, Record

\* The fields of a record of what was told.
LEMMA FieldsOfTold ==
    ASSUME NEW n, NEW b, NEW c, NEW at
    PROVE  /\ ToldOf(n, b, c, at).id = <<n, "informed", b>> /\ ToldOf(n, b, c, at).actor = b
           /\ ToldOf(n, b, c, at).at = at
BY DEF ToldOf, Record

-----------------------------------------------------------------------------
(* The invariant, action by action.                                        *)

LEMMA InitInv == Init => Inv
<1>. SUFFICES ASSUME Init  PROVE Inv
  OBVIOUS
<1>. USE SocialAssumption DEF Init
<1>1. log = <<>> /\ Len(log) = 0 /\ DOMAIN log = {} /\ IsSequence(log)
  BY DEF IsSequence, Elements
<1>2. ~Collapsed(log, Len(log)) /\ Learned(log, Len(log)) = {}
  BY <1>1 DEF Collapsed, Learned
<1>3. TypeOK
  <2>1. \A r \in known : r.actor \in Actors /\ r.at \in 0..time /\ r.id[1] \in 0..Len(log)
    BY <1>1
  <2>. QED  BY <1>1, <2>1 DEF TypeOK
<1>4. Identified
  BY DEF Identified
<1>5. BridgeTold /\ LearnedHold /\ Authorized
  BY <1>2 DEF BridgeTold, LearnedHold, Authorized
<1>6. NewsIsTrue
  BY DEF NewsIsTrue, Claimed, ForActor
<1>. QED  BY <1>1, <1>3, <1>4, <1>5, <1>6 DEF Inv

\* An activation leaves the world, the log and the knowledge alone.
LEMMA TurnInv == ASSUME Inv, Turn  PROVE Inv'
<1>. USE DEF Inv, Turn
<1>1. Activations[turn + 1] \in Actors /\ turn' \in 0..Len(Activations)
  BY SocialAssumption DEF TypeOK
<1>2. PICK view \in {View(Activations[turn + 1])} : \E request \in {Decision(view)} :
        IF Accepted(request, view) THEN Start(request) ELSE UNCHANGED action
  OBVIOUS
<1>. DEFINE request == Decision(view)
<1>3. request.actor \in Actors /\ request.type \in Requests
  BY <1>1, <1>2, Decided
<1>4. IF Accepted(request, view) THEN Start(request) ELSE UNCHANGED action
  BY <1>2
<1>. HIDE DEF request
<1>5. /\ action' = Idle \/ (action'.until \in time..MaxTime /\ action'.request.actor \in Actors)
      /\ Authorized'
  <2>1. CASE Accepted(request, view)
    BY <1>3, <1>4, <2>1, Started
  <2>2. CASE ~Accepted(request, view)
    BY <1>4, <2>2 DEF TypeOK, Authorized
  <2>. QED  BY <2>1, <2>2
<1>6. TypeOK'
  BY <1>1, <1>5 DEF TypeOK
<1>. QED  BY <1>5, <1>6 DEF Identified, BridgeTold, LearnedHold, NewsIsTrue

\* So does a player's submission.
LEMMA PlayInv == ASSUME Inv, NEW a \in Players, Play(a)  PROVE Inv'
<1>. USE DEF Inv, Play
<1>1. PICK n \in 0..Len(log), request \in Tries(a) :
        Accepted(request, Shown(a, n)) /\ Start(request)
  OBVIOUS
<1>2. a \in Actors /\ request.actor \in Actors /\ request.type \in Requests
  BY <1>1, Tried, SocialAssumption
<1>3. action'.until \in time..MaxTime /\ action'.request.actor \in Actors /\ Authorized'
  BY <1>1, <1>2, Started
<1>4. played' \in 0..MaxPlayed
  BY SocialAssumption DEF TypeOK
<1>5. TypeOK'
  BY <1>3, <1>4 DEF TypeOK
<1>. QED  BY <1>3, <1>5 DEF Identified, BridgeTold, LearnedHold, NewsIsTrue

\* A failure costs time, not more than the collapse leaves.
LEMMA FailInv == ASSUME Inv, Fail  PROVE Inv'
<1>. USE DEF Inv, Fail
<1>1. action # Idle /\ time' \in time..MaxTime /\ ~CollapseDue(time')
  BY DEF AtCompletion, TypeOK
<1>2. time \in Nat /\ MaxTime \in Nat /\ CollapseAt \in Nat /\ time' \in Nat /\ time <= time'
  BY <1>1, SocialAssumption DEF TypeOK
<1>3. TypeOK'
  <2>1. \A i \in DOMAIN log' : log'[i].type \in Types /\ log'[i].time \in 0..time'
    BY <1>2 DEF TypeOK
  <2>2. \A r \in known' : r.actor \in Actors /\ r.at \in 0..time' /\ r.id[1] \in 0..Len(log')
    BY <1>2 DEF TypeOK
  <2>. QED  BY <1>1, <1>2, <2>1, <2>2 DEF TypeOK
<1>4. BridgeTold'
  BY <1>1, <1>2 DEF BridgeTold, CollapseDue
<1>. QED  BY <1>3, <1>4 DEF Identified, LearnedHold, NewsIsTrue, Authorized

\* The collapse is seen by those in sight and by nobody else.
LEMMA CollapseInv == ASSUME Inv, Collapse  PROVE Inv'
<1>. USE DEF Inv, Collapse
<1>. DEFINE n == Len(log) + 1
            e == [type |-> "BridgeCollapsed", time |-> CollapseAt,
                  witnesses |-> {a \in Actors : position[a] \in Lookouts}]
            new == {DirectOf(n, a, e.time) : a \in Learners(log', n) \ Learned(log, Len(log))}
<1>1. Commit(e) /\ e.type = "BridgeCollapsed" /\ e.time = CollapseAt /\ time' = e.time
      /\ e.witnesses \subseteq Actors
  OBVIOUS
<1>. HIDE DEF e
<1>2. Learners(log', n) = e.witnesses
  BY <1>1, LastSeen DEF Commit
<1>3. Learned(log', n) = Learned(log, Len(log)) \union Learners(log', n) /\ Collapsed(log', n)
  BY <1>1, LastSeen DEF Commit
<1>4. Len(log') = n /\ Len(log) \in Nat
  BY <1>1, Appended DEF Commit
<1>5. known' = known \union new
  BY <1>1, SightAdds
<1>6. \A a : Claimed(known', a) = IF a \in Learners(log', n) THEN Claimed(known, a) \union {News}
                                  ELSE Claimed(known, a)
  BY <1>1, SightAdds
<1>7. /\ \A r \in new : r.actor \in Actors /\ r.at = e.time /\ r.id[1] = Len(log) + 1
      /\ \A r, q \in new : r.id = q.id => r = q
  <2>1. \A r \in new : \E a \in Actors : r = DirectOf(n, a, e.time)
    BY <1>1, <1>2
  <2>2. \A a : DirectOf(n, a, e.time).id = <<n, "direct", a>>
               /\ DirectOf(n, a, e.time).actor = a /\ DirectOf(n, a, e.time).at = e.time
    BY FieldsOfDirect
  <2>. HIDE DEF new
  <2>3. \A r \in new : r.actor \in Actors /\ r.at = e.time /\ r.id[1] = n
    BY <2>1, <2>2
  <2>4. ASSUME NEW r \in new, NEW q \in new, r.id = q.id  PROVE r = q
    <3>1. PICK a \in Actors : r = DirectOf(n, a, e.time)
      BY <2>1
    <3>2. PICK b \in Actors : q = DirectOf(n, b, e.time)
      BY <2>1
    <3>3. <<n, "direct", a>> = <<n, "direct", b>>
      BY <2>2, <2>4, <3>1, <3>2
    <3>. QED  BY <3>1, <3>2, <3>3
  <2>. QED  BY <2>3, <2>4
<1>. HIDE DEF new
<1>8. e.time \in time..MaxTime /\ (action = Idle \/ action.until \in time'..MaxTime)
  <2>1. time < CollapseAt /\ time \in Nat /\ CollapseAt \in Nat /\ CollapseAt <= MaxTime
        /\ MaxTime \in Nat
    BY SocialAssumption DEF BridgeTold, TypeOK
  <2>2. action # Idle => action.until \in time..MaxTime /\ CollapseAt <= action.until
    BY DEF TypeOK
  <2>. QED  BY <1>1, <2>1, <2>2
<1>9. TypeOK' /\ IsSequence(log)'
  <2>1. e.type \in Types
    BY <1>1 DEF Types
  <2>2. /\ IsSequence(log)'
        /\ (\A i \in DOMAIN log : log[i].type \in Types /\ log[i].time \in 0..time)'
        /\ (\A r \in known : r.actor \in Actors /\ r.at \in 0..time /\ r.id[1] \in 0..Len(log))'
    BY <1>1, <1>5, <1>7, <1>8, <2>1, StillTyped
  <2>3. time' \in 0..MaxTime
    BY <1>1, SocialAssumption
  <2>. QED  BY <1>8, <2>2, <2>3 DEF TypeOK
<1>10. Identified'
  BY <1>5, <1>7, StillIdentified
<1>11. BridgeTold' /\ NewsIsTrue'
  BY <1>3, <1>4 DEF BridgeTold, NewsIsTrue
<1>12. LearnedHold'
  BY <1>3, <1>4, <1>6 DEF LearnedHold
<1>13. Authorized'
  BY <1>5 DEF Authorized, ForActor
<1>. QED  BY <1>9, <1>10, <1>11, <1>12, <1>13

\* What an action that completes leaves of the clock and of the types.
LEMMA Completed ==
    ASSUME Inv, Complete
    PROVE  /\ action # Idle /\ time' = action.until /\ time' \in time..MaxTime
           /\ action' = Idle /\ bridge' = bridge
           /\ action.request.actor \in Actors /\ action.request.type \in Requests
           /\ position' \in [Actors -> Places]
           /\ bridge = "intact" => time' < CollapseAt
<1>. USE DEF Inv, Complete
<1>1. action # Idle /\ time' = action.until /\ time' \in time..MaxTime /\ ~CollapseDue(time')
      /\ action.request.actor \in Actors
  BY DEF AtCompletion, TypeOK
<1>2. time \in Nat /\ MaxTime \in Nat /\ CollapseAt \in Nat /\ time' \in Nat
  BY <1>1, SocialAssumption DEF TypeOK
<1>3. bridge = "intact" => time' < CollapseAt
  BY <1>1, <1>2 DEF CollapseDue
<1>4. position' \in [Actors -> Places]
  <2>1. action.request.type = "MOVE" => action.request.destination \in Places
    BY SocialAssumption DEF Possible, Passable
  <2>2. position \in [Actors -> Places]
    BY DEF TypeOK
  <2>. QED  BY <2>1, <2>2
<1>. QED  BY <1>1, <1>3, <1>4 DEF Authorized

\* The invariant holds after an action that adds records with one event.
LEMMA CompletesWith ==
    ASSUME Inv, Complete, NEW e, Commit(e), e.time = action.until,
           e.type \in Types \ {"BridgeCollapsed"},
           NEW new, known' = known \union new,
           \A r \in new : r.actor \in Actors /\ r.at = e.time /\ r.id[1] = Len(log) + 1,
           \A r, q \in new : r.id = q.id => r = q,
           \A a \in Learners(log', Len(log) + 1) : News \in Claimed(known', a),
           NewsIsTrue'
    PROVE  Inv'
<1>. DEFINE n == Len(log) + 1
<1>. USE DEF Inv
<1>1. /\ action # Idle /\ time' = action.until /\ time' \in time..MaxTime
      /\ action' = Idle /\ bridge' = bridge
      /\ position' \in [Actors -> Places]
      /\ bridge = "intact" => time' < CollapseAt
  BY Completed
<1>2. /\ IsSequence(log)'
      /\ (\A i \in DOMAIN log : log[i].type \in Types /\ log[i].time \in 0..time)'
      /\ (\A r \in known : r.actor \in Actors /\ r.at \in 0..time /\ r.id[1] \in 0..Len(log))'
  BY <1>1, StillTyped
<1>3. time' \in 0..MaxTime /\ turn' = turn /\ played' = played
  BY <1>1, SocialAssumption DEF TypeOK, Complete
<1>4. TypeOK'
  BY <1>1, <1>2, <1>3 DEF TypeOK
<1>5. Identified'
  BY StillIdentified
<1>6. Learned(log', n) = Learned(log, Len(log)) \union Learners(log', n)
      /\ (Collapsed(log', n) <=> Collapsed(log, Len(log)))
  BY LastSeen DEF Commit
<1>7. Len(log') = n
  BY Appended DEF Commit
<1>8. BridgeTold'
  BY <1>1, <1>6, <1>7 DEF BridgeTold
<1>9. LearnedHold'
  <2>1. \A a : News \in Claimed(known, a) => News \in Claimed(known', a)
    BY DEF Claimed, ForActor
  <2>. QED  BY <1>6, <1>7, <2>1 DEF LearnedHold
<1>10. Authorized'
  BY <1>1 DEF Authorized
<1>. QED  BY <1>2, <1>4, <1>5, <1>8, <1>9, <1>10

\* Moving shows the news to one who arrives in sight of a fallen bridge.
LEMMA MoveInv == ASSUME Inv, Complete, action.request.type = "MOVE"  PROVE Inv'
<1>. DEFINE n == Len(log) + 1
            a == action.request.actor
            e == Emitted(action.request)
            new == {DirectOf(n, b, e.time) : b \in Learners(log', n) \ Learned(log, Len(log))}
<1>. USE DEF Inv
<1>1. /\ Commit(e) /\ e.type = "ActorMoved" /\ e.time = action.until /\ e.actor = a
      /\ e.destination = action.request.destination
  BY DEF Complete, Emitted
<1>2. a \in Actors /\ bridge' = bridge
  BY Completed
<1>. HIDE DEF e, a
<1>3. Learners(log', n) = IF Collapsed(log, Len(log)) /\ e.destination \in Lookouts
                          THEN {a} ELSE {}
  BY <1>1, LastSeen DEF Commit
<1>4. known' = known \union new
  BY <1>1, SightAdds
<1>5. \A b : Claimed(known', b) = IF b \in Learners(log', n) THEN Claimed(known, b) \union {News}
                                  ELSE Claimed(known, b)
  BY <1>1, SightAdds
<1>6. new \subseteq {DirectOf(n, a, e.time)}
  BY <1>3
<1>7. /\ \A r \in new : r.actor \in Actors /\ r.at = e.time /\ r.id[1] = Len(log) + 1
      /\ \A r, q \in new : r.id = q.id => r = q
  <2>1. DirectOf(n, a, e.time).actor = a /\ DirectOf(n, a, e.time).at = e.time
        /\ DirectOf(n, a, e.time).id = <<n, "direct", a>>
    BY FieldsOfDirect
  <2>. HIDE DEF new
  <2>. QED  BY <1>2, <1>6, <2>1
<1>. HIDE DEF new
<1>8. NewsIsTrue'
  BY <1>2, <1>3, <1>5 DEF NewsIsTrue, BridgeTold
<1>9. \A b \in Learners(log', n) : News \in Claimed(known', b)
  BY <1>5
<1>10. e.type \in Types \ {"BridgeCollapsed"}
  BY <1>1 DEF Types
<1>. QED  BY <1>1, <1>4, <1>7, <1>8, <1>9, <1>10, CompletesWith

\* Asking and requesting change nobody's knowledge.
LEMMA AskInv ==
    ASSUME Inv, Complete, action.request.type \in {"ASK", "REQUEST"}  PROVE Inv'
<1>. DEFINE e == Emitted(action.request)
<1>. USE DEF Inv
<1>1. Commit(e) /\ e.type \in {"ActorAsked", "ActorRequested"} /\ e.time = action.until
  BY DEF Complete, Emitted
<1>. HIDE DEF e
<1>2. known' = known /\ bridge' = bridge
  BY <1>1, AskingAdds, Completed
<1>3. Learners(log', Len(log) + 1) = {} /\ e.type \in Types \ {"BridgeCollapsed"}
  BY <1>1, LastSeen DEF Commit, Interactions, Types
<1>4. NewsIsTrue'
  BY <1>2 DEF NewsIsTrue
<1>5. known' = known \union {}
  BY <1>2
<1>. QED  BY <1>1, <1>3, <1>4, <1>5, CompletesWith

\* What is told was held by the one who tells it.
LEMMA InformInv == ASSUME Inv, Complete, action.request.type = "INFORM"  PROVE Inv'
<1>. DEFINE n == Len(log) + 1
            a == action.request.actor
            b == action.request.target
            e == Emitted(action.request)
<1>. USE DEF Inv
<1>1. /\ Commit(e) /\ e.type = "ActorInformed" /\ e.time = action.until
      /\ e.sender = a /\ e.target = b /\ e.claim = action.request.claim
  BY DEF Complete, Emitted
<1>2. a \in Actors /\ b \in Actors /\ bridge' = bridge
  BY Completed DEF Complete, Possible
<1>3. PICK c \in ForActor(known, a) : c.id = action.request.claim
  BY Completed DEF Authorized
<1>. HIDE DEF e, a, b
<1>. DEFINE new == ToldOf(n, e.target, c, e.time)
<1>4. known' = known \union {new}
  BY <1>1, <1>3, TellingAdds
<1>5. \A x : Claimed(known', x) = IF x = b THEN Claimed(known, x) \union {<<c.topic, c.value>>}
                                  ELSE Claimed(known, x)
  BY <1>1, <1>3, TellingAdds
<1>6. new.actor = b /\ new.at = e.time /\ new.id[1] = n
  BY <1>1, FieldsOfTold
<1>. HIDE DEF new
<1>7. Learners(log', n) = {} /\ e.type \in Types \ {"BridgeCollapsed"}
  BY <1>1, LastSeen DEF Commit, Interactions, Types
<1>8. NewsIsTrue'
  <2>1. <<c.topic, c.value>> \in Claimed(known, a)
    BY <1>3 DEF Claimed
  <2>. QED  BY <1>2, <1>5, <2>1 DEF NewsIsTrue
<1>9. \A x \in Learners(log', n) : News \in Claimed(known', x)
  BY <1>7
<1>. DEFINE added == {new}
<1>10. /\ known' = known \union added
       /\ \A r \in added : r.actor \in Actors /\ r.at = e.time /\ r.id[1] = Len(log) + 1
       /\ \A r, q \in added : r.id = q.id => r = q
  BY <1>2, <1>4, <1>6
<1>. HIDE DEF added
<1>11. /\ Commit(e) /\ e.time = action.until /\ e.type \in Types \ {"BridgeCollapsed"}
       /\ \A x \in Learners(log', Len(log) + 1) : News \in Claimed(known', x)
  BY <1>1, <1>7, <1>9
<1>. QED  BY <1>8, <1>10, <1>11, CompletesWith, Zenon

\* Waiting passes the time.
LEMMA WaitInv == ASSUME Inv, Complete, action.request.type = "WAIT"  PROVE Inv'
<1>. USE DEF Inv
<1>1. /\ action # Idle /\ time' = action.until /\ time' \in time..MaxTime
      /\ action' = Idle /\ bridge' = bridge /\ position' \in [Actors -> Places]
      /\ bridge = "intact" => time' < CollapseAt
  BY Completed
<1>2. UNCHANGED <<log, known, turn, played>>
  BY DEF Complete
<1>3. time \in Nat /\ MaxTime \in Nat /\ time' \in Nat /\ time <= time'
  BY <1>1, SocialAssumption DEF TypeOK
<1>4. \A i \in DOMAIN log' : log'[i].type \in Types /\ log'[i].time \in 0..time'
  BY <1>2, <1>3 DEF TypeOK
<1>5. \A r \in known' : r.actor \in Actors /\ r.at \in 0..time' /\ r.id[1] \in 0..Len(log')
  BY <1>2, <1>3 DEF TypeOK
<1>6. TypeOK'
  BY <1>1, <1>2, <1>3, <1>4, <1>5 DEF TypeOK
<1>7. BridgeTold'
  BY <1>1, <1>2 DEF BridgeTold
<1>. QED  BY <1>1, <1>2, <1>6, <1>7 DEF Identified, LearnedHold, NewsIsTrue, Authorized

\* Every step keeps the invariant.
LEMMA NextInv == Inv /\ [Next]_vars => Inv'
<1>. SUFFICES ASSUME Inv, [Next]_vars  PROVE Inv'
  OBVIOUS
<1>1. CASE Turn
  BY <1>1, TurnInv
<1>2. CASE Collapse
  BY <1>2, CollapseInv
<1>3. CASE Complete
  <2>1. action.request.type \in Requests
    BY <1>3, Completed
  <2>. QED  BY <1>3, <2>1, MoveInv, AskInv, InformInv, WaitInv DEF Requests
<1>4. CASE Fail
  BY <1>4, FailInv
<1>5. CASE \E a \in Players : Play(a)
  BY <1>5, PlayInv
<1>6. CASE UNCHANGED vars
  BY <1>6 DEF vars, Inv, TypeOK, Identified, BridgeTold, LearnedHold, NewsIsTrue, Authorized
<1>. QED  BY <1>1, <1>2, <1>3, <1>4, <1>5, <1>6 DEF Next

\* The invariant holds in every state.
LEMMA Invariance == Spec => []Inv
<1>. QED  BY InitInv, NextInv, PTL DEF Spec

-----------------------------------------------------------------------------
(* Theorems                                                                *)

\* The log, the knowledge and the action under way are well formed, and nothing
\* is later than the present.
THEOREM TypeCorrect == Spec => []TypeOK
<1>. QED  BY Invariance, PTL DEF Inv

\* Nobody ever holds the news of a collapse that has not happened, whoever tells
\* whom what.
THEOREM NewsIsAlwaysTrue == Spec => []NewsIsTrue
<1>. QED  BY Invariance, PTL DEF Inv

\* The steps of the detailed system, seen as those of hearsay.
LEMMA StepIsHearsay == Inv /\ [Next]_vars => [Gossip!Next]_(Gossip!vars)
<1>. SUFFICES ASSUME Inv, [Next]_vars  PROVE [Gossip!Next]_(Gossip!vars)
  OBVIOUS
<1>. DEFINE held == [a \in Actors |-> Claimed(known, a)]
<1>. USE DEF Inv
<1>1. CASE UNCHANGED <<position, bridge, known>>
  BY <1>1 DEF Gossip!vars
<1>2. CASE Collapse
  <2>. DEFINE n == Len(log) + 1
              e == [type |-> "BridgeCollapsed", time |-> CollapseAt,
                    witnesses |-> {a \in Actors : position[a] \in Lookouts}]
  <2>1. Commit(e) /\ e.type = "BridgeCollapsed"
    BY <1>2 DEF Collapse
  <2>2. Learners(log', n) = {a \in Actors : position[a] \in Lookouts}
    BY <2>1, LastSeen DEF Commit
  <2>3. \A a : Claimed(known', a) = IF a \in Learners(log', n) THEN Claimed(known, a) \union {News}
                                    ELSE Claimed(known, a)
    BY <2>1, SightAdds
  <2>. HIDE DEF e, n
  <2>4. held' = [a \in Actors |-> IF position[a] \in Lookouts THEN held[a] \union {News} ELSE held[a]]
    BY <2>2, <2>3
  <2>5. bridge = "intact" /\ bridge' = "collapsed" /\ position' = position
    BY <1>2 DEF Collapse
  <2>6. Gossip!Happen
    BY <2>4, <2>5 DEF Gossip!Happen
  <2>. QED  BY <2>6 DEF Gossip!Next
<1>3. CASE Complete /\ action.request.type = "MOVE"
  <2>. DEFINE n == Len(log) + 1
              a == action.request.actor
              p == action.request.destination
              e == Emitted(action.request)
  <2>1. Commit(e) /\ e.type = "ActorMoved" /\ e.actor = a /\ e.destination = p
    BY <1>3 DEF Complete, Emitted
  <2>2. /\ a \in Actors /\ p \in Places /\ bridge' = bridge
        /\ position' = [position EXCEPT ![a] = p]
    BY <1>3, Completed, SocialAssumption DEF Complete, Possible, Passable
  <2>. HIDE DEF e, a, p
  <2>3. Learners(log', n) = IF bridge = "collapsed" /\ p \in Lookouts THEN {a} ELSE {}
    BY <2>1, LastSeen DEF Commit, BridgeTold
  <2>4. \A b : Claimed(known', b) = IF b \in Learners(log', n) THEN Claimed(known, b) \union {News}
                                    ELSE Claimed(known, b)
    BY <2>1, SightAdds
  <2>. HIDE DEF n
  <2>5. held' = [held EXCEPT ![a] =
                    IF bridge = "collapsed" /\ p \in Lookouts THEN held[a] \union {News} ELSE held[a]]
    <3>1. CASE bridge = "collapsed" /\ p \in Lookouts
      <4>1. \A b : Claimed(known', b) = IF b = a THEN Claimed(known, b) \union {News}
                                        ELSE Claimed(known, b)
        BY <2>3, <2>4, <3>1
      <4>. QED  BY <2>2, <3>1, <4>1
    <3>2. CASE ~(bridge = "collapsed" /\ p \in Lookouts)
      <4>1. \A b : Claimed(known', b) = Claimed(known, b)
        BY <2>3, <2>4, <3>2
      <4>. QED  BY <2>2, <3>2, <4>1
    <3>. QED  BY <3>1, <3>2
  <2>6. Gossip!Go(a, p)
    BY <2>2, <2>5 DEF Gossip!Go
  <2>. QED  BY <2>2, <2>6 DEF Gossip!Next
<1>4. CASE Complete /\ action.request.type \in {"ASK", "REQUEST"}
  <2>. DEFINE e == Emitted(action.request)
  <2>1. Commit(e) /\ e.type \in {"ActorAsked", "ActorRequested"}
    BY <1>4 DEF Complete, Emitted
  <2>. HIDE DEF e
  <2>. QED  BY <1>1, <1>4, <2>1, AskingAdds DEF Complete
<1>5. CASE Complete /\ action.request.type = "INFORM"
  <2>. DEFINE a == action.request.actor
              b == action.request.target
              e == Emitted(action.request)
  <2>1. Commit(e) /\ e.type = "ActorInformed" /\ e.sender = a /\ e.target = b
        /\ e.claim = action.request.claim
    BY <1>5 DEF Complete, Emitted
  <2>2. /\ a \in Actors /\ b \in Actors /\ a # b /\ position[a] = position[b]
        /\ UNCHANGED <<position, bridge>>
    BY <1>5, Completed DEF Complete, Possible
  <2>3. PICK c \in ForActor(known, a) : c.id = action.request.claim
    BY <1>5, Completed DEF Authorized
  <2>. HIDE DEF e, a, b
  <2>4. \A x : Claimed(known', x) = IF x = b THEN Claimed(known, x) \union {<<c.topic, c.value>>}
                                    ELSE Claimed(known, x)
    BY <2>1, <2>3, TellingAdds
  <2>5. <<c.topic, c.value>> \in held[a]
    BY <2>2, <2>3 DEF Claimed
  <2>6. held' = [held EXCEPT ![b] = held[b] \union {<<c.topic, c.value>>}]
    BY <2>2, <2>4
  <2>7. Gossip!Tell(a, b, <<c.topic, c.value>>)
    BY <2>2, <2>5, <2>6 DEF Gossip!Tell
  <2>. QED  BY <2>2, <2>5, <2>7 DEF Gossip!Next
<1>6. CASE Complete /\ action.request.type = "WAIT"
  BY <1>1, <1>6 DEF Complete
<1>7. CASE Complete
  <2>1. action.request.type \in Requests
    BY <1>7, Completed
  <2>. QED  BY <1>3, <1>4, <1>5, <1>6, <1>7, <2>1 DEF Requests
<1>8. CASE Turn \/ Fail \/ (\E a \in Players : Play(a)) \/ UNCHANGED vars
  BY <1>1, <1>8 DEF Turn, Fail, Play, vars
<1>. QED  BY <1>2, <1>7, <1>8 DEF Next

\* Whatever the people do, what they know spreads by sight and by word of mouth
\* only: the projection of the log implements the abstract account of hearsay.
THEOREM SocialImplementsHearsay == Spec => ImplementsHearsay
<1>1. Init => Gossip!Init
  BY DEF Init, Gossip!Init
<1>. QED  BY <1>1, Invariance, StepIsHearsay, PTL DEF Spec, ImplementsHearsay, Gossip!Spec

-----------------------------------------------------------------------------
(* Answers                                                                 *)

\* An NPC under way to answer a question has not answered it yet.
Fresh ==
    action # Idle /\ action.request.type = "INFORM" =>
        (action.request.actor \notin Players /\ action.request.reply # NoReply =>
            \A i \in DOMAIN log :
                log[i].type = "ActorInformed" /\ log[i].sender = action.request.actor
                => log[i].reply # action.request.reply)

\* A set of positions, unless empty, has a first one.
LEMMA FirstPosition ==
    ASSUME NEW S \in SUBSET Nat, S # {}
    PROVE  \E i \in S : \A j \in S : i <= j
<1>. DEFINE R == OpToRel(<, Nat)
<1>. HIDE DEF R
<1>1. IsWellFoundedOn(R, Nat)
  BY NatLessThanWellFounded DEF R
<1>2. \A x, y \in Nat : <<x, y>> \in R <=> x < y
  BY DEF R, OpToRel
<1>3. PICK i \in S : \A j \in S : ~(<<j, i>> \in R)
  BY <1>1, WFMin
<1>4. \A j \in S : ~(j < i)
  BY <1>2, <1>3
<1>. QED  BY <1>4

\* What the controller tells answers a question that its view leaves open.
LEMMA AnswersOpen ==
    ASSUME IsSequence(log), NEW a, Decision(View(a)).type = "INFORM"
    PROVE  Decision(View(a)).reply \notin Answered(a)
<1>. DEFINE open == Answerable(View(a))
            first == CHOOSE i \in open : \A j \in open : i <= j
<1>1. open \subseteq Incoming(a) \ Answered(a)
  BY DEF Answerable, View
<1>2. open \subseteq Nat
  <2>1. DOMAIN log = 1..Len(log) /\ Len(log) \in Nat
    BY Appended
  <2>. QED  BY <1>1, <2>1 DEF Incoming
<1>. HIDE DEF open
<1>3. open # {} => first \in open
  <2>1. SUFFICES ASSUME open # {}  PROVE first \in open
    OBVIOUS
  <2>2. \E i \in open : \A j \in open : i <= j
    BY <1>2, <2>1, FirstPosition
  <2>. QED  BY <2>2
<1>. HIDE DEF first
<1>4. open # {} /\ Decision(View(a)).reply = first
  <2>1. CASE open = {}
    BY <2>1 DEF open, Decision, Wait, Move, Ask
  <2>2. CASE open # {}
    BY <2>2 DEF open, first, Decision, Inform
  <2>. QED  BY <2>1, <2>2
<1>. QED  BY <1>1, <1>3, <1>4

\* The controller begins only what is fresh.
LEMMA TurnFresh == ASSUME Inv, Fresh, Turn  PROVE Fresh'
<1>. DEFINE a == Activations[turn + 1]
<1>1. PICK view \in {View(a)} : \E request \in {Decision(view)} :
        IF Accepted(request, view) THEN Start(request) ELSE UNCHANGED action
  BY DEF Turn
<1>2. PICK request \in {Decision(view)} :
        IF Accepted(request, view) THEN Start(request) ELSE UNCHANGED action
  BY <1>1
<1>3. request = Decision(View(a)) /\ action = Idle /\ log' = log
  BY <1>1, <1>2 DEF Turn
<1>4. IsSequence(log)
  BY DEF Inv
<1>5. request.type = "INFORM" /\ request.reply # NoReply =>
        \A i \in DOMAIN log :
            log[i].type = "ActorInformed" /\ log[i].sender = request.actor
            => log[i].reply # request.reply
  <2>1. request.actor = a
    BY <1>3, Decided
  <2>2. request.type = "INFORM" => request.reply \notin Answered(a)
    BY <1>3, <1>4, AnswersOpen
  <2>. QED  BY <2>1, <2>2 DEF Answered
<1>6. action' = Idle \/ action'.request = request
  BY <1>2, <1>3 DEF Start
<1>. QED  BY <1>3, <1>5, <1>6 DEF Fresh

\* What a player says is its own.
LEMMA PlayFresh == ASSUME Inv, Fresh, NEW a \in Players, Play(a)  PROVE Fresh'
<1>1. PICK n \in 0..Len(log), request \in Tries(a) :
        Accepted(request, Shown(a, n)) /\ Start(request)
  BY DEF Play
<1>2. action'.request = request
  BY <1>1 DEF Start
<1>3. action'.request.actor \in Players
  BY <1>1, <1>2, Tried
<1>. QED  BY <1>3 DEF Fresh

\* The collapse tells nothing.
LEMMA CollapseFresh == ASSUME Inv, Fresh, AnsweredOnce, Collapse  PROVE Fresh' /\ AnsweredOnce'
<1>1. PICK e \in {[type |-> "BridgeCollapsed", time |-> CollapseAt,
                   witnesses |-> {a \in Actors : position[a] \in Lookouts}]} :
        log' = Append(log, e)
  BY DEF Collapse, Commit
<1>2. e.type # "ActorInformed"
  BY <1>1
<1>3. IsSequence(log)
  BY DEF Inv
<1>4. /\ Len(log) \in Nat /\ DOMAIN log = 1..Len(log) /\ DOMAIN log' = 1..(Len(log) + 1)
      /\ \A i \in 1..Len(log) : log'[i] = log[i]
      /\ log'[Len(log) + 1] = e
  BY <1>1, <1>3, Appended
<1>5. \A i \in DOMAIN log' : log'[i].type = "ActorInformed" => i \in DOMAIN log /\ log'[i] = log[i]
  BY <1>2, <1>4
<1>6. action' = action
  BY DEF Collapse
<1>7. Fresh'
  BY <1>5, <1>6 DEF Fresh
<1>8. AnsweredOnce'
  BY <1>5 DEF AnsweredOnce
<1>. QED  BY <1>7, <1>8

\* What an action that completes tells had not been told before, if it answers.
LEMMA CompleteOnce == ASSUME Inv, Fresh, AnsweredOnce, Complete  PROVE AnsweredOnce'
<1>. DEFINE request == action.request
<1>0. action # Idle /\ request.type \in Requests
  BY DEF Complete, AtCompletion, Inv, Authorized
<1>1. CASE request.type = "WAIT"
  BY <1>1 DEF Complete, AnsweredOnce
<1>2. CASE request.type # "WAIT"
  <2>1. PICK e \in {Emitted(request)} : log' = Append(log, e)
    BY <1>2 DEF Complete, Commit
  <2>2. e.type = "ActorInformed" =>
          /\ request.type = "INFORM" /\ e.sender = request.actor /\ e.reply = request.reply
    BY <1>0, <1>2, <2>1 DEF Emitted, Requests
  <2>3. IsSequence(log)
    BY DEF Inv
  <2>4. /\ Len(log) \in Nat /\ DOMAIN log = 1..Len(log) /\ DOMAIN log' = 1..(Len(log) + 1)
        /\ \A i \in 1..Len(log) : log'[i] = log[i]
        /\ log'[Len(log) + 1] = e
    BY <2>1, <2>3, Appended
  <2>5. e.type = "ActorInformed" /\ e.sender \notin Players /\ e.reply # NoReply =>
          \A i \in DOMAIN log :
              log[i].type = "ActorInformed" /\ log[i].sender = e.sender => log[i].reply # e.reply
    BY <1>0, <2>2 DEF Fresh
  <2>. SUFFICES ASSUME NEW i \in DOMAIN log', NEW j \in DOMAIN log',
                       log'[i].type = "ActorInformed", log'[j].type = "ActorInformed",
                       log'[i].sender \notin Players, log'[i].sender = log'[j].sender,
                       log'[i].reply # NoReply, log'[i].reply = log'[j].reply
                PROVE  i = j
    BY DEF AnsweredOnce
  <2>6. CASE i \in DOMAIN log /\ j \in DOMAIN log
    BY <2>4, <2>6 DEF AnsweredOnce
  <2>7. CASE i \in DOMAIN log /\ j = Len(log) + 1
    BY <2>4, <2>5, <2>7
  <2>8. CASE i = Len(log) + 1 /\ j \in DOMAIN log
    BY <2>4, <2>5, <2>8
  <2>. QED  BY <2>4, <2>6, <2>7, <2>8
<1>. QED  BY <1>1, <1>2

\* An answer under way is fresh, and none was given twice, after every step.
LEMMA FreshStep ==
    Inv /\ Fresh /\ AnsweredOnce /\ [Next]_vars => Fresh' /\ AnsweredOnce'
<1>. SUFFICES ASSUME Inv, Fresh, AnsweredOnce, [Next]_vars  PROVE Fresh' /\ AnsweredOnce'
  OBVIOUS
<1>1. CASE Turn
  BY <1>1, TurnFresh DEF Turn, AnsweredOnce
<1>2. CASE Collapse
  BY <1>2, CollapseFresh
<1>3. CASE Complete
  BY <1>3, CompleteOnce DEF Complete, Fresh
<1>4. CASE Fail
  BY <1>4 DEF Fail, Fresh, AnsweredOnce
<1>5. CASE \E a \in Players : Play(a)
  <2>1. Fresh'
    BY <1>5, PlayFresh
  <2>2. log' = log
    BY <1>5 DEF Play
  <2>. QED  BY <2>1, <2>2 DEF AnsweredOnce
<1>6. CASE UNCHANGED vars
  BY <1>6 DEF vars, Fresh, AnsweredOnce
<1>. QED  BY <1>1, <1>2, <1>3, <1>4, <1>5, <1>6 DEF Next

\* An NPC answers a question no second time, although it is shown only the
\* present and others may have answered, moved or asked again in between.
THEOREM AnswersOnce == Spec => []AnsweredOnce
<1>1. Init => Fresh /\ AnsweredOnce
  BY DEF Init, Fresh, AnsweredOnce
<1>. QED  BY <1>1, Invariance, FreshStep, PTL DEF Spec

-----------------------------------------------------------------------------
(* Sources                                                                 *)

\* What an event adds can be traced back to it, and what was known before can
\* still be traced back.
LEMMA CommitTraced == ASSUME Inv, Traceable, NEW e, Commit(e)  PROVE Traceable'
<1>. DEFINE n == Len(log) + 1
<1>1. IsSequence(log) /\ log' = Append(log, e)
  BY DEF Inv, Commit
<1>2. /\ Len(log) \in Nat /\ DOMAIN log = 1..Len(log) /\ DOMAIN log' = 1..n
      /\ \A i \in 1..Len(log) : log'[i] = log[i]
      /\ log'[n] = e
  BY <1>1, Appended
<1>3. \A i \in 1..Len(log) : Learners(log', i) = Learners(log, i)
  BY <1>1, SightStable
<1>4. known' = known \union Sights(log, e) \union Tellings(log, e, known)
  <2>1. Added(log', n, known) = Sights(log, e) \union Tellings(log, e, known)
    BY <1>1, LastAdded
  <2>. QED  BY <1>1, <2>1 DEF Commit
<1>. SUFFICES ASSUME NEW r \in known', r \notin Initial
              PROVE  LET source == log'[r.id[1]] IN
                     /\ r.id[1] \in DOMAIN log'
                     /\ \/ r.kind = "DIRECT_OBSERVATION" /\ r.actor \in Learners(log', r.id[1])
                        \/ /\ r.kind = "INFORMED" /\ source.type = "ActorInformed"
                           /\ source.target = r.actor
                           /\ \E q \in ForActor(known', source.sender) :
                                 /\ q.id = source.claim /\ q.id[1] < r.id[1]
                                 /\ q.topic = r.topic /\ q.value = r.value
  BY DEF Traceable
<1>5. \A a : ForActor(known, a) \subseteq ForActor(known', a)
  BY <1>4 DEF ForActor
<1>. HIDE DEF n
<1>6. CASE r \in known
  <2>1. r.id[1] \in DOMAIN log
    BY <1>6 DEF Traceable
  <2>2. r.id[1] \in DOMAIN log' /\ log'[r.id[1]] = log[r.id[1]]
        /\ Learners(log', r.id[1]) = Learners(log, r.id[1])
    BY <1>2, <1>3, <2>1 DEF n
  <2>. QED  BY <1>5, <1>6, <2>2 DEF Traceable
<1>7. CASE r \in Sights(log, e)
  <2>1. PICK a \in Learners(log', n) : r = DirectOf(n, a, e.time)
    BY <1>1, <1>7 DEF Sights, n
  <2>2. r.id[1] = n /\ r.actor = a /\ r.kind = "DIRECT_OBSERVATION"
    BY <2>1 DEF DirectOf, Record
  <2>. QED  BY <1>2, <2>1, <2>2 DEF n
<1>8. CASE r \in Tellings(log, e, known)
  <2>1. e.type = "ActorInformed"
    BY <1>8 DEF Tellings
  <2>2. PICK c \in Claims(e, known) : r = ToldOf(n, e.target, c, e.time)
    BY <1>8, <2>1 DEF Tellings, n
  <2>3. r.id[1] = n /\ r.actor = e.target /\ r.kind = "INFORMED"
        /\ r.topic = c.topic /\ r.value = c.value
    BY <2>2 DEF ToldOf, Record
  <2>4. c \in ForActor(known, e.sender) /\ c.id = e.claim /\ c \in known
    BY <2>2 DEF Claims, ForActor
  <2>5. c.id[1] < n
    <3>1. c.id[1] \in 0..Len(log)
      BY <2>4 DEF Inv, TypeOK
    <3>. QED  BY <1>2, <3>1 DEF n
  <2>6. n \in DOMAIN log'
    BY <1>2 DEF n
  <2>. QED  BY <1>2, <1>5, <2>1, <2>3, <2>4, <2>5, <2>6
<1>. QED  BY <1>4, <1>6, <1>7, <1>8

\* Nothing else adds to what is known.
LEMMA TraceStep == Inv /\ Traceable /\ [Next]_vars => Traceable'
<1>. SUFFICES ASSUME Inv, Traceable, [Next]_vars  PROVE Traceable'
  OBVIOUS
<1>1. CASE UNCHANGED <<log, known>>
  BY <1>1 DEF Traceable
<1>2. CASE Collapse
  <2>1. \E e : Commit(e)
    BY <1>2 DEF Collapse
  <2>. QED  BY <2>1, CommitTraced
<1>3. CASE Complete
  BY <1>1, <1>3, CommitTraced DEF Complete
<1>. QED  BY <1>1, <1>2, <1>3 DEF Next, Turn, Fail, Play, vars

\* Whatever anybody holds goes back, told by told, to what somebody saw or was
\* given by the author; nothing is known for having been made up.
THEOREM KnowledgeHasSources == Spec => []Traceable
<1>1. Init => Traceable
  BY DEF Init, Traceable
<1>. QED  BY <1>1, Invariance, TraceStep, PTL DEF Spec

-----------------------------------------------------------------------------
(* The rebuild                                                             *)

\* The records that the first n events of the log yielded.
Held(records, n) == {r \in records : r.id[1] <= n}

\* The i-th event fits the records of the events before it, and adds to them.
Stage(s, records, i) ==
    /\ Held(records, i) = Held(records, i - 1) \union Added(s, i, Held(records, i - 1))
    /\ s[i].type = "ActorInformed" => Supported(s, i, Held(records, i - 1))
    /\ Ledger(Held(records, i), s[i].time)

Staged(s, records) == \A i \in DOMAIN s : Stage(s, records, i)

\* What an action in progress is going to tell is entitled to be told at its end.
Permitted ==
    action # Idle /\ action.request.type = "INFORM" =>
        \E claim \in ForActor(known, action.request.actor) :
            /\ claim.id = action.request.claim /\ claim.at <= time
            /\ action.request.reply # NoReply =>
                 AnswersQuestion(log, Len(log), action.request.reply, action.request.actor,
                                 action.request.target, claim.topic)

FoldInv ==
    /\ Plausible(log)
    /\ Held(known, 0) = Initial
    /\ Staged(log, known)
    /\ Ledger(known, time)
    /\ Permitted

\* A ledger stays one when time passes.
LEMMA LedgerLater ==
    ASSUME NEW records, NEW now \in Nat, NEW later \in Nat, now <= later,
           \A r \in records : r.at \in Nat,
           Ledger(records, now)
    PROVE  Ledger(records, later)
<1>1. \A r \in records : r.at <= later
  BY DEF Ledger
<1>. QED  BY <1>1 DEF Ledger

\* A ledger stays one when records of the present join it that correct none.
LEMMA LedgerGrows ==
    ASSUME NEW records, NEW new, NEW now \in Nat,
           Ledger(records, now),
           \A r \in new : r.at = now /\ r.supersedes = Nobody,
           \A r, q \in new : r.id = q.id => r = q,
           \A r \in records, q \in new : r.id # q.id
    PROVE  Ledger(records \union new, now)
<1>. DEFINE all == records \union new
<1>1. \A r \in all : r.at <= now
  BY DEF Ledger
<1>2. \A r, q \in all : r.id = q.id => r = q
  BY DEF Ledger
<1>3. ASSUME NEW r \in all, r.supersedes # Nobody
      PROVE  \E q \in all : /\ q.id = r.supersedes
                            /\ q.actor = r.actor /\ q.topic = r.topic
                            /\ q.at <= r.at
  <2>1. r \in records
    BY <1>3
  <2>. QED  BY <1>3, <2>1 DEF Ledger
<1>4. {r \in all : r.supersedes # Nobody} = {r \in records : r.supersedes # Nobody}
  OBVIOUS
<1>5. Acyclic({r \in all : r.supersedes # Nobody})
  BY <1>4 DEF Ledger
<1>. QED  BY <1>1, <1>2, <1>3, <1>5 DEF Ledger

\* What an event adds belongs to it, is of its time and corrects nothing.
LEMMA AddedFresh ==
    ASSUME Inv, NEW e
    PROVE  LET new == Added(Append(log, e), Len(log) + 1, known) IN
           /\ \A r \in new : r.id[1] = Len(log) + 1 /\ r.at = e.time /\ r.supersedes = Nobody
           /\ \A r, q \in new : r.id = q.id => r = q
<1>. DEFINE new == Added(Append(log, e), Len(log) + 1, known)
            n == Len(log) + 1
<1>1. new = Sights(log, e) \union Tellings(log, e, known)
  BY LastAdded DEF Inv
<1>2. e.type = "ActorInformed" => Sights(log, e) = {}
  <2>1. e.type = "ActorInformed" => Learners(Append(log, e), Len(log) + 1) = {}
    BY LastSeen DEF Inv, Interactions
  <2>. QED  BY <2>1 DEF Sights
<1>3. ASSUME NEW r \in Sights(log, e)
      PROVE  \E a : r = DirectOf(n, a, e.time)
  BY <1>3 DEF Sights
<1>4. ASSUME NEW r \in Tellings(log, e, known)
      PROVE  e.type = "ActorInformed" /\ \E c \in Claims(e, known) : r = ToldOf(n, e.target, c, e.time)
  BY <1>4 DEF Tellings
<1>5. \A c, d \in Claims(e, known) : c = d
  BY DEF Claims, ForActor, Inv, Identified
<1>. HIDE DEF new, n
<1>6. ASSUME NEW r \in new
      PROVE  r.id[1] = n /\ r.at = e.time /\ r.supersedes = Nobody
  <2>1. CASE r \in Sights(log, e)
    <3>1. PICK a : r = DirectOf(n, a, e.time)
      BY <1>3, <2>1
    <3>. QED  BY <3>1 DEF DirectOf, Record
  <2>2. CASE r \in Tellings(log, e, known)
    <3>1. PICK c : r = ToldOf(n, e.target, c, e.time)
      BY <1>4, <2>2
    <3>. QED  BY <3>1 DEF ToldOf, Record
  <2>. QED  BY <1>1, <2>1, <2>2
<1>7. ASSUME NEW r \in new, NEW q \in new, r.id = q.id  PROVE r = q
  <2>1. CASE r \in Sights(log, e) /\ q \in Sights(log, e)
    <3>1. PICK a : r = DirectOf(n, a, e.time)
      BY <1>3, <2>1
    <3>2. PICK b : q = DirectOf(n, b, e.time)
      BY <1>3, <2>1
    <3>3. r.id = <<n, "direct", a>> /\ q.id = <<n, "direct", b>>
      BY <3>1, <3>2, FieldsOfDirect
    <3>4. <<n, "direct", a>> = <<n, "direct", b>>
      BY <1>7, <3>3
    <3>. QED  BY <3>1, <3>2, <3>4
  <2>2. CASE r \in Tellings(log, e, known) /\ q \in Tellings(log, e, known)
    <3>1. PICK c \in Claims(e, known) : r = ToldOf(n, e.target, c, e.time)
      BY <1>4, <2>2
    <3>2. PICK d \in Claims(e, known) : q = ToldOf(n, e.target, d, e.time)
      BY <1>4, <2>2
    <3>. QED  BY <1>5, <3>1, <3>2
  <2>. QED  BY <1>1, <1>2, <1>4, <2>1, <2>2
<1>. QED  BY <1>6, <1>7 DEF new, n

\* What an event adds, and whether it may be told, is settled by what came
\* before it.
LEMMA AddedStable ==
    ASSUME NEW s, IsSequence(s), NEW e, NEW records, NEW i \in 1..Len(s)
    PROVE  /\ Added(Append(s, e), i, records) = Added(s, i, records)
           /\ Supported(Append(s, e), i, records) <=> Supported(s, i, records)
<1>. DEFINE t == Append(s, e)
<1>1. Len(s) \in Nat /\ \A j \in 1..Len(s) : t[j] = s[j]
  BY Appended
<1>2. Learners(t, i) = Learners(s, i) /\ \A n \in 0..Len(s) : Learned(t, n) = Learned(s, n)
  BY SightStable
<1>. HIDE DEF t
<1>3. t[i] = s[i] /\ Learned(t, i - 1) = Learned(s, i - 1)
  BY <1>1, <1>2
<1>4. Seen(t, i) = Seen(s, i)
  BY <1>2, <1>3 DEF Seen
<1>5. Heard(t, i, records) = Heard(s, i, records)
  BY <1>3 DEF Heard
<1>6. Added(t, i, records) = Added(s, i, records)
  BY <1>3, <1>4, <1>5 DEF Added
<1>7. \A reply, a, b, topic : AnswersQuestion(t, i - 1, reply, a, b, topic)
                                <=> AnswersQuestion(s, i - 1, reply, a, b, topic)
  BY <1>1 DEF AnswersQuestion
<1>8. Supported(t, i, records) <=> Supported(s, i, records)
  BY <1>3, <1>7 DEF Supported
<1>. QED  BY <1>6, <1>8 DEF t

\* The stages of a log are not touched by a later event and its records.
LEMMA StageStable ==
    ASSUME NEW s, IsSequence(s), NEW e, NEW records, NEW new,
           \A r \in new : r.id[1] = Len(s) + 1,
           NEW i \in 1..Len(s), Stage(s, records, i)
    PROVE  Stage(Append(s, e), records \union new, i)
<1>. DEFINE t == Append(s, e)
            all == records \union new
<1>1. Len(s) \in Nat /\ t[i] = s[i]
  BY Appended
<1>2. /\ \A x : Added(t, i, x) = Added(s, i, x)
      /\ \A x : Supported(t, i, x) <=> Supported(s, i, x)
  BY AddedStable
<1>. HIDE DEF t
<1>3. \A r \in new : ~(r.id[1] <= i) /\ ~(r.id[1] <= i - 1)
  BY <1>1
<1>4. Held(all, i) = Held(records, i) /\ Held(all, i - 1) = Held(records, i - 1)
  BY <1>3 DEF Held
<1>. HIDE DEF all
<1>. QED  BY <1>1, <1>2, <1>4 DEF Stage, t, all

\* An event that may be told, and a collapse that is the first, is folded like
\* the events before it.
LEMMA CommitFits ==
    ASSUME Inv, FoldInv, NEW e, Commit(e),
           e.type \in Types, e.time = time', time' \in Nat, time <= time',
           e.type = "BridgeCollapsed" => bridge = "intact",
           e.type = "ActorInformed" => Supported(log', Len(log) + 1, known)
    PROVE  Plausible(log') /\ Held(known', 0) = Initial /\ Staged(log', known') /\ Ledger(known', time')
<1>. DEFINE n == Len(log) + 1
            new == Added(Append(log, e), n, known)
<1>1. IsSequence(log) /\ log' = Append(log, e) /\ known' = known \union new
  BY DEF Inv, Commit
<1>2. /\ Len(log) \in Nat /\ DOMAIN log = 1..Len(log) /\ DOMAIN log' = 1..n
      /\ \A i \in 1..Len(log) : log'[i] = log[i]
      /\ log'[n] = e
  BY <1>1, Appended
<1>3. /\ \A r \in new : r.id[1] = n /\ r.at = e.time /\ r.supersedes = Nobody
      /\ \A r, q \in new : r.id = q.id => r = q
  BY AddedFresh
<1>4. \A r \in known : r.at \in 0..time /\ r.id[1] \in 0..Len(log)
  BY DEF Inv, TypeOK
<1>. HIDE DEF new
<1>5. time \in Nat
  BY SocialAssumption DEF Inv, TypeOK
<1>6. Held(known, 0) = Initial /\ Staged(log, known) /\ Ledger(known, time)
  BY DEF FoldInv
<1>7. Ledger(known', time')
  <2>1. Ledger(known, time')
    BY <1>4, <1>5, <1>6, LedgerLater
  <2>2. \A r \in known, q \in new : r.id # q.id
    BY <1>2, <1>3, <1>4
  <2>. QED  BY <1>1, <1>3, <2>1, <2>2, LedgerGrows
<1>8. Held(known', 0) = Initial
  BY <1>1, <1>2, <1>3, <1>6 DEF Held
<1>9. Held(known', n) = known' /\ Held(known', n - 1) = known
  <2>1. \A r \in known : r.id[1] <= n /\ r.id[1] <= n - 1
    BY <1>2, <1>4
  <2>2. \A r \in new : r.id[1] <= n /\ ~(r.id[1] <= n - 1)
    BY <1>2, <1>3
  <2>. HIDE DEF n
  <2>. QED  BY <1>1, <2>1, <2>2 DEF Held
<1>10. Stage(log', known', n)
  BY <1>1, <1>2, <1>7, <1>9 DEF Stage, new
<1>11. ASSUME NEW i \in 1..Len(log)  PROVE Stage(log', known', i)
  BY <1>1, <1>2, <1>3, <1>6, StageStable DEF Staged
<1>12. Staged(log', known')
  BY <1>2, <1>10, <1>11 DEF Staged
<1>13. Plausible(log')
  <2>1. Plausible(log)
    BY DEF FoldInv
  <2>2. e.type = "BridgeCollapsed" => \A i \in 1..Len(log) : log[i].type # "BridgeCollapsed"
    BY DEF Inv, BridgeTold, Collapsed
  <2>. QED  BY <1>2, <2>1, <2>2 DEF Plausible
<1>. QED  BY <1>7, <1>8, <1>12, <1>13

\* A submission that is accepted may be told.
LEMMA StartPermitted ==
    ASSUME NEW request, NEW view, Accepted(request, view), Start(request), UNCHANGED <<log, known, time>>
    PROVE  Permitted'
<1>1. action'.request = request
  BY DEF Start
<1>2. request.type = "INFORM" => Entitled(request, view)
  BY DEF Accepted
<1>3. request.type = "INFORM" =>
        \E claim \in ForActor(known, request.actor) :
            /\ claim.id = request.claim /\ claim.at <= time
            /\ request.reply # NoReply =>
                 AnswersQuestion(log, Len(log), request.reply, request.actor,
                                 request.target, claim.topic)
  BY <1>2 DEF Entitled
<1>. QED  BY <1>1, <1>3 DEF Permitted

\* An activation and a submission change nothing that is folded.
LEMMA SubmitFolds ==
    ASSUME Inv, FoldInv, Turn \/ \E a \in Players : Play(a)  PROVE FoldInv'
<1>1. UNCHANGED <<log, known, time>> /\ action = Idle
  BY DEF Turn, Play
<1>2. Permitted'
  <2>1. CASE Turn
    <3>1. PICK view \in {View(Activations[turn + 1])} : \E request \in {Decision(view)} :
            IF Accepted(request, view) THEN Start(request) ELSE UNCHANGED action
      BY <2>1 DEF Turn
    <3>2. PICK request \in {Decision(view)} :
            IF Accepted(request, view) THEN Start(request) ELSE UNCHANGED action
      BY <3>1
    <3>3. CASE Accepted(request, view)
      BY <1>1, <3>2, <3>3, StartPermitted
    <3>4. CASE ~Accepted(request, view)
      BY <1>1, <3>2, <3>4 DEF Permitted
    <3>. QED  BY <3>3, <3>4
  <2>2. ASSUME NEW a \in Players, Play(a)  PROVE Permitted'
    BY <1>1, <2>2, StartPermitted DEF Play
  <2>. QED  BY <2>1, <2>2
<1>. QED  BY <1>1, <1>2 DEF FoldInv

\* A failure and a wait only pass the time.
LEMMA PassFolds ==
    ASSUME Inv, FoldInv, UNCHANGED <<log, known>>, action' = Idle, time' = action.until, action # Idle
    PROVE  FoldInv'
<1>1. time \in Nat /\ time' \in Nat /\ time <= time'
  BY SocialAssumption DEF Inv, TypeOK
<1>2. \A r \in known : r.at \in Nat
  BY <1>1 DEF Inv, TypeOK
<1>3. Ledger(known, time')
  BY <1>1, <1>2, LedgerLater DEF FoldInv
<1>4. Permitted'
  BY DEF Permitted
<1>. QED  BY <1>3, <1>4 DEF FoldInv

\* The collapse takes away nobody's entitlement.
LEMMA CollapseFolds == ASSUME Inv, FoldInv, Collapse  PROVE FoldInv'
<1>1. PICK e \in {[type |-> "BridgeCollapsed", time |-> CollapseAt,
                   witnesses |-> {a \in Actors : position[a] \in Lookouts}]} : Commit(e)
  BY DEF Collapse
<1>2. e.type = "BridgeCollapsed" /\ e.time = time' /\ bridge = "intact" /\ action' = action
      /\ time' = CollapseAt
  BY <1>1 DEF Collapse
<1>3. time \in Nat /\ time' \in Nat /\ time <= time'
  BY <1>2, SocialAssumption DEF Inv, TypeOK, BridgeTold
<1>4. Plausible(log') /\ Held(known', 0) = Initial /\ Staged(log', known') /\ Ledger(known', time')
  BY <1>1, <1>2, <1>3, CommitFits DEF Types
<1>5. /\ Len(log) \in Nat /\ Len(log') = Len(log) + 1
      /\ \A i \in 1..Len(log) : log'[i] = log[i]
  BY <1>1, Appended DEF Commit, Inv
<1>6. \A reply, a, b, topic : AnswersQuestion(log, Len(log), reply, a, b, topic)
                                => AnswersQuestion(log', Len(log'), reply, a, b, topic)
  BY <1>5 DEF AnswersQuestion
<1>7. \A a : ForActor(known, a) \subseteq ForActor(known', a)
  BY <1>1 DEF Commit, ForActor
<1>8. \A r \in known : r.at <= time => r.at <= time'
  <2>1. \A r \in known : r.at \in Nat
    BY <1>3 DEF Inv, TypeOK
  <2>. QED  BY <1>3, <2>1
<1>9. Permitted'
  <2>1. SUFFICES ASSUME action # Idle, action.request.type = "INFORM"
                 PROVE  \E claim \in ForActor(known', action.request.actor) :
                            /\ claim.id = action.request.claim /\ claim.at <= time'
                            /\ action.request.reply # NoReply =>
                                 AnswersQuestion(log', Len(log'), action.request.reply,
                                     action.request.actor, action.request.target, claim.topic)
    BY <1>2 DEF Permitted
  <2>2. PICK claim \in ForActor(known, action.request.actor) :
            /\ claim.id = action.request.claim /\ claim.at <= time
            /\ action.request.reply # NoReply =>
                 AnswersQuestion(log, Len(log), action.request.reply, action.request.actor,
                                 action.request.target, claim.topic)
    BY <2>1 DEF FoldInv, Permitted
  <2>3. claim \in known
    BY <2>2 DEF ForActor
  <2>. QED  BY <1>6, <1>7, <1>8, <2>2, <2>3
<1>. QED  BY <1>4, <1>9 DEF FoldInv

\* What an action that completes emits fits the log.
LEMMA CompleteFolds == ASSUME Inv, FoldInv, Complete  PROVE FoldInv'
<1>. DEFINE request == action.request
<1>1. /\ action # Idle /\ time' = action.until /\ action' = Idle
      /\ request.type \in Requests
  BY DEF Complete, AtCompletion, Inv, Authorized
<1>2. CASE request.type = "WAIT"
  BY <1>1, <1>2, PassFolds DEF Complete
<1>3. CASE request.type # "WAIT"
  <2>1. PICK e \in {Emitted(request)} : Commit(e)
    BY <1>3 DEF Complete
  <2>2. /\ e.time = action.until
        /\ e.type \in Types \ {"BridgeCollapsed"}
        /\ e.type = "ActorInformed" =>
             /\ request.type = "INFORM" /\ e.sender = request.actor /\ e.target = request.target
             /\ e.claim = request.claim /\ e.reply = request.reply
    BY <1>1, <1>3, <2>1 DEF Emitted, Requests, Types, Interactions
  <2>3. time \in Nat /\ time' \in Nat /\ time <= time'
    BY <1>1, SocialAssumption DEF Inv, TypeOK
  <2>. HIDE DEF request
  <2>4. /\ Len(log) \in Nat /\ \A i \in 1..Len(log) : log'[i] = log[i]
        /\ log'[Len(log) + 1] = e
    BY <2>1, Appended DEF Commit, Inv
  <2>5. ASSUME e.type = "ActorInformed"  PROVE Supported(log', Len(log) + 1, known)
    <3>1. PICK claim \in ForActor(known, request.actor) :
            /\ claim.id = request.claim /\ claim.at <= time
            /\ request.reply # NoReply =>
                 AnswersQuestion(log, Len(log), request.reply, request.actor,
                                 request.target, claim.topic)
      BY <1>1, <2>2, <2>5 DEF FoldInv, Permitted, request
    <3>2. claim \in Claims(e, known)
      BY <2>2, <2>5, <3>1 DEF Claims
    <3>3. claim.at <= e.time
      <4>1. claim.at \in Nat
        BY <2>3, <3>1 DEF ForActor, Inv, TypeOK
      <4>. QED  BY <1>1, <2>2, <2>3, <3>1, <4>1
    <3>4. e.reply # NoReply =>
            AnswersQuestion(log', Len(log) + 1 - 1, e.reply, e.sender, e.target, claim.topic)
      BY <2>2, <2>4, <2>5, <3>1 DEF AnswersQuestion
    <3>. QED  BY <2>4, <3>2, <3>3, <3>4 DEF Supported
  <2>6. Plausible(log') /\ Held(known', 0) = Initial /\ Staged(log', known') /\ Ledger(known', time')
    BY <1>1, <2>1, <2>2, <2>3, <2>5, CommitFits
  <2>7. Permitted'
    BY <1>1 DEF Permitted
  <2>. QED  BY <2>6, <2>7 DEF FoldInv
<1>. QED  BY <1>2, <1>3

\* Every step keeps the log foldable.
LEMMA FoldStep == Inv /\ FoldInv /\ [Next]_vars => FoldInv'
<1>. SUFFICES ASSUME Inv, FoldInv, [Next]_vars  PROVE FoldInv'
  OBVIOUS
<1>1. CASE Fail
  BY <1>1, PassFolds DEF Fail, AtCompletion
<1>2. CASE UNCHANGED vars
  BY <1>2 DEF vars, FoldInv, Permitted
<1>. QED  BY <1>1, <1>2, SubmitFolds, CollapseFolds, CompleteFolds DEF Next

\* The author's records are foldable.
LEMMA InitFolds == Init => FoldInv
<1>. SUFFICES ASSUME Init  PROVE FoldInv
  OBVIOUS
<1>1. log = <<>> /\ DOMAIN log = {} /\ known = Initial /\ time = 0 /\ action = Idle
  BY DEF Init
<1>2. \A r \in Initial : r.id[1] = 0
  BY SocialAssumption
<1>3. Held(known, 0) = Initial
  BY <1>1, <1>2 DEF Held
<1>4. Ledger(known, time)
  BY <1>1, SocialAssumption
<1>. QED  BY <1>1, <1>3, <1>4 DEF FoldInv, Plausible, Staged, Permitted

\* The recursion that rebuilds the knowledge, read as an equation.
Step(s, n, before) ==
    [valid |-> /\ before.valid
               /\ s[n].type = "ActorInformed" => Supported(s, n, before.records)
               /\ Ledger(before.records \union Added(s, n, before.records), s[n].time),
     records |-> before.records \union Added(s, n, before.records)]

Rebuilds(s, f) ==
    f = [n \in 0..Len(s) |-> IF n = 0 THEN [valid |-> Plausible(s), records |-> Initial]
                             ELSE Step(s, n, f[n - 1])]

\* The rebuild takes the last value of a function that solves that equation.
LEMMA RebuildUnrolled ==
    ASSUME NEW s  PROVE Rebuild(s) = (CHOOSE f : Rebuilds(s, f))[Len(s)]
BY Zenon DEF Rebuild, Rebuilds, Step

\* What a log whose stages fit is folded to.
LEMMA StagesFold ==
    ASSUME NEW s, Len(s) \in Nat, DOMAIN s = 1..Len(s), NEW records,
           Plausible(s), Held(records, 0) = Initial, Staged(s, records)
    PROVE  Rebuild(s) = [valid |-> TRUE, records |-> Held(records, Len(s))]
<1>. DEFINE N == Len(s)
            G == [n \in 0..N |-> [valid |-> TRUE, records |-> Held(records, n)]]
            F == CHOOSE f : Rebuilds(s, f)
<1>1. ASSUME NEW n \in 1..N
      PROVE  Step(s, n, [valid |-> TRUE, records |-> Held(records, n - 1)])
                = [valid |-> TRUE, records |-> Held(records, n)]
  <2>1. Stage(s, records, n)
    BY DEF Staged
  <2>. DEFINE b == [valid |-> TRUE, records |-> Held(records, n - 1)]
  <2>2. b.valid = TRUE /\ b.records = Held(records, n - 1)
    OBVIOUS
  <2>. HIDE DEF b
  <2>3. b.records \union Added(s, n, b.records) = Held(records, n)
    BY <2>1, <2>2 DEF Stage
  <2>4. (/\ b.valid
         /\ s[n].type = "ActorInformed" => Supported(s, n, b.records)
         /\ Ledger(b.records \union Added(s, n, b.records), s[n].time)) = TRUE
    BY <2>1, <2>2, <2>3 DEF Stage
  <2>5. Step(s, n, b) = [valid |-> TRUE, records |-> Held(records, n)]
    BY <2>3, <2>4 DEF Step
  <2>. QED  BY <2>5 DEF b
<1>2. Rebuilds(s, G)
  <2>1. ASSUME NEW n \in 0..N
        PROVE  G[n] = IF n = 0 THEN [valid |-> Plausible(s), records |-> Initial]
                      ELSE Step(s, n, G[n - 1])
    <3>1. CASE n = 0
      <4>1. Plausible(s) = TRUE
        BY DEF Plausible
      <4>. QED  BY <3>1, <4>1
    <3>2. CASE n # 0
      <4>1. n \in 1..N /\ n - 1 \in 0..N
        BY <3>2
      <4>2. G[n] = [valid |-> TRUE, records |-> Held(records, n)]
            /\ G[n - 1] = [valid |-> TRUE, records |-> Held(records, n - 1)]
        BY <4>1
      <4>. HIDE DEF G
      <4>. QED  BY <1>1, <3>2, <4>1, <4>2
    <3>. QED  BY <3>1, <3>2
  <2>. DEFINE E == [n \in 0..N |-> IF n = 0 THEN [valid |-> Plausible(s), records |-> Initial]
                                   ELSE Step(s, n, G[n - 1])]
  <2>2. G = E
    BY <2>1
  <2>. QED  BY <2>2, Zenon DEF Rebuilds
<1>. HIDE DEF G
<1>3. Rebuilds(s, F)
  BY <1>2, Zenon
<1>. HIDE DEF F
<1>4. /\ F[0] = [valid |-> Plausible(s), records |-> Initial]
      /\ \A n \in 1..N : F[n] = Step(s, n, F[n - 1])
  <2>1. \A n \in 0..N : F[n] = IF n = 0 THEN [valid |-> Plausible(s), records |-> Initial]
                               ELSE Step(s, n, F[n - 1])
    BY <1>3, Zenon DEF Rebuilds
  <2>2. 0 \in 0..N
    OBVIOUS
  <2>3. F[0] = [valid |-> Plausible(s), records |-> Initial]
    BY <2>1, <2>2, Zenon
  <2>4. ASSUME NEW n \in 1..N  PROVE F[n] = Step(s, n, F[n - 1])
    <3>1. n \in 0..N /\ n # 0
      OBVIOUS
    <3>. QED  BY <2>1, <3>1, Zenon
  <2>. QED  BY <2>3, <2>4
<1>5. \A n \in 0..N : F[n] = [valid |-> TRUE, records |-> Held(records, n)]
  <2>. DEFINE wrong == {n \in 0..N : F[n] # [valid |-> TRUE, records |-> Held(records, n)]}
  <2>1. SUFFICES wrong = {}
    OBVIOUS
  <2>2. SUFFICES ASSUME wrong # {}  PROVE FALSE
    OBVIOUS
  <2>3. PICK n \in wrong : \A m \in wrong : n <= m
    <3>1. wrong \in SUBSET Nat /\ wrong # {}
      BY <2>2
    <3>. HIDE DEF wrong
    <3>. QED  BY <3>1, FirstPosition
  <2>4. n # 0
    <3>1. Plausible(s) = TRUE
      BY DEF Plausible
    <3>. QED  BY <1>4, <3>1
  <2>5. n \in 1..N /\ n - 1 \in 0..N /\ n - 1 \notin wrong
    BY <2>3, <2>4
  <2>6. F[n - 1] = [valid |-> TRUE, records |-> Held(records, n - 1)]
    BY <2>5
  <2>. QED  BY <1>1, <1>4, <2>5, <2>6
<1>6. Rebuild(s) = F[N]
  BY RebuildUnrolled DEF F
<1>. QED  BY <1>5, <1>6

\* The complete log folds to what is known.
LEMMA FoldsToKnown == Inv /\ FoldInv => RebuildsAlike
<1>. SUFFICES ASSUME Inv, FoldInv  PROVE RebuildsAlike
  OBVIOUS
<1>1. Len(log) \in Nat /\ DOMAIN log = 1..Len(log)
  BY Appended DEF Inv
<1>2. Rebuild(log) = [valid |-> TRUE, records |-> Held(known, Len(log))]
  BY <1>1, StagesFold DEF FoldInv
<1>3. \A r \in known : r.id[1] <= Len(log)
  BY <1>1 DEF Inv, TypeOK
<1>4. Held(known, Len(log)) = known
  BY <1>3 DEF Held
<1>. QED  BY <1>2, <1>4 DEF RebuildsAlike

\* Rebuilding everybody's knowledge from the complete log always succeeds,
\* whatever anybody was let through to say, and yields what folding the events
\* one by one had yielded: a view is never lost, and no event changes in
\* hindsight what the earlier ones let people know.
THEOREM RebuildSucceeds == Spec => []RebuildsAlike
<1>. QED  BY InitFolds, Invariance, FoldStep, FoldsToKnown, PTL DEF Spec
=============================================================================
