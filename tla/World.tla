------------------------------- MODULE World -------------------------------
(***************************************************************************)
(* The Alderwick resource scenario: positions and routes, survival         *)
(* pressure, goods, purses and offers, as the movement, survival,          *)
(* inventory and trade handlers and the two scheduled inputs of the        *)
(* scenario change them under the kernel.  Every action takes time; the    *)
(* inputs that fall due while it runs commit before it completes, and its  *)
(* handler then looks at the world again.                                  *)
(*                                                                         *)
(* The kernel's side is what Timeline.tla promises: due inputs in key      *)
(* order, then the action.  What identifies a request, and who may submit  *)
(* it, is the session's business (Session.tla).                            *)
(***************************************************************************)
EXTENDS Integers, Sequences, FiniteSetsExt

CONSTANTS Actors, Locations, Items,
          Home,          \* the location every actor starts at
          Roads,         \* the routes at the start, by identity
          Fragile,       \* AFFECTED_ROUTES of the bridge
          Lookouts,      \* OBSERVABLE_LOCATIONS of the bridge
          Larder,        \* what every actor owns at the start
          Purses,        \* the balances at the start
          Listings,      \* the offers at the start, by identity
          Condition,     \* hunger and fatigue at the start
          Recovery,      \* the hunger a unit of a consumable item takes away
          Plan,          \* the scheduled inputs, in the order of insertion
          Priorities,    \* priorities of inputs
          Requests,      \* action requests
          MaxTime        \* the horizon

Cap == 100
HungerPerTick == 2
FatiguePerTick == 1
RestRecoveryPerTick == 3

Pressures == [hunger : 0..Cap, fatigue : 0..Cap]
Offers == [seller : Actors, item : Items, unit_price : Nat, active : BOOLEAN]
Routes == [origin : Locations, destination : Locations,
           traversal_cost : Nat \ {0}, passable : BOOLEAN]

ASSUME WorldAssumption ==
    /\ MaxTime \in Nat
    /\ Home \in [Actors -> Locations]
    /\ Roads \in [DOMAIN Roads -> Routes]
    /\ Fragile \subseteq DOMAIN Roads
    /\ \A id \in Fragile : Roads[id].passable
    /\ Larder \in [Actors -> [Items -> Nat]]
    /\ Purses \in [Actors -> Nat]
    /\ Listings \in [DOMAIN Listings -> Offers]
    /\ Condition \in [Actors -> Pressures]
    /\ DOMAIN Recovery \subseteq Items /\ Recovery \in [DOMAIN Recovery -> Nat \ {0}]
    /\ \A i \in DOMAIN Plan :
        /\ Plan[i].due \in 0..MaxTime /\ Plan[i].priority \in Priorities
        /\ Plan[i].kind \in {"SurvivalTick", "CollapseEastBridge", "TestReplace"}
        /\ Plan[i].kind = "TestReplace" => Plan[i].offers \in [DOMAIN Listings -> Offers]
    /\ Plan \in Seq({Plan[i] : i \in DOMAIN Plan})
    /\ \A r \in Requests :
        /\ r.actor \in Actors
        /\ r.kind \in {"MOVE", "WAIT", "REST", "CONSUME", "BUY"}
        /\ r.kind = "MOVE" => r.route \in DOMAIN Roads
        /\ r.kind \in {"WAIT", "REST"} => r.duration \in Nat \ {0}
        /\ r.kind = "CONSUME" => r.item \in Items
        /\ r.kind = "BUY" => r.offer \in DOMAIN Listings
        /\ r.kind \in {"CONSUME", "BUY"} => r.quantity \in Nat \ {0}

VARIABLES world,         \* the canonical state the handlers read and write
          time,          \* the committed logical time
          pending,       \* scheduled inputs still to execute
          inserted,      \* how many inputs of the plan have been scheduled
          action,        \* the action in progress: its request and its timing
          history        \* the committed transitions with the facts they emitted

vars == <<world, time, pending, inserted, action, history>>

Idle == [request |-> "none"]
NoData == "none"

Init ==
    /\ world = [position |-> Home, routes |-> Roads, bridge |-> "intact",
                goods |-> Larder, purse |-> Purses, offers |-> Listings,
                pressure |-> Condition]
    /\ time = 0
    /\ pending = {} /\ inserted = 0
    /\ action = Idle
    /\ history = <<>>
-----------------------------------------------------------------------------
(* What the action handlers require of a world and do to it.               *)

Lower(n, by) == IF by > n THEN 0 ELSE n - by

Raised(n, by) == IF n + by > Cap THEN Cap ELSE n + by

CanMove(r, w) ==
    /\ w.position[r.actor] = w.routes[r.route].origin
    /\ w.routes[r.route].passable

CanConsume(r, w) ==
    /\ r.item \in DOMAIN Recovery
    /\ w.goods[r.actor][r.item] >= r.quantity

Total(r, w) == w.offers[r.offer].unit_price * r.quantity

CanBuy(r, w) ==
    LET offer == w.offers[r.offer] IN
    /\ offer.active
    /\ r.actor # offer.seller
    /\ w.position[r.actor] = w.position[offer.seller]
    /\ w.goods[offer.seller][offer.item] >= r.quantity
    /\ w.purse[r.actor] >= Total(r, w)

\* validate, of the handler of the request.
Valid(r, w) ==
    /\ r.kind = "MOVE" => CanMove(r, w)
    /\ r.kind = "CONSUME" => CanConsume(r, w)
    /\ r.kind = "BUY" => CanBuy(r, w)

\* prepare: how long the action takes and what of the world it holds on to.
Duration(r, w) ==
    CASE r.kind \in {"WAIT", "REST"} -> r.duration
      [] r.kind = "MOVE" -> w.routes[r.route].traversal_cost
      [] r.kind \in {"CONSUME", "BUY"} -> 1

Course(r, w) == <<w.routes[r.route].origin, w.routes[r.route].destination>>

Data(r, w) ==
    CASE r.kind = "MOVE" -> Course(r, w)
      [] r.kind = "BUY" -> w.offers[r.offer]
      [] OTHER -> NoData

\* Fault: a crossing that has begun is let finish.
CompletesMoving(r, data, w) ==
    /\ r.kind = "MOVE" => data = Course(r, w)
    /\ r.kind = "BUY" => data = w.offers[r.offer]
    /\ r.kind # "MOVE" => Valid(r, w)

\* Fault: the offer only has to be open still.
CompletesRepriced(r, data, w) ==
    /\ r.kind = "MOVE" => data = Course(r, w)
    /\ Valid(r, w)

\* validate_completion: the world of the end, against what was held on to.
Completes(r, data, w) ==
    /\ r.kind = "MOVE" => data = Course(r, w)
    /\ r.kind = "BUY" => data = w.offers[r.offer]
    /\ Valid(r, w)

Moved(r, w) ==
    [w EXCEPT !.position = [@ EXCEPT ![r.actor] = w.routes[r.route].destination]]

Fed(r, w) == Lower(w.pressure[r.actor].hunger, Recovery[r.item] * r.quantity)

Consumed(r, w) ==
    LET owned == w.goods[r.actor]
        felt == w.pressure[r.actor]
    IN  [w EXCEPT
          !.goods = [@ EXCEPT ![r.actor] = [owned EXCEPT ![r.item] = owned[r.item] - r.quantity]],
          !.pressure = [@ EXCEPT ![r.actor] = [felt EXCEPT !.hunger = Fed(r, w)]]]

Refreshed(r, w) == Lower(w.pressure[r.actor].fatigue, RestRecoveryPerTick * r.duration)

Rested(r, w) ==
    LET felt == w.pressure[r.actor] IN
    [w EXCEPT !.pressure = [@ EXCEPT ![r.actor] = [felt EXCEPT !.fatigue = Refreshed(r, w)]]]

\* Both sides of the purchase are computed from the world before it.
Bought(r, w) ==
    LET offer == w.offers[r.offer]
        stock == w.goods[offer.seller]
        owned == w.goods[r.actor]
    IN  [w EXCEPT
          !.goods = [@ EXCEPT
              ![offer.seller] = [stock EXCEPT ![offer.item] = stock[offer.item] - r.quantity],
              ![r.actor] = [owned EXCEPT ![offer.item] = owned[offer.item] + r.quantity]],
          !.purse = [@ EXCEPT
              ![r.actor] = w.purse[r.actor] - Total(r, w),
              ![offer.seller] = w.purse[offer.seller] + Total(r, w)]]

\* The state a resolve plans.
Resolved(r, w) ==
    CASE r.kind = "MOVE" -> Moved(r, w)
      [] r.kind = "CONSUME" -> Consumed(r, w)
      [] r.kind = "REST" -> Rested(r, w)
      [] r.kind = "BUY" -> Bought(r, w)
      [] r.kind = "WAIT" -> w

\* Fault: the event says what the meal was worth, not what it changed.
MealUnclamped(r, w) ==
    [kind |-> "ItemConsumed", actor |-> r.actor, item |-> r.item, quantity |-> r.quantity,
     before |-> [hunger |-> w.pressure[r.actor].hunger],
     after |-> [hunger |-> w.pressure[r.actor].hunger - Recovery[r.item] * r.quantity]]

Meal(r, w) ==
    [kind |-> "ItemConsumed", actor |-> r.actor, item |-> r.item, quantity |-> r.quantity,
     before |-> [hunger |-> w.pressure[r.actor].hunger],
     after |-> [hunger |-> Fed(r, w)]]

\* The event a resolve emits; WAIT emits none.
Facts(r, w) ==
    CASE r.kind = "MOVE" ->
            {[kind |-> "ActorMoved", actor |-> r.actor, route |-> r.route,
              origin |-> w.routes[r.route].origin,
              destination |-> w.routes[r.route].destination]}
      [] r.kind = "CONSUME" -> {Meal(r, w)}
      [] r.kind = "REST" ->
            {[kind |-> "ActorRested", actor |-> r.actor,
              before |-> [fatigue |-> w.pressure[r.actor].fatigue],
              after |-> [fatigue |-> Refreshed(r, w)]]}
      [] r.kind = "BUY" ->
            {[kind |-> "ItemPurchased", actor |-> r.actor,
              seller |-> w.offers[r.offer].seller, item |-> w.offers[r.offer].item,
              quantity |-> r.quantity, total |-> Total(r, w)]}
      [] r.kind = "WAIT" -> {}
-----------------------------------------------------------------------------
(* The handlers of the scheduled inputs.                                   *)

\* close_routes
Closed(w) ==
    [id \in DOMAIN w.routes |->
        IF id \in Fragile THEN [w.routes[id] EXCEPT !.passable = FALSE] ELSE w.routes[id]]

\* Fault: only those who stand on the first lookout see it.
WitnessesOfOne(w) ==
    LET place == CHOOSE p \in Lookouts : TRUE IN {a \in Actors : w.position[a] = place}

\* bridge_witnesses
Witnesses(w) == {a \in Actors : w.position[a] \in Lookouts}

Worn(p) ==
    [hunger |-> Raised(p.hunger, HungerPerTick), fatigue |-> Raised(p.fatigue, FatiguePerTick)]

\* A collapsed bridge cannot collapse again: the handler raises.
InputValid(input, w) == input.kind = "CollapseEastBridge" => w.bridge = "intact"

InputResolved(input, w) ==
    CASE input.kind = "SurvivalTick" ->
            [w EXCEPT !.pressure = [a \in Actors |-> Worn(w.pressure[a])]]
      [] input.kind = "CollapseEastBridge" ->
            [w EXCEPT !.routes = Closed(w), !.bridge = "collapsed"]
      [] input.kind = "TestReplace" -> [w EXCEPT !.offers = input.offers]

InputFacts(input, w) ==
    CASE input.kind = "SurvivalTick" ->
            {[kind |-> "SurvivalAdvanced", actor |-> a,
              before |-> w.pressure[a], after |-> Worn(w.pressure[a])] : a \in Actors}
      [] input.kind = "CollapseEastBridge" ->
            {[kind |-> "BridgeCollapsed", witnesses |-> Witnesses(w)]}
      [] input.kind = "TestReplace" -> {}
-----------------------------------------------------------------------------
(* The calls of the kernel.                                                *)

Commit(kind, source, at, facts) ==
    history' = Append(history, [kind |-> kind, source |-> source, time |-> at, facts |-> facts])

Ready == inserted = Len(Plan)

Before(a, b) ==
    \/ a.due < b.due
    \/ a.due = b.due /\ a.priority < b.priority
    \/ a.due = b.due /\ a.priority = b.priority /\ a.insertion < b.insertion

IsHead(e) == e \in pending /\ \A other \in pending \ {e} : Before(e, other)

\* Fault: what is due at the target itself is left for the next call.
DueBefore(target) == \E e \in pending : e.due < target

Due(target) == \E e \in pending : e.due <= target

\* The composition root schedules the plan before anything happens.
Schedule ==
    /\ inserted < Len(Plan)
    /\ LET input == Plan[inserted + 1] IN
        pending' = pending \union
            {[due |-> input.due, priority |-> input.priority, insertion |-> inserted]}
    /\ inserted' = inserted + 1
    /\ UNCHANGED <<world, time, action, history>>

\* A due input commits, while an action runs or in an advance between actions.
Execute(e) ==
    /\ Ready
    /\ IsHead(e)
    /\ action # Idle => e.due <= action.until
    /\ LET input == Plan[e.insertion + 1] IN
        /\ InputValid(input, world)
        /\ world' = InputResolved(input, world)
        /\ Commit("SCHEDULED_EVENT", e.insertion, e.due, InputFacts(input, world))
    /\ time' = e.due
    /\ pending' = pending \ {e}
    /\ UNCHANGED <<inserted, action>>

\* Its handler raises: it stays pending, the clock is restored and the call of
\* the action ends without a result.
ExecuteFails(e) ==
    /\ Ready
    /\ IsHead(e)
    /\ action # Idle /\ e.due <= action.until
    /\ ~InputValid(Plan[e.insertion + 1], world)
    /\ action' = Idle
    /\ UNCHANGED <<world, time, pending, inserted, history>>

\* An advance over instants at which nothing is due.
Pass ==
    /\ Ready /\ action = Idle
    /\ \E t \in 0..MaxTime :
        /\ t > time /\ ~Due(t)
        /\ time' = t
    /\ UNCHANGED <<world, pending, inserted, action, history>>

\* The action passes its start validation and its timing is fixed.  One that
\* does not is REJECTED: neither the world nor the time changes.
Begin(r) ==
    /\ Ready /\ action = Idle
    /\ ~Due(time)
    /\ Valid(r, world)
    /\ time + Duration(r, world) <= MaxTime
    /\ action' = [request |-> r, started |-> time, until |-> time + Duration(r, world),
                  data |-> Data(r, world)]
    /\ UNCHANGED <<world, time, pending, inserted, history>>

\* The rest of the duration passes.
Elapse ==
    /\ action # Idle
    /\ time < action.until
    /\ ~Due(action.until)
    /\ time' = action.until
    /\ UNCHANGED <<world, pending, inserted, action, history>>

AtCompletion == action # Idle /\ time = action.until /\ ~Due(time)

Complete ==
    /\ AtCompletion
    /\ LET r == action.request IN
        /\ Completes(r, action.data, world)
        /\ world' = Resolved(r, world)
        /\ Commit("ACTION", r, time, Facts(r, world))
    /\ action' = Idle
    /\ UNCHANGED <<time, pending, inserted>>

\* FAILED: the time is spent, the inputs that committed stay, nothing else.
Fail ==
    /\ AtCompletion
    /\ ~Completes(action.request, action.data, world)
    /\ action' = Idle
    /\ UNCHANGED <<world, time, pending, inserted, history>>

Next ==
    \/ Schedule \/ Pass \/ Elapse \/ Complete \/ Fail
    \/ \E e \in pending : Execute(e) \/ ExecuteFails(e)
    \/ \E r \in Requests : Begin(r)

Spec == Init /\ [][Next]_vars
-----------------------------------------------------------------------------
(* Properties                                                              *)

\* Quantities and balances stay natural numbers and pressure stays within
\* 0..100, which every handler demands of what it reads.
TypeOK ==
    /\ world.position \in [Actors -> Locations]
    /\ world.routes \in [DOMAIN Roads -> Routes]
    /\ world.bridge \in {"intact", "collapsed"}
    /\ world.goods \in [Actors -> [Items -> Nat]]
    /\ world.purse \in [Actors -> Nat]
    /\ world.offers \in [DOMAIN Listings -> Offers]
    /\ world.pressure \in [Actors -> Pressures]
    /\ time \in 0..MaxTime
    /\ pending \subseteq
        [due : 0..MaxTime, priority : Priorities, insertion : 0..(Len(Plan) - 1)]
    /\ inserted \in 0..Len(Plan)
    /\ action = Idle \/ (action.request \in Requests /\ action.until \in 0..MaxTime)

\* The truth about the bridge and the state of its routes, kept in two modules,
\* agree: they change in one transition.
BridgeAgrees ==
    \A id \in Fragile : world.routes[id].passable <=> world.bridge = "intact"

\* The facts of the i-th transition.
FactsOf(i, kinds) == {f \in history[i].facts : f.kind \in kinds}

\* Whatever was under way, nobody arrives over the bridge once it is down.
NoCrossingAfterCollapse ==
    \A i, j \in DOMAIN history :
        /\ FactsOf(i, {"BridgeCollapsed"}) # {}
        /\ \E f \in FactsOf(j, {"ActorMoved"}) : f.route \in Fragile
        => j < i

\* Once it is down the bridge is closed, on both sides of the truth about it.
BridgeClosed == BridgeAgrees /\ NoCrossingAfterCollapse

\* Where an actor is after the first n transitions, by what was emitted.
PlaceAfter(n, a) ==
    LET moves == {i \in 1..n : \E f \in FactsOf(i, {"ActorMoved"}) : f.actor = a}
    IN  IF moves = {} THEN Home[a]
        ELSE (CHOOSE f \in history[Max(moves)].facts : TRUE).destination

\* An actor is where its last move took it and was, at every move, where the
\* move before had taken it: the route it was on began there.
MovesExplained ==
    /\ \A a \in Actors : world.position[a] = PlaceAfter(Len(history), a)
    /\ \A i \in DOMAIN history : \A f \in FactsOf(i, {"ActorMoved"}) :
        f.origin = PlaceAfter(i - 1, f.actor)

\* Who saw the bridge collapse stood in sight of it at that moment, and one who
\* was on the way still stood where the way began.
WitnessesPresent ==
    \A i \in DOMAIN history : \A f \in FactsOf(i, {"BridgeCollapsed"}) :
        f.witnesses = {a \in Actors : PlaceAfter(i - 1, a) \in Lookouts}

\* Where everybody is, and who saw what, follows from the committed moves alone.
TravelExplained == MovesExplained /\ WitnessesPresent

\* What a transition changed of a measure of an actor, by what it emitted.
Changes(facts, a, m) ==
    {f \in facts : /\ f.kind \in {"SurvivalAdvanced", "ItemConsumed", "ActorRested"}
                   /\ f.actor = a /\ m \in DOMAIN f.after}

Moments(n, a, m) == {i \in 1..n : Changes(history[i].facts, a, m) # {}}

\* The measure after the first n transitions.
PressureAfter(n, a, m) ==
    IF Moments(n, a, m) = {} THEN Condition[a][m]
    ELSE (CHOOSE f \in Changes(history[Max(Moments(n, a, m))].facts, a, m) : TRUE).after[m]

\* The emitted changes of one measure of one actor form a chain from the
\* start to the present: ticks inside an action are neither lost nor repeated.
\* No change leaves the range 0..100, which every handler demands of what it reads.
PressureExplained ==
    \A a \in Actors, m \in {"hunger", "fatigue"} :
        /\ world.pressure[a][m] = PressureAfter(Len(history), a, m)
        /\ world.pressure[a][m] \in 0..Cap
        /\ \A i \in DOMAIN history : \A f \in Changes(history[i].facts, a, m) :
            f.before[m] = PressureAfter(i - 1, a, m)

\* The purchases and meals that were emitted, each with its transition.
Transfers ==
    UNION {{<<i, f>> : f \in FactsOf(i, {"ItemPurchased", "ItemConsumed"})} : i \in DOMAIN history}

Purchases(transfers, a) == {x \in transfers : x[2].kind = "ItemPurchased" /\ x[2].actor = a}
Sales(transfers, a) == {x \in transfers : x[2].kind = "ItemPurchased" /\ x[2].seller = a}
Meals(transfers, a) == {x \in transfers : x[2].kind = "ItemConsumed" /\ x[2].actor = a}
Of(transfers, item) == {x \in transfers : x[2].item = item}

Summed(transfers, field) == MapThenSumSet(LAMBDA x : x[2][field], transfers)

\* What an actor has is what it began with and what the purchases and meals say
\* it gained and lost.
Balanced(w, transfers) ==
    \A a \in Actors :
        /\ w.purse[a] = Purses[a] - Summed(Purchases(transfers, a), "total")
                                  + Summed(Sales(transfers, a), "total")
        /\ \A item \in Items :
            w.goods[a][item] = Larder[a][item]
                + Summed(Of(Purchases(transfers, a), item), "quantity")
                - Summed(Of(Sales(transfers, a), item), "quantity")
                - Summed(Of(Meals(transfers, a), item), "quantity")

\* Money and goods are neither made nor lost: the emitted transfers account for
\* all that anybody has.
AccountsBalance == Balanced(world, Transfers)

\* How everybody is and what everybody has follows from the committed events.
LivingExplained == PressureExplained /\ AccountsBalance

\* A purchase costs what was asked when it began, is paid to the seller who
\* asked it, and is refused rather than made at a price that changed meanwhile.
QuoteHonoured ==
    [][world'.purse # world.purse =>
        LET quote == action.data
            r == action.request
        IN  /\ r.kind = "BUY"
            /\ world'.purse[r.actor] = world.purse[r.actor] - quote.unit_price * r.quantity
            /\ world'.purse[quote.seller] =
                   world.purse[quote.seller] + quote.unit_price * r.quantity]_vars

\* The world's transitions are the kernel's: in the order of the timeline, each
\* at its own instant, no input skipped, repeated or overtaken by an action.
Kernel ==
    INSTANCE Timeline WITH
        StartTime <- 0,
        committed <- Len(history),
        ledger <- {[sequence |-> i, time |-> history[i].time, kind |-> history[i].kind,
                    source |-> history[i].source] : i \in DOMAIN history}

ImplementsTimeline == Kernel!Spec
=============================================================================
