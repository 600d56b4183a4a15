---------------------------- MODULE WorldProofs ----------------------------
(***************************************************************************)
(* Theorems about the Alderwick world, for every map, plan and population: *)
(* the bridge, quotes, time, travel, and what everybody has and suffers.   *)
(***************************************************************************)
EXTENDS World, TLAPS, WellFoundedInduction, FiniteSetTheorems

Fields == {"position", "routes", "bridge", "goods", "purse", "offers", "pressure"}

(***************************************************************************)
(* The bridge.  Its condition and the passability of its routes change in  *)
(* the same transition, and the transition is in the history; a crossing   *)
(* commits only while the routes are passable, so that the ones in the     *)
(* history are all older than the collapse.                                *)
(***************************************************************************)
HasCollapse(facts) == \E f \in facts : f.kind = "BridgeCollapsed"
HasCrossing(facts) == \E f \in facts : f.kind = "ActorMoved" /\ f.route \in Fragile
Collapses(i) == HasCollapse(history[i].facts)
Crosses(i) == HasCrossing(history[i].facts)

BridgeInv ==
    /\ DOMAIN world = Fields
    /\ world.routes \in [DOMAIN Roads -> Routes]
    /\ world.bridge \in {"intact", "collapsed"}
    /\ BridgeAgrees
    /\ history \in Seq({history[i] : i \in DOMAIN history})
    /\ world.bridge = "intact" => \A i \in DOMAIN history : ~Collapses(i)
    /\ \A i, j \in DOMAIN history : Collapses(i) /\ Crosses(j) => j < i
    /\ action = Idle \/ action.request \in Requests
    /\ inserted \in Nat
    /\ \A e \in pending : e.insertion + 1 \in DOMAIN Plan

\* At the start the bridge is intact and nothing has happened.
LEMMA BridgeInit == Init => BridgeInv
<1>. SUFFICES ASSUME Init  PROVE BridgeInv
  OBVIOUS
<1>1. /\ DOMAIN world = Fields /\ world.routes = Roads /\ world.bridge = "intact"
      /\ history = <<>> /\ action = Idle /\ inserted = 0 /\ pending = {}
  BY DEF Init, Fields
<1>2. (\A id \in Fragile : Roads[id].passable) /\ Roads \in [DOMAIN Roads -> Routes]
  BY WorldAssumption
<1>. QED  BY <1>1, <1>2 DEF BridgeInv, BridgeAgrees

\* What an action plans leaves the routes and the bridge alone.
LEMMA ActionsKeepRoutes ==
    ASSUME NEW w, DOMAIN w = Fields, NEW r \in Requests
    PROVE  /\ DOMAIN Resolved(r, w) = Fields
           /\ Resolved(r, w).routes = w.routes
           /\ Resolved(r, w).bridge = w.bridge
<1>1. r.kind \in {"MOVE", "WAIT", "REST", "CONSUME", "BUY"}
  BY WorldAssumption
<1>2. CASE r.kind = "MOVE"
  BY <1>2 DEF Resolved, Moved, Fields
<1>3. CASE r.kind = "WAIT"
  BY <1>3 DEF Resolved
<1>4. CASE r.kind = "REST"
  BY <1>4 DEF Resolved, Rested, Fields
<1>5. CASE r.kind = "CONSUME"
  BY <1>5 DEF Resolved, Consumed, Fields
<1>6. CASE r.kind = "BUY"
  BY <1>6 DEF Resolved, Bought, Fields
<1>. QED  BY <1>1, <1>2, <1>3, <1>4, <1>5, <1>6

\* What an action emits: never a collapse, and a crossing only over a passable
\* route.
LEMMA ActionsEmit ==
    ASSUME NEW w, NEW r \in Requests, Valid(r, w), NEW f \in Facts(r, w)
    PROVE  /\ f.kind # "BridgeCollapsed"
           /\ f.kind = "ActorMoved" => w.routes[f.route].passable
<1>1. r.kind \in {"MOVE", "WAIT", "REST", "CONSUME", "BUY"}
  BY WorldAssumption
<1>2. CASE r.kind = "MOVE"
  BY <1>2 DEF Facts, Valid, CanMove
<1>3. CASE r.kind = "WAIT"
  BY <1>3 DEF Facts
<1>4. CASE r.kind = "REST"
  BY <1>4 DEF Facts
<1>5. CASE r.kind = "CONSUME"
  BY <1>5 DEF Facts, Meal
<1>6. CASE r.kind = "BUY"
  BY <1>6 DEF Facts
<1>. QED  BY <1>1, <1>2, <1>3, <1>4, <1>5, <1>6

\* One transition is added after the others.
LEMMA TransitionAdded ==
    ASSUME history \in Seq({history[i] : i \in DOMAIN history}),
           NEW kind, NEW source, NEW at, NEW facts, Commit(kind, source, at, facts)
    PROVE  /\ Len(history) \in Nat /\ DOMAIN history = 1..Len(history)
           /\ DOMAIN history' = 1..(Len(history) + 1)
           /\ \A i \in DOMAIN history : history'[i] = history[i]
           /\ history'[Len(history) + 1].facts = facts
           /\ history' \in Seq({history'[i] : i \in DOMAIN history'})
<1>. DEFINE S == {history[i] : i \in DOMAIN history}
            new == [kind |-> kind, source |-> source, time |-> at, facts |-> facts]
<1>1. history' = Append(history, new) /\ history \in Seq(S)
  BY DEF Commit
<1>. HIDE DEF S
<1>2. new.facts = facts
  OBVIOUS
<1>. HIDE DEF new
<1>3. /\ Len(history) \in Nat /\ DOMAIN history = 1..Len(history)
      /\ DOMAIN history' = 1..(Len(history) + 1)
      /\ \A i \in DOMAIN history : history'[i] = history[i]
      /\ history'[Len(history) + 1] = new
  BY <1>1
<1>4. history' \in Seq({history'[i] : i \in DOMAIN history'})
  <2>1. history' \in Seq(S \union {new})
    BY <1>1
  <2>2. S \union {new} \subseteq {history'[i] : i \in DOMAIN history'}
    BY <1>3 DEF S
  <2>. DEFINE T == {history'[i] : i \in DOMAIN history'}
  <2>3. \A i \in 1..Len(history') : history'[i] \in T
    BY <1>3, <2>1
  <2>. HIDE DEF T
  <2>4. S \union {new} \subseteq T
    BY <2>2 DEF T
  <2>5. history' \in Seq(T)
    BY <2>1, <2>4
  <2>. QED  BY <2>5 DEF T
<1>. QED  BY <1>2, <1>3, <1>4

\* Every step of the world keeps the invariant of the bridge.
LEMMA BridgeStep == BridgeInv /\ [Next]_vars => BridgeInv'
<1>. SUFFICES ASSUME BridgeInv, [Next]_vars  PROVE BridgeInv'
  OBVIOUS
<1>. DEFINE n == Len(history)
<1>1. CASE /\ UNCHANGED <<world, history, inserted, pending>>
           /\ action' = action \/ action' = Idle
  BY <1>1 DEF BridgeInv, BridgeAgrees, Collapses, Crosses
<1>2. CASE Schedule
  <2>1. inserted + 1 \in DOMAIN Plan
    BY <1>2, WorldAssumption DEF Schedule, BridgeInv
  <2>. QED  BY <1>2, <2>1 DEF Schedule, BridgeInv, BridgeAgrees, Collapses, Crosses
<1>3. ASSUME NEW r \in Requests, Begin(r)
      PROVE  BridgeInv'
  <2>1. UNCHANGED <<world, history, inserted, pending>> /\ action'.request = r
    BY <1>3 DEF Begin
  <2>. QED  BY <2>1 DEF BridgeInv, BridgeAgrees, Collapses, Crosses
<1>4. ASSUME NEW facts, NEW kind, NEW source, NEW at, Commit(kind, source, at, facts),
             DOMAIN world' = Fields, world'.routes \in [DOMAIN Roads -> Routes],
             world'.bridge \in {"intact", "collapsed"}, BridgeAgrees',
             HasCrossing(facts) => world.bridge = "intact",
             world'.bridge = "intact" => world.bridge = "intact",
             HasCollapse(facts) => world'.bridge # "intact" /\ ~HasCrossing(facts),
             action' = action \/ action' = Idle,
             inserted' = inserted, pending' \subseteq pending
      PROVE  BridgeInv'
  <2>1. /\ n \in Nat /\ DOMAIN history = 1..n /\ DOMAIN history' = 1..(n + 1)
        /\ \A i \in 1..n : history'[i] = history[i]
        /\ history'[n + 1].facts = facts
        /\ history' \in Seq({history'[i] : i \in DOMAIN history'})
    BY <1>4, TransitionAdded DEF BridgeInv
  <2>2. ASSUME NEW i \in DOMAIN history'
        PROVE  \/ /\ i \in 1..n
                  /\ Collapses(i)' <=> Collapses(i)
                  /\ Crosses(i)' <=> Crosses(i)
               \/ /\ i = n + 1
                  /\ Collapses(i)' <=> HasCollapse(facts)
                  /\ Crosses(i)' <=> HasCrossing(facts)
    BY <2>1, <2>2 DEF Collapses, Crosses
  <2>3. world'.bridge = "intact" => \A i \in DOMAIN history' : ~Collapses(i)'
    BY <1>4, <2>1, <2>2 DEF BridgeInv
  <2>4. ASSUME NEW i \in DOMAIN history', NEW j \in DOMAIN history',
               Collapses(i)', Crosses(j)'
        PROVE  j < i
    <3>1. CASE i \in 1..n /\ j \in 1..n
      BY <2>1, <2>2, <2>4, <3>1 DEF BridgeInv
    <3>2. CASE i = n + 1 /\ j \in 1..n
      BY <2>1, <3>2
    <3>3. CASE j = n + 1
      <4>1. HasCrossing(facts)
        BY <2>1, <2>2, <2>4, <3>3
      <4>2. world.bridge = "intact" /\ ~HasCollapse(facts)
        BY <1>4, <4>1
      <4>. QED  BY <2>1, <2>2, <2>4, <4>2 DEF BridgeInv
    <3>. QED  BY <2>1, <3>1, <3>2, <3>3
  <2>. QED  BY <1>4, <2>1, <2>3, <2>4 DEF BridgeInv
<1>5. CASE Complete
  <2>. DEFINE r == action.request
  <2>1. /\ r \in Requests /\ Valid(r, world) /\ world' = Resolved(r, world)
        /\ Commit("ACTION", r, time, Facts(r, world)) /\ action' = Idle
        /\ UNCHANGED <<inserted, pending>>
    BY <1>5 DEF Complete, AtCompletion, Completes, BridgeInv
  <2>. HIDE DEF r
  <2>2. /\ DOMAIN world' = Fields /\ world'.routes = world.routes
        /\ world'.bridge = world.bridge
    BY <2>1, ActionsKeepRoutes DEF BridgeInv
  <2>3. ~HasCollapse(Facts(r, world))
    BY <2>1, ActionsEmit DEF HasCollapse
  <2>4. HasCrossing(Facts(r, world)) => world.bridge = "intact"
    BY <2>1, ActionsEmit DEF HasCrossing, BridgeInv, BridgeAgrees
  <2>5. BridgeAgrees'
    BY <2>2 DEF BridgeInv, BridgeAgrees
  <2>. QED  BY <1>4, <2>1, <2>2, <2>3, <2>4, <2>5 DEF BridgeInv
<1>6. ASSUME NEW e \in pending, Execute(e)
      PROVE  BridgeInv'
  <2>. DEFINE input == Plan[e.insertion + 1]
              facts == InputFacts(input, world)
  <2>1. /\ world' = InputResolved(input, world)
        /\ Commit("SCHEDULED_EVENT", e.insertion, e.due, facts) /\ action' = action
        /\ inserted' = inserted /\ pending' \subseteq pending
    BY <1>6 DEF Execute
  <2>2. input.kind \in {"SurvivalTick", "CollapseEastBridge", "TestReplace"}
    BY WorldAssumption DEF BridgeInv
  <2>. HIDE DEF input
  <2>3. ~HasCrossing(facts)
    BY <2>2 DEF InputFacts, HasCrossing
  <2>4. CASE input.kind = "CollapseEastBridge"
    <3>1. /\ DOMAIN world' = Fields /\ world'.routes = Closed(world)
          /\ world'.bridge = "collapsed"
      BY <2>1, <2>4 DEF InputResolved, Fields, BridgeInv
    <3>2. /\ world'.routes \in [DOMAIN Roads -> Routes]
          /\ \A id \in Fragile : ~world'.routes[id].passable
      <4>1. ASSUME NEW route \in Routes
            PROVE  /\ [route EXCEPT !.passable = FALSE] \in Routes
                   /\ [route EXCEPT !.passable = FALSE].passable = FALSE
        BY DEF Routes
      <4>. QED  BY <3>1, <4>1, WorldAssumption DEF Closed, BridgeInv
    <3>3. BridgeAgrees'
      BY <3>1, <3>2 DEF BridgeAgrees
    <3>. HIDE DEF facts
    <3>. QED  BY <1>4, <2>1, <2>3, <3>1, <3>2, <3>3
  <2>5. CASE input.kind # "CollapseEastBridge"
    <3>1. /\ DOMAIN world' = Fields /\ world'.routes = world.routes
          /\ world'.bridge = world.bridge
      BY <2>1, <2>2, <2>5 DEF InputResolved, Fields, BridgeInv
    <3>2. ~HasCollapse(facts)
      BY <2>2, <2>5 DEF InputFacts, HasCollapse
    <3>3. BridgeAgrees'
      BY <3>1 DEF BridgeInv, BridgeAgrees
    <3>. HIDE DEF facts
    <3>. QED  BY <1>4, <2>1, <2>3, <3>1, <3>2, <3>3 DEF BridgeInv
  <2>. QED  BY <2>4, <2>5
<1>. QED
  BY <1>1, <1>2, <1>3, <1>5, <1>6
  DEF Next, vars, Pass, Elapse, Fail, ExecuteFails

\* A fact of one kind is among the facts of that kind.
LEMMA FactsFound ==
    ASSUME NEW i
    PROVE  /\ FactsOf(i, {"BridgeCollapsed"}) # {} => Collapses(i)
           /\ (\E f \in FactsOf(i, {"ActorMoved"}) : f.route \in Fragile) => Crosses(i)
BY DEF FactsOf, Collapses, HasCollapse, Crosses, HasCrossing

\* The bridge and its routes agree in every state, and nobody arrives over the
\* bridge after it collapsed, on whatever map and with whatever was under way.
THEOREM BridgeStaysClosed == Spec => []BridgeClosed
<1>1. BridgeInv => BridgeAgrees
  BY DEF BridgeInv
<1>2. BridgeInv => NoCrossingAfterCollapse
  BY FactsFound DEF BridgeInv, NoCrossingAfterCollapse
<1>. QED  BY <1>1, <1>2, BridgeInit, BridgeStep, PTL DEF Spec, BridgeClosed

(***************************************************************************)
(* Types.  What can leave them are the subtractions: of goods that are     *)
(* eaten or sold and of money that is paid, which validate_completion      *)
(* bounds, and of pressure, which is cut off at 0 and at Cap.              *)
(***************************************************************************)
Typed(w) ==
    /\ DOMAIN w = Fields
    /\ w.position \in [Actors -> Locations]
    /\ w.routes \in [DOMAIN Roads -> Routes]
    /\ w.bridge \in {"intact", "collapsed"}
    /\ w.goods \in [Actors -> [Items -> Nat]]
    /\ w.purse \in [Actors -> Nat]
    /\ w.offers \in [DOMAIN Listings -> Offers]
    /\ w.pressure \in [Actors -> Pressures]

Entries == [due : 0..MaxTime, priority : Priorities, insertion : 0..(Len(Plan) - 1)]

TypeInv ==
    /\ Typed(world)
    /\ time \in 0..MaxTime
    /\ pending \subseteq Entries
    /\ inserted \in 0..Len(Plan)
    /\ action = Idle \/ (action.request \in Requests /\ action.until \in 0..MaxTime)

\* Pressure that is lowered or raised stays within its bounds.
LEMMA PressureBounded ==
    ASSUME NEW n \in 0..Cap, NEW by \in Nat
    PROVE  Lower(n, by) \in 0..Cap /\ Raised(n, by) \in 0..Cap
BY DEF Lower, Raised, Cap

\* What a handler changes of one actor's pressure leaves a pressure.
LEMMA PressureKept ==
    ASSUME NEW table \in [Actors -> Pressures], NEW a \in Actors, NEW n \in 0..Cap
    PROVE  /\ [table EXCEPT ![a] = [@ EXCEPT !.hunger = n]] \in [Actors -> Pressures]
           /\ [table EXCEPT ![a] = [@ EXCEPT !.fatigue = n]] \in [Actors -> Pressures]
<1>1. table[a] \in Pressures
  OBVIOUS
<1>2. /\ [table[a] EXCEPT !.hunger = n] \in Pressures
      /\ [table[a] EXCEPT !.fatigue = n] \in Pressures
  BY <1>1 DEF Pressures
<1>. QED  BY <1>2

\* The product of two natural numbers is one.
LEMMA ProductNat == ASSUME NEW m \in Nat, NEW n \in Nat  PROVE m * n \in Nat
OBVIOUS

\* An action that is valid in a well-formed world plans a well-formed world.
LEMMA ResolvedTyped ==
    ASSUME NEW w, Typed(w), NEW r \in Requests, Valid(r, w)
    PROVE  Typed(Resolved(r, w))
<1>1. r.kind \in {"MOVE", "WAIT", "REST", "CONSUME", "BUY"} /\ r.actor \in Actors
  BY WorldAssumption
<1>2. CASE r.kind = "MOVE"
  <2>1. w.routes[r.route].destination \in Locations
    BY <1>2, WorldAssumption DEF Typed, Routes
  <2>2. [w.position EXCEPT ![r.actor] = w.routes[r.route].destination]
            \in [Actors -> Locations]
    BY <1>1, <2>1 DEF Typed
  <2>. QED  BY <1>2, <2>2 DEF Typed, Resolved, Moved, Fields
<1>3. CASE r.kind = "WAIT"
  BY <1>3 DEF Resolved
<1>4. CASE r.kind = "REST"
  <2>1. w.pressure[r.actor].fatigue \in 0..Cap /\ RestRecoveryPerTick * r.duration \in Nat
    BY <1>1, <1>4, WorldAssumption DEF Typed, Pressures, RestRecoveryPerTick
  <2>2. Refreshed(r, w) \in 0..Cap
    BY <2>1, PressureBounded DEF Refreshed
  <2>3. [w.pressure EXCEPT ![r.actor] = [@ EXCEPT !.fatigue = Refreshed(r, w)]]
            \in [Actors -> Pressures]
    BY <1>1, <2>2, PressureKept DEF Typed
  <2>. QED  BY <1>4, <2>3 DEF Typed, Resolved, Rested, Fields
<1>5. CASE r.kind = "CONSUME"
  <2>1. /\ r.item \in Items /\ r.item \in DOMAIN Recovery /\ r.quantity \in Nat
        /\ w.goods[r.actor][r.item] >= r.quantity
    BY <1>1, <1>5, WorldAssumption DEF Valid, CanConsume
  <2>2. w.goods[r.actor] \in [Items -> Nat] /\ w.goods[r.actor][r.item] \in Nat
    BY <1>1, <2>1 DEF Typed
  <2>3. w.goods[r.actor][r.item] - r.quantity \in Nat
    BY <2>1, <2>2
  <2>. DEFINE owned == w.goods[r.actor]
  <2>4. [w.goods EXCEPT ![r.actor] = [owned EXCEPT ![r.item] = owned[r.item] - r.quantity]]
            \in [Actors -> [Items -> Nat]]
    BY <1>1, <2>1, <2>2, <2>3 DEF Typed
  <2>5. w.pressure[r.actor].hunger \in 0..Cap /\ Recovery[r.item] \in Nat
    BY <1>1, <2>1, WorldAssumption DEF Typed, Pressures
  <2>6. Recovery[r.item] * r.quantity \in Nat
    BY <2>1, <2>5, ProductNat
  <2>7. Fed(r, w) \in 0..Cap
    BY <2>5, <2>6, PressureBounded DEF Fed
  <2>8. [w.pressure EXCEPT ![r.actor] = [@ EXCEPT !.hunger = Fed(r, w)]]
            \in [Actors -> Pressures]
    BY <1>1, <2>7, PressureKept, Zenon DEF Typed
  <2>. QED  BY <1>5, <2>4, <2>8 DEF Typed, Resolved, Consumed, Fields
<1>6. CASE r.kind = "BUY"
  <2>. DEFINE seller == w.offers[r.offer].seller
              item == w.offers[r.offer].item
              buyer == r.actor
              left == w.goods[seller][item] - r.quantity
              got == w.goods[buyer][item] + r.quantity
  <2>1. /\ seller \in Actors /\ item \in Items /\ w.offers[r.offer].unit_price \in Nat
        /\ buyer \in Actors /\ r.quantity \in Nat
    BY <1>1, <1>6, WorldAssumption DEF Typed, Offers
  <2>2. /\ w.goods[seller][item] >= r.quantity /\ w.purse[buyer] >= Total(r, w)
    BY <1>6 DEF Valid, CanBuy
  <2>3. Total(r, w) \in Nat
    BY <2>1, ProductNat DEF Total
  <2>4. /\ w.goods[seller] \in [Items -> Nat] /\ w.goods[buyer] \in [Items -> Nat]
        /\ w.purse[seller] \in Nat /\ w.purse[buyer] \in Nat
    BY <2>1, SMTT(30) DEF Typed
  <2>. DEFINE paid == w.purse[buyer] - Total(r, w)
              earned == w.purse[seller] + Total(r, w)
  <2>5. left \in Nat /\ got \in Nat /\ paid \in Nat /\ earned \in Nat
    BY <2>1, <2>2, <2>3, <2>4, SMTT(30)
  <2>6. /\ Resolved(r, w).goods = [w.goods EXCEPT ![seller] = [w.goods[seller] EXCEPT ![item] = left],
                                                ![buyer] = [w.goods[buyer] EXCEPT ![item] = got]]
        /\ Resolved(r, w).purse = [w.purse EXCEPT ![buyer] = paid, ![seller] = earned]
        /\ DOMAIN Resolved(r, w) = Fields
        /\ \A f \in Fields \ {"goods", "purse"} : Resolved(r, w)[f] = w[f]
    BY <1>6, ZenonT(30) DEF Resolved, Bought, Typed, Fields
  <2>. HIDE DEF left, got, paid, earned
  <2>7. Resolved(r, w).purse \in [Actors -> Nat]
    BY <2>1, <2>5, <2>6, ZenonT(30) DEF Typed
  <2>8. Resolved(r, w).goods \in [Actors -> [Items -> Nat]]
    <3>1. /\ [w.goods[seller] EXCEPT ![item] = left] \in [Items -> Nat]
          /\ [w.goods[buyer] EXCEPT ![item] = got] \in [Items -> Nat]
      BY <2>4, <2>5
    <3>. QED  BY <2>1, <2>6, <3>1, ZenonT(30) DEF Typed
  <2>. QED  BY <2>6, <2>7, <2>8, Zenon DEF Typed, Fields
<1>. QED  BY <1>1, <1>2, <1>3, <1>4, <1>5, <1>6

\* So does a scheduled input.
LEMMA InputTyped ==
    ASSUME NEW w, Typed(w), NEW input,
           input.kind \in {"SurvivalTick", "CollapseEastBridge", "TestReplace"},
           input.kind = "TestReplace" => input.offers \in [DOMAIN Listings -> Offers]
    PROVE  Typed(InputResolved(input, w))
<1>2. CASE input.kind = "SurvivalTick"
  <2>1. ASSUME NEW a \in Actors  PROVE Worn(w.pressure[a]) \in Pressures
    <3>1. w.pressure[a].hunger \in 0..Cap /\ w.pressure[a].fatigue \in 0..Cap
      BY DEF Typed, Pressures
    <3>2. HungerPerTick \in Nat /\ FatiguePerTick \in Nat
      BY DEF HungerPerTick, FatiguePerTick
    <3>. QED  BY <3>1, <3>2, PressureBounded DEF Worn, Pressures
  <2>2. [a \in Actors |-> Worn(w.pressure[a])] \in [Actors -> Pressures]
    BY <2>1
  <2>. QED  BY <1>2, <2>2 DEF InputResolved, Typed, Fields
<1>3. CASE input.kind = "CollapseEastBridge"
  <2>1. ASSUME NEW route \in Routes  PROVE [route EXCEPT !.passable = FALSE] \in Routes
    BY DEF Routes
  <2>2. Closed(w) \in [DOMAIN Roads -> Routes]
    BY <2>1 DEF Closed, Typed
  <2>. QED  BY <1>3, <2>2 DEF InputResolved, Typed, Fields
<1>4. CASE input.kind = "TestReplace"
  BY <1>4 DEF InputResolved, Typed, Fields
<1>. QED  BY <1>2, <1>3, <1>4

\* The world of the configuration is well-formed.
LEMMA TypeInit == Init => TypeInv
<1>. SUFFICES ASSUME Init  PROVE TypeInv
  OBVIOUS
<1>1. /\ Home \in [Actors -> Locations] /\ Roads \in [DOMAIN Roads -> Routes]
      /\ Larder \in [Actors -> [Items -> Nat]] /\ Purses \in [Actors -> Nat]
      /\ Listings \in [DOMAIN Listings -> Offers] /\ Condition \in [Actors -> Pressures]
      /\ MaxTime \in Nat /\ Len(Plan) \in Nat
  BY WorldAssumption
<1>2. Typed(world)
  BY <1>1 DEF Init, Typed, Fields
<1>. QED  BY <1>1, <1>2 DEF Init, TypeInv

\* Every step keeps the types; only Complete and Execute change the world.
LEMMA TypeStep == TypeInv /\ [Next]_vars => TypeInv'
<1>. SUFFICES ASSUME TypeInv, [Next]_vars  PROVE TypeInv'
  OBVIOUS
<1>0. MaxTime \in Nat /\ Len(Plan) \in Nat /\ DOMAIN Plan = 1..Len(Plan)
  BY WorldAssumption
<1>1. CASE UNCHANGED vars
  BY <1>1 DEF vars, TypeInv
<1>2. CASE Schedule
  <2>. DEFINE input == Plan[inserted + 1]
  <2>1. inserted \in 0..(Len(Plan) - 1) /\ inserted + 1 \in DOMAIN Plan
    BY <1>0, <1>2 DEF Schedule, TypeInv
  <2>2. input.due \in 0..MaxTime /\ input.priority \in Priorities
    BY <2>1, WorldAssumption
  <2>3. pending' = pending \union
            {[due |-> input.due, priority |-> input.priority, insertion |-> inserted]}
    BY <1>2 DEF Schedule
  <2>. HIDE DEF input
  <2>4. pending' \subseteq Entries
    BY <2>1, <2>2, <2>3 DEF TypeInv, Entries
  <2>5. inserted' \in 0..Len(Plan) /\ UNCHANGED <<world, time, action>>
    BY <1>0, <1>2, <2>1 DEF Schedule
  <2>. QED  BY <2>4, <2>5 DEF TypeInv
<1>3. CASE Pass
  BY <1>3 DEF Pass, TypeInv
<1>4. CASE Elapse
  BY <1>4 DEF Elapse, TypeInv
<1>5. CASE Complete
  <2>. DEFINE r == action.request
  <2>1. /\ r \in Requests /\ Valid(r, world) /\ world' = Resolved(r, world)
        /\ action' = Idle /\ UNCHANGED <<time, pending, inserted>>
    BY <1>5 DEF Complete, AtCompletion, Completes, TypeInv
  <2>. HIDE DEF r
  <2>2. Typed(world')
    BY <2>1, ResolvedTyped DEF TypeInv
  <2>. QED  BY <2>1, <2>2 DEF TypeInv
<1>6. CASE Fail
  BY <1>6 DEF Fail, TypeInv
<1>7. ASSUME NEW e \in pending, Execute(e)
      PROVE  TypeInv'
  <2>1. e \in Entries /\ e.insertion + 1 \in DOMAIN Plan /\ e.due \in 0..MaxTime
    BY <1>0 DEF TypeInv, Entries
  <2>2. /\ world' = InputResolved(Plan[e.insertion + 1], world)
        /\ time' = e.due /\ pending' \subseteq pending /\ UNCHANGED <<inserted, action>>
    BY <1>7 DEF Execute
  <2>. DEFINE input == Plan[e.insertion + 1]
  <2>3. /\ input.kind \in {"SurvivalTick", "CollapseEastBridge", "TestReplace"}
        /\ input.kind = "TestReplace" => input.offers \in [DOMAIN Listings -> Offers]
    BY <2>1, WorldAssumption
  <2>. HIDE DEF input
  <2>4. Typed(InputResolved(input, world))
    BY <2>3, InputTyped DEF TypeInv
  <2>5. Typed(world')
    BY <2>2, <2>4 DEF input
  <2>. QED  BY <2>1, <2>2, <2>5 DEF TypeInv
<1>8. ASSUME NEW e \in pending, ExecuteFails(e)
      PROVE  TypeInv'
  BY <1>8 DEF ExecuteFails, TypeInv
<1>9. ASSUME NEW r \in Requests, Begin(r)
      PROVE  TypeInv'
  <2>1. Duration(r, world) \in Nat
    <3>1. r.kind \in {"MOVE", "WAIT", "REST", "CONSUME", "BUY"}
      BY WorldAssumption
    <3>2. r.kind \in {"WAIT", "REST"} => r.duration \in Nat
      BY WorldAssumption
    <3>3. r.kind = "MOVE" => world.routes[r.route].traversal_cost \in Nat
      BY WorldAssumption DEF TypeInv, Typed, Routes
    <3>. QED  BY <3>1, <3>2, <3>3 DEF Duration
  <2>2. time + Duration(r, world) \in 0..MaxTime
    BY <1>0, <1>9, <2>1 DEF Begin, TypeInv
  <2>3. /\ action'.request = r /\ action'.until = time + Duration(r, world)
        /\ UNCHANGED <<world, time, pending, inserted>>
    BY <1>9 DEF Begin
  <2>. QED  BY <2>2, <2>3 DEF TypeInv
<1>. QED
  BY <1>1, <1>2, <1>3, <1>4, <1>5, <1>6, <1>7, <1>8, <1>9 DEF Next

\* No sequence of actions and inputs makes a quantity or a balance negative or
\* takes a pressure out of its bounds, on whatever map and at whatever prices.
THEOREM TypesKept == Spec => []TypeOK
<1>1. TypeInv => TypeOK
  BY DEF TypeInv, Typed, TypeOK, Entries
<1>. QED  BY <1>1, TypeInit, TypeStep, PTL DEF Spec

(***************************************************************************)
(* Purses.  Only a purchase touches them, and its completion compares the  *)
(* offer with the one it began with; buyer and seller are different, so    *)
(* that neither half of the payment overwrites the other.                  *)
(***************************************************************************)

\* A purchase moves the price of the whole quantity from the buyer to the seller.
LEMMA PaymentMade ==
    ASSUME NEW w, Typed(w), NEW r \in Requests, Valid(r, w)
    PROVE  /\ r.kind # "BUY" => Resolved(r, w).purse = w.purse
           /\ r.kind = "BUY" =>
                LET seller == w.offers[r.offer].seller IN
                /\ Resolved(r, w).purse[r.actor] = w.purse[r.actor] - Total(r, w)
                /\ Resolved(r, w).purse[seller] = w.purse[seller] + Total(r, w)
<1>1. r.kind \in {"MOVE", "WAIT", "REST", "CONSUME", "BUY"} /\ r.actor \in Actors
  BY WorldAssumption
<1>2. CASE r.kind = "MOVE"
  BY <1>2 DEF Resolved, Moved, Typed, Fields
<1>3. CASE r.kind = "WAIT"
  BY <1>3 DEF Resolved
<1>4. CASE r.kind = "REST"
  BY <1>4 DEF Resolved, Rested, Typed, Fields
<1>5. CASE r.kind = "CONSUME"
  BY <1>5 DEF Resolved, Consumed, Typed, Fields
<1>6. CASE r.kind = "BUY"
  <2>. DEFINE seller == w.offers[r.offer].seller
              paid == w.purse[r.actor] - Total(r, w)
              earned == w.purse[seller] + Total(r, w)
  <2>1. seller \in Actors
    BY <1>6, WorldAssumption DEF Typed, Offers
  <2>2. r.actor # seller
    BY <1>6 DEF Valid, CanBuy
  <2>3. Resolved(r, w).purse = [w.purse EXCEPT ![r.actor] = paid, ![seller] = earned]
    BY <1>6 DEF Resolved, Bought, Typed, Fields
  <2>. HIDE DEF paid, earned
  <2>4. Resolved(r, w).purse[r.actor] = paid /\ Resolved(r, w).purse[seller] = earned
    BY <1>1, <2>1, <2>2, <2>3 DEF Typed
  <2>. QED  BY <1>6, <2>4 DEF paid, earned
<1>. QED  BY <1>1, <1>2, <1>3, <1>4, <1>5, <1>6

\* No scheduled input touches a purse.
LEMMA InputsKeepPurses ==
    ASSUME NEW w, Typed(w), NEW input,
           input.kind \in {"SurvivalTick", "CollapseEastBridge", "TestReplace"}
    PROVE  InputResolved(input, w).purse = w.purse
<1>1. CASE input.kind = "SurvivalTick"
  BY <1>1 DEF InputResolved, Typed, Fields
<1>2. CASE input.kind = "CollapseEastBridge"
  BY <1>2 DEF InputResolved, Typed, Fields
<1>3. CASE input.kind = "TestReplace"
  BY <1>3 DEF InputResolved, Typed, Fields
<1>. QED  BY <1>1, <1>2, <1>3

\* Whenever money moves, a purchase completes at the price it began with.
LEMMA QuoteStep ==
    TypeInv /\ [Next]_vars =>
        (world'.purse # world.purse =>
            LET quote == action.data
                r == action.request
            IN  /\ r.kind = "BUY"
                /\ world'.purse[r.actor] = world.purse[r.actor] - quote.unit_price * r.quantity
                /\ world'.purse[quote.seller] =
                       world.purse[quote.seller] + quote.unit_price * r.quantity)
<1>. DEFINE r == action.request
            quote == action.data
            Honoured == /\ r.kind = "BUY"
                        /\ world'.purse[r.actor] = world.purse[r.actor] - quote.unit_price * r.quantity
                        /\ world'.purse[quote.seller] =
                               world.purse[quote.seller] + quote.unit_price * r.quantity
<1>. SUFFICES ASSUME TypeInv, [Next]_vars, world'.purse # world.purse
              PROVE  Honoured
  OBVIOUS
<1>1. CASE Complete
  <2>1. /\ r \in Requests /\ Valid(r, world) /\ world' = Resolved(r, world)
        /\ r.kind = "BUY" => quote = world.offers[r.offer]
    BY <1>1 DEF Complete, AtCompletion, Completes, TypeInv
  <2>. HIDE DEF r, quote
  <2>2. r.kind = "BUY"
    BY <2>1, PaymentMade DEF TypeInv
  <2>3. /\ world'.purse[r.actor] = world.purse[r.actor] - Total(r, world)
        /\ world'.purse[quote.seller] = world.purse[quote.seller] + Total(r, world)
    BY <2>1, <2>2, PaymentMade DEF TypeInv
  <2>4. Total(r, world) = quote.unit_price * r.quantity
    BY <2>1, <2>2 DEF Total
  <2>. QED  BY <2>2, <2>3, <2>4
<1>2. ASSUME NEW e \in pending, Execute(e)
      PROVE  FALSE
  <2>. DEFINE input == Plan[e.insertion + 1]
  <2>1. e.insertion + 1 \in DOMAIN Plan
    BY WorldAssumption DEF TypeInv, Entries
  <2>2. input.kind \in {"SurvivalTick", "CollapseEastBridge", "TestReplace"}
    BY <2>1, WorldAssumption
  <2>3. world' = InputResolved(input, world)
    BY <1>2 DEF Execute
  <2>. HIDE DEF input
  <2>. QED  BY <2>2, <2>3, InputsKeepPurses DEF TypeInv
<1>3. CASE UNCHANGED world
  BY <1>3
<1>. QED
  BY <1>1, <1>2, <1>3
  DEF Next, vars, Schedule, Pass, Elapse, Fail, ExecuteFails, Begin

\* A purchase costs what was asked when it began and is paid to the one who
\* asked it, whatever the offers, purses and inputs are in between.
THEOREM QuotesAreHonoured == Spec => QuoteHonoured
<1>1. TypeInv /\ [Next]_vars =>
        [world'.purse # world.purse =>
            LET quote == action.data
                r == action.request
            IN  /\ r.kind = "BUY"
                /\ world'.purse[r.actor] = world.purse[r.actor] - quote.unit_price * r.quantity
                /\ world'.purse[quote.seller] =
                       world.purse[quote.seller] + quote.unit_price * r.quantity]_vars
  BY QuoteStep
<1>. QED  BY <1>1, TypeInit, TypeStep, PTL DEF Spec, QuoteHonoured

(***************************************************************************)
(* The timeline.  Nothing happens before the whole plan is scheduled, and  *)
(* time never passes a pending input.                                      *)
(***************************************************************************)
TimelineInv ==
    /\ TypeInv
    /\ history \in Seq({history[i] : i \in DOMAIN history})
    /\ inserted < Len(Plan) => time = 0
    /\ action # Idle => Ready
    /\ \A e \in pending : time <= e.due

\* An input is scheduled no earlier than the present, which is the start, and
\* time moves only to instants up to the earliest pending one.
LEMMA TimelineStep == TimelineInv /\ [Next]_vars => TimelineInv'
<1>. SUFFICES ASSUME TimelineInv, [Next]_vars  PROVE TimelineInv'
  OBVIOUS
<1>0. /\ MaxTime \in Nat /\ Len(Plan) \in Nat /\ DOMAIN Plan = 1..Len(Plan)
      /\ TypeInv /\ TypeInv' /\ inserted \in Nat /\ time \in Nat /\ pending \subseteq Entries
  BY WorldAssumption, TypeStep, SMTT(30) DEF TimelineInv, TypeInv
<1>1. CASE /\ UNCHANGED <<time, pending, inserted, history>>
           /\ action' = action \/ action' = Idle \/ Ready
  BY <1>0, <1>1, Zenon DEF TimelineInv, Ready
<1>2. CASE Schedule
  <2>. DEFINE input == Plan[inserted + 1]
  <2>1. inserted < Len(Plan) /\ inserted + 1 \in DOMAIN Plan /\ time = 0
    BY <1>0, <1>2 DEF Schedule, TimelineInv
  <2>2. input.due \in 0..MaxTime
    BY <2>1, WorldAssumption
  <2>3. /\ pending' = pending \union
                {[due |-> input.due, priority |-> input.priority, insertion |-> inserted]}
        /\ inserted' = inserted + 1 /\ UNCHANGED <<time, action, history>>
    BY <1>2 DEF Schedule
  <2>. HIDE DEF input
  <2>4. \A e \in pending' : time' <= e.due
    BY <1>0, <2>1, <2>2, <2>3 DEF TimelineInv
  <2>5. inserted' < Len(Plan) => time' = 0
    BY <1>0, <2>1, <2>3
  <2>6. action' = Idle
    <3>1. inserted \in Nat /\ Len(Plan) \in Nat /\ inserted < Len(Plan)
      BY <1>0, <2>1
    <3>2. ~Ready
      BY ONLY <3>1 DEF Ready
    <3>. QED  BY <2>3, <3>2 DEF TimelineInv
  <2>. QED  BY <1>0, <2>3, <2>4, <2>5, <2>6 DEF TimelineInv
<1>3. ASSUME NEW t \in Nat, time' = t, ~Due(t), Ready,
             UNCHANGED <<pending, inserted, action, history>>
      PROVE  TimelineInv'
  <2>1. \A e \in pending : e.due \in Nat
    BY <1>0 DEF Entries
  <2>2. \A e \in pending : time' <= e.due
    BY <1>3, <2>1 DEF Due
  <2>. QED  BY <1>0, <1>3, <2>2 DEF TimelineInv, Ready
<1>4. CASE Pass
  BY <1>0, <1>3, <1>4 DEF Pass
<1>5. CASE Elapse
  <2>1. action.until \in Nat /\ Ready
    BY <1>0, <1>5 DEF Elapse, TimelineInv, TypeInv
  <2>. QED  BY <1>3, <1>5, <2>1 DEF Elapse
<1>6. CASE Complete
  BY <1>0, <1>6, TransitionAdded DEF Complete, TimelineInv
<1>7. ASSUME NEW e \in pending, Execute(e)
      PROVE  TimelineInv'
  <2>1. /\ Ready /\ IsHead(e) /\ time' = e.due /\ pending' = pending \ {e}
        /\ inserted' = inserted
        /\ Commit("SCHEDULED_EVENT", e.insertion, e.due,
                  InputFacts(Plan[e.insertion + 1], world))
    BY <1>7 DEF Execute
  <2>2. \A other \in pending : other.due \in Nat
    BY <1>0 DEF Entries
  <2>3. \A other \in pending' : time' <= other.due
    BY <2>1, <2>2 DEF IsHead, Before
  <2>4. history' \in Seq({history'[i] : i \in DOMAIN history'})
    BY <2>1, TransitionAdded DEF TimelineInv
  <2>. QED  BY <1>0, <2>1, <2>3, <2>4 DEF TimelineInv, Ready
<1>. QED
  BY <1>1, <1>2, <1>4, <1>5, <1>6, <1>7
  DEF Next, vars, Fail, ExecuteFails, Begin

\* A commit of the world is one of the timeline.
LEMMA CommitsAlike ==
    ASSUME TimelineInv, NEW kind, NEW source, NEW at, NEW facts,
           Commit(kind, source, at, facts)
    PROVE  Kernel!Commit(at, kind, source)
<1>. DEFINE n == Len(history)
            Entry(i) == [sequence |-> i, time |-> history[i].time,
                         kind |-> history[i].kind, source |-> history[i].source]
            added == [kind |-> kind, source |-> source, time |-> at, facts |-> facts]
<1>1. /\ n \in Nat /\ DOMAIN history = 1..n /\ DOMAIN history' = 1..(n + 1)
      /\ \A i \in 1..n : history'[i] = history[i]
      /\ history' \in Seq({history'[i] : i \in DOMAIN history'})
  BY TransitionAdded DEF TimelineInv
<1>2. history'[n + 1] = added /\ Len(history') = n + 1
  BY <1>1 DEF Commit, TimelineInv
<1>3. {[sequence |-> i, time |-> history'[i].time, kind |-> history'[i].kind,
        source |-> history'[i].source] : i \in 1..(n + 1)}
      = {Entry(i) : i \in 1..n}
          \union {[sequence |-> n + 1, time |-> at, kind |-> kind, source |-> source]}
  <2>1. 1..(n + 1) = 1..n \union {n + 1} /\ n + 1 \notin 1..n
    BY <1>1
  <2>. QED  BY <1>1, <1>2, <2>1
<1>. QED  BY <1>1, <1>2, <1>3 DEF Kernel!Commit, Kernel!Identity

\* Every step of the world is a step of the timeline or invisible to it.
LEMMA StepIsTimeline == TimelineInv /\ [Next]_vars => [Kernel!Next]_(Kernel!vars)
<1>. SUFFICES ASSUME TimelineInv, [Next]_vars  PROVE [Kernel!Next]_(Kernel!vars)
  OBVIOUS
<1>0. /\ MaxTime \in Nat /\ Len(Plan) \in Nat /\ DOMAIN Plan = 1..Len(Plan)
      /\ TypeInv /\ inserted \in Nat /\ time \in Nat /\ pending \subseteq Entries
  BY WorldAssumption DEF TimelineInv, TypeInv
<1>1. CASE UNCHANGED <<time, pending, inserted, history>>
  BY <1>1 DEF Kernel!vars
<1>2. CASE Schedule
  <2>. DEFINE input == Plan[inserted + 1]
  <2>1. inserted + 1 \in DOMAIN Plan /\ time = 0
    BY <1>0, <1>2 DEF Schedule, TimelineInv
  <2>2. input.due \in 0..MaxTime /\ input.priority \in Priorities
    BY <2>1, WorldAssumption
  <2>3. /\ pending' = pending \union
                {[due |-> input.due, priority |-> input.priority, insertion |-> inserted]}
        /\ inserted' = inserted + 1 /\ UNCHANGED <<time, history>>
    BY <1>2 DEF Schedule
  <2>. HIDE DEF input
  <2>4. Kernel!Schedule
    BY <1>0, <2>1, <2>2, <2>3 DEF Kernel!Schedule, Kernel!Times
  <2>. QED  BY <2>4 DEF Kernel!Next
<1>3. ASSUME NEW t \in 0..MaxTime, time < t, time' = t, ~Due(t),
             UNCHANGED <<pending, inserted, history>>
      PROVE  Kernel!Next
  <2>1. \A e \in pending : e.due \in Nat
    BY <1>0 DEF Entries
  <2>2. Kernel!Elapse
    BY <1>0, <1>3, <2>1 DEF Due, Kernel!Elapse, Kernel!Times
  <2>. QED  BY <2>2 DEF Kernel!Next
<1>4. CASE Pass
  BY <1>0, <1>3, <1>4 DEF Pass
<1>5. CASE Elapse
  <2>1. action.until \in 0..MaxTime
    BY <1>0, <1>5 DEF Elapse, TypeInv
  <2>. QED  BY <1>3, <1>5, <2>1 DEF Elapse
<1>6. CASE Complete
  <2>1. PICK r \in Requests : r = action.request
    BY <1>0, <1>6 DEF Complete, AtCompletion, TypeInv
  <2>2. PICK t \in Nat : t = time
    BY <1>0
  <2>3. PICK facts : facts = Facts(r, world)
    OBVIOUS
  <2>4. Commit("ACTION", r, t, facts) /\ UNCHANGED <<time, pending, inserted>>
    BY <1>6, <2>1, <2>2, <2>3 DEF Complete
  <2>5. Kernel!Commit(t, "ACTION", r)
    BY <2>4, CommitsAlike
  <2>6. Kernel!Commit(time, "ACTION", r)
    BY <2>2, <2>5 DEF Kernel!Commit
  <2>. QED  BY <2>4, <2>6 DEF Kernel!Act, Kernel!Next
<1>7. ASSUME NEW e \in pending, Execute(e)
      PROVE  Kernel!Next
  <2>1. /\ IsHead(e) /\ time' = e.due /\ pending' = pending \ {e} /\ inserted' = inserted
        /\ Commit("SCHEDULED_EVENT", e.insertion, e.due,
                  InputFacts(Plan[e.insertion + 1], world))
    BY <1>7 DEF Execute
  <2>2. Kernel!Commit(e.due, "SCHEDULED_EVENT", e.insertion)
    BY <2>1, CommitsAlike
  <2>3. \A other \in pending \ {e} : Kernel!Before(e, other)
    BY <2>1 DEF IsHead, Before, Kernel!Before
  <2>4. Kernel!Execute
    BY <2>1, <2>2, <2>3 DEF TimelineInv, Kernel!Execute
  <2>. QED  BY <2>4 DEF Kernel!Next
<1>. QED
  BY <1>1, <1>2, <1>4, <1>5, <1>6, <1>7
  DEF Next, vars, Fail, ExecuteFails, Begin

\* The world keeps to the timeline that the kernel promises: no input and no
\* action that the handlers change the village by is out of its order or time.
THEOREM WorldKeepsTime == Spec => ImplementsTimeline
<1>1. Init => TimelineInv /\ Kernel!Init
  <2>. SUFFICES ASSUME Init  PROVE TimelineInv /\ Kernel!Init
    OBVIOUS
  <2>1. time = 0 /\ pending = {} /\ inserted = 0 /\ history = <<>>
    BY DEF Init
  <2>2. action = Idle /\ TypeInv
    BY TypeInit DEF Init
  <2>3. TimelineInv
    BY <2>1, <2>2 DEF TimelineInv
  <2>4. Kernel!Init
    BY <2>1 DEF Kernel!Init
  <2>. QED  BY <2>3, <2>4
<1>. QED
  BY <1>1, TimelineStep, StepIsTimeline, PTL DEF Spec, ImplementsTimeline, Kernel!Spec

(***************************************************************************)
(* Travel.  The place of an actor by the history is that of its last move; *)
(* that there is a last one is carried along, since every transition adds  *)
(* at most one move to a history in which there was one.                   *)
(***************************************************************************)
Moves(i, a) == \E f \in FactsOf(i, {"ActorMoved"}) : f.actor = a
Movings(n, a) == {i \in 1..n : Moves(i, a)}

HasLast(S) == S = {} \/ \E m \in S : \A k \in S : m >= k

TravelInv ==
    /\ TypeInv
    /\ history \in Seq({history[i] : i \in DOMAIN history})
    /\ \A i \in DOMAIN history : \A f \in FactsOf(i, {"ActorMoved"}) :
        history[i].facts = {f} /\ f.actor \in Actors
    /\ \A n \in 0..Len(history), a \in Actors : HasLast(Movings(n, a))
    /\ TravelExplained

\* The greatest of a set of numbers that has one.
LEMMA LastIsMax ==
    ASSUME NEW S \in SUBSET Nat, NEW m \in S, \A k \in S : m >= k
    PROVE  Max(S) = m
<1>1. \A x \in S : (\A k \in S : x >= k) => x = m
  OBVIOUS
<1>. QED  BY <1>1 DEF Max

\* The history has grown by a transition with these facts: what it says of the
\* moments before has not changed, and the facts move those they name.
Extended(n, facts) ==
    /\ n \in Nat /\ DOMAIN history = 1..n /\ DOMAIN history' = 1..(n + 1)
    /\ Len(history') = n + 1
    /\ history' \in Seq({history'[i] : i \in DOMAIN history'})
    /\ \A i \in 1..n : history'[i] = history[i]
    /\ history'[n + 1].facts = facts
    /\ \A k \in 0..(n + 1), a \in Actors : HasLast(Movings(k, a))'
    /\ \A k \in 0..n, a \in Actors : PlaceAfter(k, a)' = PlaceAfter(k, a)
    /\ \A a \in Actors :
        /\ \A f \in facts : f.kind = "ActorMoved" /\ f.actor = a =>
                PlaceAfter(n + 1, a)' = f.destination
        /\ (\A f \in facts : ~(f.kind = "ActorMoved" /\ f.actor = a)) =>
                PlaceAfter(n + 1, a)' = PlaceAfter(n, a)

\* A commit extends the history so, if a move is the only fact of its transition.
LEMMA PlaceAdded ==
    ASSUME TravelInv, NEW n, n = Len(history), NEW kind, NEW source, NEW at, NEW facts,
           Commit(kind, source, at, facts),
           \A f \in facts : f.kind = "ActorMoved" => facts = {f}
    PROVE  Extended(n, facts)
<1>1. /\ n \in Nat /\ DOMAIN history = 1..n /\ DOMAIN history' = 1..(n + 1)
      /\ \A i \in 1..n : history'[i] = history[i]
      /\ history'[n + 1].facts = facts
      /\ history' \in Seq({history'[i] : i \in DOMAIN history'})
  BY TransitionAdded DEF TravelInv
<1>2. Len(history') = n + 1
  BY <1>1
<1>. DEFINE New(a) == \E f \in facts : f.kind = "ActorMoved" /\ f.actor = a
            Goal(S) == (CHOOSE f \in S : TRUE).destination
            Old(k, a) == Movings(k, a)
            Then(k, a) == {i \in 1..k : \E f \in {g \in history'[i].facts : g.kind \in {"ActorMoved"}} : f.actor = a}
<1>3. ASSUME NEW a \in Actors, NEW k \in 0..(n + 1)
      PROVE  /\ Movings(k, a)' = Then(k, a)
             /\ k \in 0..n => Then(k, a) = Old(k, a)
             /\ k = n + 1 /\ New(a) => Then(k, a) = Old(n, a) \union {n + 1}
             /\ k = n + 1 /\ ~New(a) => Then(k, a) = Old(n, a)
  <2>1. Movings(k, a)' = Then(k, a)
    BY DEF Movings, Moves, FactsOf
  <2>2. \A i \in 1..n : i \in Old(n, a) <=> Moves(i, a)
    BY DEF Movings
  <2>3. \A i \in 1..n :
            (\E f \in {g \in history'[i].facts : g.kind \in {"ActorMoved"}} : f.actor = a) <=> Moves(i, a)
    BY <1>1 DEF Moves, FactsOf
  <2>4. (\E f \in {g \in history'[n + 1].facts : g.kind \in {"ActorMoved"}} : f.actor = a) <=> New(a)
    BY <1>1
  <2>5. k \in 0..n => 1..k \subseteq 1..n
    BY <1>1
  <2>6. k \in 0..n => Then(k, a) = Old(k, a)
    BY <2>3, <2>5 DEF Movings
  <2>7. 1..(n + 1) = 1..n \union {n + 1}
    BY <1>1
  <2>8. k = n + 1 /\ New(a) => Then(k, a) = Old(n, a) \union {n + 1}
    BY <2>3, <2>4, <2>7 DEF Movings
  <2>9. k = n + 1 /\ ~New(a) => Then(k, a) = Old(n, a)
    BY <2>3, <2>4, <2>7 DEF Movings
  <2>. QED  BY <2>1, <2>6, <2>8, <2>9
<1>4. \A k \in 0..n, a \in Actors : HasLast(Old(k, a)) /\ Old(k, a) \subseteq 1..k
  BY DEF TravelInv, Movings
<1>. HIDE DEF Old, Then, New
<1>5. ASSUME NEW a \in Actors, NEW k \in 0..(n + 1)
      PROVE  HasLast(Movings(k, a))'
  <2>1. HasLast(Then(k, a))
    <3>1. CASE k \in 0..n
      BY <1>3, <1>4, <3>1
    <3>2. CASE k = n + 1 /\ ~New(a)
      BY <1>1, <1>3, <1>4, <3>2
    <3>3. CASE k = n + 1 /\ New(a)
      <4>1. Old(n, a) \subseteq 1..n /\ Then(k, a) = Old(n, a) \union {n + 1}
        BY <1>1, <1>3, <1>4, <3>3
      <4>. QED  BY <1>1, <4>1 DEF HasLast
    <3>. QED  BY <1>1, <3>1, <3>2, <3>3
  <2>2. HasLast(Movings(k, a))' <=> HasLast(Then(k, a))
    BY <1>3 DEF HasLast
  <2>. QED  BY <2>1, <2>2
<1>6. ASSUME NEW a \in Actors, NEW k \in 0..n
      PROVE  PlaceAfter(k, a) = IF Old(k, a) = {} THEN Home[a]
                                ELSE Goal(history[Max(Old(k, a))].facts)
  BY DEF PlaceAfter, Old, Movings, Moves
<1>7. ASSUME NEW a \in Actors, NEW k \in 0..(n + 1)
      PROVE  PlaceAfter(k, a)' = IF Then(k, a) = {} THEN Home[a]
                                 ELSE Goal(history'[Max(Then(k, a))].facts)
  BY DEF PlaceAfter, Then, FactsOf
<1>. HIDE DEF Goal
<1>8. ASSUME NEW a \in Actors, NEW k \in 0..n, Old(k, a) # {}
      PROVE  Max(Old(k, a)) \in 1..n
  <2>1. PICK m \in Old(k, a) : \A i \in Old(k, a) : m >= i
    BY <1>4, <1>8 DEF HasLast
  <2>2. Old(k, a) \in SUBSET Nat /\ m \in 1..n
    BY <1>1, <1>4
  <2>. QED  BY <2>1, <2>2, LastIsMax
<1>9. ASSUME NEW a \in Actors, NEW k \in 0..n
      PROVE  PlaceAfter(k, a)' = PlaceAfter(k, a)
  <2>1. Then(k, a) = Old(k, a) /\ k \in 0..(n + 1)
    BY <1>1, <1>3
  <2>2. CASE Old(k, a) = {}
    BY <1>6, <1>7, <2>1, <2>2
  <2>3. CASE Old(k, a) # {}
    <3>1. history'[Max(Old(k, a))] = history[Max(Old(k, a))]
      BY <1>1, <1>8, <2>3
    <3>. QED  BY <1>6, <1>7, <2>1, <2>3, <3>1
  <2>. QED  BY <2>2, <2>3
<1>10. ASSUME NEW a \in Actors, ~New(a)
       PROVE  PlaceAfter(n + 1, a)' = PlaceAfter(n, a)
  <2>1. Then(n + 1, a) = Old(n, a) /\ n \in 0..n /\ n + 1 \in 0..(n + 1)
    BY <1>1, <1>3, <1>10
  <2>2. CASE Old(n, a) = {}
    BY <1>6, <1>7, <2>1, <2>2
  <2>3. CASE Old(n, a) # {}
    <3>1. history'[Max(Old(n, a))] = history[Max(Old(n, a))]
      BY <1>1, <1>8, <2>1, <2>3
    <3>. QED  BY <1>6, <1>7, <2>1, <2>3, <3>1
  <2>. QED  BY <2>2, <2>3
<1>11. ASSUME NEW a \in Actors, NEW f \in facts, f.kind = "ActorMoved", f.actor = a
       PROVE  PlaceAfter(n + 1, a)' = f.destination
  <2>1. Then(n + 1, a) = Old(n, a) \union {n + 1} /\ n + 1 \in 0..(n + 1)
    BY <1>1, <1>3, <1>11 DEF New
  <2>2. Old(n, a) \subseteq 1..n
    BY <1>1, <1>4
  <2>3. Max(Then(n + 1, a)) = n + 1
    BY <1>1, <2>1, <2>2, LastIsMax
  <2>4. history'[n + 1].facts = {f}
    BY <1>1, <1>11
  <2>5. Goal({f}) = f.destination
    BY DEF Goal
  <2>6. Then(n + 1, a) # {}
    BY <2>1
  <2>7. PlaceAfter(n + 1, a)' = Goal(history'[Max(Then(n + 1, a))].facts)
    BY <1>7, <2>1, <2>6
  <2>. QED  BY <2>3, <2>4, <2>5, <2>7
<1>12. \A a \in Actors : New(a) <=> \E f \in facts : f.kind = "ActorMoved" /\ f.actor = a
  BY DEF New
<1>. QED  BY <1>1, <1>2, <1>5, <1>9, <1>10, <1>11, <1>12 DEF Extended

\* A committed transition explains itself: it moves whom it says it moves, from
\* where that actor was, and its witnesses are those in sight.
LEMMA TravelAdded ==
    ASSUME TravelInv, TypeInv', NEW kind, NEW source, NEW at, NEW facts,
           Commit(kind, source, at, facts),
           \A f \in facts : f.kind = "ActorMoved" =>
                /\ facts = {f} /\ f.actor \in Actors
                /\ f.origin = world.position[f.actor]
                /\ world'.position = [world.position EXCEPT ![f.actor] = f.destination],
           (\A f \in facts : f.kind # "ActorMoved") => world'.position = world.position,
           \A f \in facts : f.kind = "BridgeCollapsed" => f.witnesses = Witnesses(world)
    PROVE  TravelInv'
<1>1. PICK n : n = Len(history)
  OBVIOUS
<1>2. /\ n \in Nat /\ DOMAIN history = 1..n /\ DOMAIN history' = 1..(n + 1)
      /\ Len(history') = n + 1
      /\ history' \in Seq({history'[i] : i \in DOMAIN history'})
      /\ \A i \in 1..n : history'[i] = history[i]
      /\ history'[n + 1].facts = facts
      /\ \A k \in 0..(n + 1), a \in Actors : HasLast(Movings(k, a))'
      /\ \A k \in 0..n, a \in Actors : PlaceAfter(k, a)' = PlaceAfter(k, a)
      /\ \A a \in Actors :
           /\ \A f \in facts : f.kind = "ActorMoved" /\ f.actor = a =>
                   PlaceAfter(n + 1, a)' = f.destination
           /\ (\A f \in facts : ~(f.kind = "ActorMoved" /\ f.actor = a)) =>
                   PlaceAfter(n + 1, a)' = PlaceAfter(n, a)
  <2>1. \A f \in facts : f.kind = "ActorMoved" => facts = {f}
    OBVIOUS
  <2>2. Extended(n, facts)
    BY <1>1, <2>1, PlaceAdded
  <2>. QED  BY <2>2 DEF Extended
<1>3. \A a \in Actors : world.position[a] = PlaceAfter(n, a)
  BY <1>1 DEF TravelInv, TravelExplained, MovesExplained
<1>4. world.position \in [Actors -> Locations]
  BY DEF TravelInv, TypeInv, Typed
<1>5. ASSUME NEW i \in 1..(n + 1), NEW K
      PROVE  FactsOf(i, K)' = IF i = n + 1 THEN {f \in facts : f.kind \in K} ELSE FactsOf(i, K)
  <2>1. FactsOf(i, K)' = {f \in history'[i].facts : f.kind \in K}
    BY DEF FactsOf
  <2>2. i # n + 1 => i \in 1..n
    BY <1>2
  <2>. QED  BY <1>2, <2>1, <2>2 DEF FactsOf
<1>6. ASSUME NEW i \in 1..(n + 1), NEW f \in FactsOf(i, {"ActorMoved"})'
      PROVE  history'[i].facts = {f} /\ f.actor \in Actors /\ f.origin = PlaceAfter(i - 1, f.actor)'
  <2>1. CASE i = n + 1
    <3>1. f \in facts /\ f.kind = "ActorMoved"
      BY <1>5, <1>6, <2>1
    <3>2. f.origin = PlaceAfter(n, f.actor) /\ facts = {f} /\ f.actor \in Actors
      BY <1>3, <3>1
    <3>3. PlaceAfter(n, f.actor)' = PlaceAfter(n, f.actor)
      BY <1>2, <3>2
    <3>4. i - 1 = n
      BY <1>2, <2>1
    <3>. QED  BY <1>2, <2>1, <3>2, <3>3, <3>4
  <2>2. CASE i # n + 1
    <3>1. i \in DOMAIN history /\ i - 1 \in 0..n /\ f \in FactsOf(i, {"ActorMoved"})
      BY <1>2, <1>5, <1>6, <2>2
    <3>2. /\ history[i].facts = {f} /\ f.actor \in Actors
          /\ f.origin = PlaceAfter(i - 1, f.actor)
      BY <3>1 DEF TravelInv, TravelExplained, MovesExplained
    <3>3. PlaceAfter(i - 1, f.actor)' = PlaceAfter(i - 1, f.actor)
      BY <1>2, <3>1, <3>2
    <3>. QED  BY <1>2, <2>2, <3>1, <3>2, <3>3
  <2>. QED  BY <2>1, <2>2
<1>7. ASSUME NEW a \in Actors
      PROVE  world'.position[a] = PlaceAfter(n + 1, a)'
  <2>1. CASE \E f \in facts : f.kind = "ActorMoved"
    <3>1. PICK f \in facts : f.kind = "ActorMoved"
      BY <2>1
    <3>2. facts = {f} /\ world'.position = [world.position EXCEPT ![f.actor] = f.destination]
      BY <3>1
    <3>3. CASE f.actor = a
      BY <1>2, <1>4, <3>1, <3>2, <3>3
    <3>4. CASE f.actor # a
      BY <1>2, <1>3, <1>4, <3>1, <3>2, <3>4
    <3>. QED  BY <3>3, <3>4
  <2>2. CASE \A f \in facts : f.kind # "ActorMoved"
    BY <1>2, <1>3, <2>2
  <2>. QED  BY <2>1, <2>2
<1>8. ASSUME NEW i \in 1..(n + 1), NEW f \in FactsOf(i, {"BridgeCollapsed"})'
      PROVE  f.witnesses = {a \in Actors : PlaceAfter(i - 1, a)' \in Lookouts}
  <2>1. CASE i = n + 1
    <3>1. f \in facts /\ f.kind = "BridgeCollapsed" /\ i - 1 = n
      BY <1>2, <1>5, <1>8, <2>1
    <3>2. f.witnesses = {a \in Actors : world.position[a] \in Lookouts}
      BY <3>1 DEF Witnesses
    <3>3. \A a \in Actors : PlaceAfter(n, a)' = world.position[a]
      BY <1>2, <1>3
    <3>. QED  BY <3>1, <3>2, <3>3
  <2>2. CASE i # n + 1
    <3>1. i \in DOMAIN history /\ i - 1 \in 0..n /\ f \in FactsOf(i, {"BridgeCollapsed"})
      BY <1>2, <1>5, <1>8, <2>2
    <3>2. f.witnesses = {a \in Actors : PlaceAfter(i - 1, a) \in Lookouts}
      BY <3>1 DEF TravelInv, TravelExplained, WitnessesPresent
    <3>3. \A a \in Actors : PlaceAfter(i - 1, a)' = PlaceAfter(i - 1, a)
      BY <1>2, <3>1
    <3>. QED  BY <3>2, <3>3
  <2>. QED  BY <2>1, <2>2
<1>9. TravelExplained'
  <2>1. \A a \in Actors : world'.position[a] = PlaceAfter(Len(history), a)'
    BY <1>2, <1>7
  <2>. QED  BY <1>2, <1>6, <1>8, <2>1 DEF TravelExplained, MovesExplained, WitnessesPresent
<1>10. \A k \in 0..Len(history'), a \in Actors : HasLast(Movings(k, a))'
  BY <1>2
<1>. QED  BY <1>2, <1>6, <1>9, <1>10 DEF TravelInv

\* What an action does to positions and what it says of them is the same.
LEMMA ActionsTell ==
    ASSUME NEW w, Typed(w), NEW r \in Requests, Valid(r, w)
    PROVE  /\ \A f \in Facts(r, w) :
                /\ f.kind # "BridgeCollapsed"
                /\ f.kind = "ActorMoved" =>
                    /\ Facts(r, w) = {f} /\ f.actor \in Actors
                    /\ f.origin = w.position[f.actor]
                    /\ Resolved(r, w).position = [w.position EXCEPT ![f.actor] = f.destination]
           /\ (\A f \in Facts(r, w) : f.kind # "ActorMoved") => Resolved(r, w).position = w.position
<1>1. r.kind \in {"MOVE", "WAIT", "REST", "CONSUME", "BUY"} /\ r.actor \in Actors
  BY WorldAssumption
<1>2. CASE r.kind = "MOVE"
  <2>. DEFINE fact == [kind |-> "ActorMoved", actor |-> r.actor, route |-> r.route,
                       origin |-> w.routes[r.route].origin,
                       destination |-> w.routes[r.route].destination]
  <2>1. Facts(r, w) = {fact} /\ w.position[r.actor] = w.routes[r.route].origin
    BY <1>2 DEF Facts, Valid, CanMove
  <2>2. /\ fact.kind = "ActorMoved" /\ fact.actor = r.actor
        /\ fact.origin = w.routes[r.route].origin
        /\ fact.destination = w.routes[r.route].destination
    OBVIOUS
  <2>3. Resolved(r, w).position =
            [w.position EXCEPT ![r.actor] = w.routes[r.route].destination]
    BY <1>2 DEF Resolved, Moved, Typed, Fields
  <2>. HIDE DEF fact
  <2>. QED  BY <1>1, <2>1, <2>2, <2>3
<1>3. CASE r.kind = "WAIT"
  BY <1>3 DEF Resolved, Facts
<1>4. CASE r.kind = "REST"
  BY <1>4 DEF Resolved, Rested, Facts, Typed, Fields
<1>5. CASE r.kind = "CONSUME"
  <2>1. Resolved(r, w).position = w.position
    BY <1>5 DEF Resolved, Consumed, Typed, Fields
  <2>2. \A f \in Facts(r, w) : f.kind = "ItemConsumed"
    BY <1>5 DEF Facts, Meal
  <2>. QED  BY <2>1, <2>2
<1>6. CASE r.kind = "BUY"
  <2>1. Resolved(r, w).position = w.position
    BY <1>6 DEF Resolved, Bought, Typed, Fields
  <2>2. \A f \in Facts(r, w) : f.kind = "ItemPurchased"
    BY <1>6 DEF Facts
  <2>. QED  BY <2>1, <2>2
<1>. QED  BY <1>1, <1>2, <1>3, <1>4, <1>5, <1>6

\* No scheduled input moves anybody, and a collapse names those in sight.
LEMMA InputsTell ==
    ASSUME NEW w, Typed(w), NEW input,
           input.kind \in {"SurvivalTick", "CollapseEastBridge", "TestReplace"}
    PROVE  /\ InputResolved(input, w).position = w.position
           /\ \A f \in InputFacts(input, w) :
                /\ f.kind # "ActorMoved"
                /\ f.kind = "BridgeCollapsed" => f.witnesses = Witnesses(w)
<1>1. CASE input.kind = "SurvivalTick"
  BY <1>1 DEF InputResolved, InputFacts, Typed, Fields
<1>2. CASE input.kind = "CollapseEastBridge"
  <2>1. InputResolved(input, w).position = w.position
    BY <1>2 DEF InputResolved, Typed, Fields
  <2>2. \A f \in InputFacts(input, w) :
            f.kind = "BridgeCollapsed" /\ f.witnesses = Witnesses(w)
    BY <1>2 DEF InputFacts
  <2>. QED  BY <2>1, <2>2
<1>3. CASE input.kind = "TestReplace"
  BY <1>3 DEF InputResolved, InputFacts, Typed, Fields
<1>. QED  BY <1>1, <1>2, <1>3

\* Every step keeps positions explained by the moves that were committed.
LEMMA TravelStep == TravelInv /\ [Next]_vars => TravelInv'
<1>. SUFFICES ASSUME TravelInv, [Next]_vars  PROVE TravelInv'
  OBVIOUS
<1>0. TypeInv /\ TypeInv'
  BY TypeStep DEF TravelInv
<1>1. CASE UNCHANGED <<world, history>>
  <2>1. \A i, K : FactsOf(i, K)' = FactsOf(i, K)
    BY <1>1 DEF FactsOf
  <2>2. \A n, a : Movings(n, a)' = Movings(n, a)
    BY <2>1 DEF Movings, Moves
  <2>3. \A n, a : PlaceAfter(n, a)' = PlaceAfter(n, a)
    BY <1>1 DEF PlaceAfter, FactsOf
  <2>4. TravelExplained' <=> TravelExplained
    BY <1>1, <2>1, <2>3 DEF TravelExplained, MovesExplained, WitnessesPresent
  <2>. QED  BY <1>0, <1>1, <2>1, <2>2, <2>4 DEF TravelInv, HasLast
<1>2. CASE Complete
  <2>1. PICK r \in Requests : r = action.request
    BY <1>0, <1>2 DEF Complete, AtCompletion, TypeInv
  <2>2. PICK facts : facts = Facts(r, world)
    OBVIOUS
  <2>3. PICK at : at = time
    OBVIOUS
  <2>4. Valid(r, world) /\ world' = Resolved(r, world) /\ Commit("ACTION", r, at, facts)
    BY <1>2, <2>1, <2>2, <2>3 DEF Complete, Completes
  <2>5. Typed(world)
    BY <1>0 DEF TypeInv
  <2>6. /\ \A f \in facts :
                /\ f.kind # "BridgeCollapsed"
                /\ f.kind = "ActorMoved" =>
                    /\ facts = {f} /\ f.actor \in Actors
                    /\ f.origin = world.position[f.actor]
                    /\ world'.position = [world.position EXCEPT ![f.actor] = f.destination]
        /\ (\A f \in facts : f.kind # "ActorMoved") => world'.position = world.position
    BY <2>2, <2>4, <2>5, ActionsTell
  <2>. QED  BY <1>0, <2>4, <2>6, TravelAdded
<1>3. ASSUME NEW e \in pending, Execute(e)
      PROVE  TravelInv'
  <2>1. PICK input : input = Plan[e.insertion + 1]
    OBVIOUS
  <2>2. PICK facts : facts = InputFacts(input, world)
    OBVIOUS
  <2>3. e.insertion + 1 \in DOMAIN Plan
    BY <1>0, WorldAssumption DEF TypeInv, Entries
  <2>4. input.kind \in {"SurvivalTick", "CollapseEastBridge", "TestReplace"}
    BY <2>1, <2>3, WorldAssumption
  <2>5. world' = InputResolved(input, world) /\ Commit("SCHEDULED_EVENT", e.insertion, e.due, facts)
    BY <1>3, <2>1, <2>2 DEF Execute
  <2>6. Typed(world)
    BY <1>0 DEF TypeInv
  <2>7. /\ world'.position = world.position
        /\ \A f \in facts :
            /\ f.kind # "ActorMoved"
            /\ f.kind = "BridgeCollapsed" => f.witnesses = Witnesses(world)
    BY <2>2, <2>4, <2>5, <2>6, InputsTell
  <2>8. ASSUME NEW f \in facts, f.kind = "ActorMoved"  PROVE FALSE
    BY <2>7, <2>8
  <2>. QED  BY <1>0, <2>5, <2>7, <2>8, TravelAdded
<1>. QED
  BY <1>1, <1>2, <1>3
  DEF Next, vars, Schedule, Pass, Elapse, Fail, ExecuteFails, Begin

\* Where everybody is and who saw the collapse follows from the committed moves
\* alone, on whatever map and whatever fell due while somebody was on the way.
THEOREM TravelIsExplained == Spec => []TravelExplained
<1>1. Init => TravelInv
  <2>. SUFFICES ASSUME Init  PROVE TravelInv
    OBVIOUS
  <2>1. history = <<>> /\ world.position = Home /\ TypeInv
    BY TypeInit DEF Init
  <2>2. Len(history) = 0 /\ DOMAIN history = {} /\ 0..0 = {0} /\ 1..0 = {}
    BY <2>1
  <2>3. \A n \in 0..Len(history), a \in Actors : HasLast(Movings(n, a))
    BY <2>2 DEF HasLast, Movings
  <2>4. \A a \in Actors : PlaceAfter(Len(history), a) = Home[a]
    BY <2>2 DEF PlaceAfter
  <2>. QED
    BY <2>1, <2>2, <2>3, <2>4
    DEF TravelInv, TravelExplained, MovesExplained, WitnessesPresent
<1>2. TravelInv => TravelExplained
  BY DEF TravelInv
<1>. QED  BY <1>1, <1>2, TravelStep, PTL DEF Spec

(***************************************************************************)
(* Pressure.  Each transition changes a measure of an actor at most once,  *)
(* from the value that the transitions before it have left.                *)
(***************************************************************************)
Measures == {"hunger", "fatigue"}

PressureInv ==
    /\ TypeInv
    /\ history \in Seq({history[i] : i \in DOMAIN history})
    /\ \A n \in 0..Len(history), a \in Actors, m \in Measures : HasLast(Moments(n, a, m))
    /\ PressureExplained

\* What a transition with these facts leaves of a measure that it changes.
Left(facts, a, m) == (CHOOSE f \in Changes(facts, a, m) : TRUE).after[m]

\* The history has grown by a transition with these facts: what it says of the
\* moments before has not changed, and now a measure is as the facts leave it.
Grown(n, facts) ==
    /\ n \in Nat /\ DOMAIN history = 1..n /\ DOMAIN history' = 1..(n + 1)
    /\ Len(history') = n + 1
    /\ history' \in Seq({history'[i] : i \in DOMAIN history'})
    /\ \A i \in 1..n : history'[i] = history[i]
    /\ history'[n + 1].facts = facts
    /\ \A k \in 0..(n + 1), a \in Actors, m \in Measures : HasLast(Moments(k, a, m))'
    /\ \A k \in 0..n, a \in Actors, m \in Measures :
        PressureAfter(k, a, m)' = PressureAfter(k, a, m)
    /\ \A a \in Actors, m \in Measures :
        PressureAfter(n + 1, a, m)' =
            IF Changes(facts, a, m) = {} THEN PressureAfter(n, a, m) ELSE Left(facts, a, m)

\* A commit extends the history so.
LEMMA PressureAdded ==
    ASSUME PressureInv, NEW n, n = Len(history), NEW kind, NEW source, NEW at, NEW facts,
           Commit(kind, source, at, facts)
    PROVE  Grown(n, facts)
<1>1. /\ n \in Nat /\ DOMAIN history = 1..n /\ DOMAIN history' = 1..(n + 1)
      /\ \A i \in 1..n : history'[i] = history[i]
      /\ history'[n + 1].facts = facts
      /\ history' \in Seq({history'[i] : i \in DOMAIN history'})
  BY TransitionAdded DEF PressureInv
<1>2. Len(history') = n + 1
  BY <1>1
<1>. DEFINE New(a, m) == Changes(facts, a, m) # {}
            Old(k, a, m) == Moments(k, a, m)
            Then(k, a, m) == {i \in 1..k : Changes(history'[i].facts, a, m) # {}}
<1>3. ASSUME NEW a \in Actors, NEW m \in Measures, NEW k \in 0..(n + 1)
      PROVE  /\ Moments(k, a, m)' = Then(k, a, m)
             /\ k \in 0..n => Then(k, a, m) = Old(k, a, m)
             /\ k = n + 1 /\ New(a, m) => Then(k, a, m) = Old(n, a, m) \union {n + 1}
             /\ k = n + 1 /\ ~New(a, m) => Then(k, a, m) = Old(n, a, m)
  <2>1. Moments(k, a, m)' = Then(k, a, m)
    BY DEF Moments, Changes
  <2>2. \A i \in 1..n : Changes(history'[i].facts, a, m) = Changes(history[i].facts, a, m)
    BY <1>1
  <2>3. Changes(history'[n + 1].facts, a, m) = Changes(facts, a, m)
    BY <1>1
  <2>4. k \in 0..n => 1..k \subseteq 1..n
    BY <1>1
  <2>5. k \in 0..n => Then(k, a, m) = Old(k, a, m)
    BY <2>2, <2>4 DEF Moments
  <2>6. 1..(n + 1) = 1..n \union {n + 1}
    BY <1>1
  <2>7. k = n + 1 /\ New(a, m) => Then(k, a, m) = Old(n, a, m) \union {n + 1}
    BY <2>2, <2>3, <2>6 DEF Moments
  <2>8. k = n + 1 /\ ~New(a, m) => Then(k, a, m) = Old(n, a, m)
    BY <2>2, <2>3, <2>6 DEF Moments
  <2>. QED  BY <2>1, <2>5, <2>7, <2>8
<1>4. \A k \in 0..n, a \in Actors, m \in Measures :
          HasLast(Old(k, a, m)) /\ Old(k, a, m) \subseteq 1..k
  BY DEF PressureInv, Moments
<1>5. ASSUME NEW a \in Actors, NEW m \in Measures, NEW k \in 0..n
      PROVE  PressureAfter(k, a, m) = IF Old(k, a, m) = {} THEN Condition[a][m]
                                      ELSE Left(history[Max(Old(k, a, m))].facts, a, m)
  BY DEF PressureAfter, Left
<1>6. ASSUME NEW a \in Actors, NEW m \in Measures, NEW k \in 0..(n + 1)
      PROVE  PressureAfter(k, a, m)' = IF Then(k, a, m) = {} THEN Condition[a][m]
                                       ELSE Left(history'[Max(Then(k, a, m))].facts, a, m)
  BY DEF PressureAfter, Moments, Left, Changes
<1>. HIDE DEF Old, Then, New
<1>7. ASSUME NEW a \in Actors, NEW m \in Measures, NEW k \in 0..(n + 1)
      PROVE  HasLast(Moments(k, a, m))'
  <2>1. HasLast(Then(k, a, m))
    <3>1. CASE k \in 0..n
      BY <1>3, <1>4, <3>1
    <3>2. CASE k = n + 1 /\ ~New(a, m)
      BY <1>1, <1>3, <1>4, <3>2
    <3>3. CASE k = n + 1 /\ New(a, m)
      <4>1. Old(n, a, m) \subseteq 1..n /\ Then(k, a, m) = Old(n, a, m) \union {n + 1}
        BY <1>1, <1>3, <1>4, <3>3
      <4>. QED  BY <1>1, <4>1 DEF HasLast
    <3>. QED  BY <1>1, <3>1, <3>2, <3>3
  <2>2. HasLast(Moments(k, a, m))' <=> HasLast(Then(k, a, m))
    BY <1>3 DEF HasLast
  <2>. QED  BY <2>1, <2>2
<1>8. ASSUME NEW a \in Actors, NEW m \in Measures, NEW k \in 0..n, Old(k, a, m) # {}
      PROVE  history'[Max(Old(k, a, m))] = history[Max(Old(k, a, m))]
  <2>1. PICK l \in Old(k, a, m) : \A i \in Old(k, a, m) : l >= i
    BY <1>4, <1>8 DEF HasLast
  <2>2. Old(k, a, m) \in SUBSET Nat /\ l \in 1..n
    BY <1>1, <1>4
  <2>3. Max(Old(k, a, m)) = l
    BY <2>1, <2>2, LastIsMax
  <2>. QED  BY <1>1, <2>2, <2>3
<1>9. ASSUME NEW a \in Actors, NEW m \in Measures, NEW k \in 0..n
      PROVE  PressureAfter(k, a, m)' = PressureAfter(k, a, m)
  <2>1. Then(k, a, m) = Old(k, a, m) /\ k \in 0..(n + 1)
    BY <1>1, <1>3
  <2>2. CASE Old(k, a, m) = {}
    BY <1>5, <1>6, <2>1, <2>2
  <2>3. CASE Old(k, a, m) # {}
    BY <1>5, <1>6, <1>8, <2>1, <2>3
  <2>. QED  BY <2>2, <2>3
<1>10. ASSUME NEW a \in Actors, NEW m \in Measures, ~New(a, m)
       PROVE  PressureAfter(n + 1, a, m)' = PressureAfter(n, a, m)
  <2>1. Then(n + 1, a, m) = Old(n, a, m) /\ n \in 0..n /\ n + 1 \in 0..(n + 1)
    BY <1>1, <1>3, <1>10
  <2>2. CASE Old(n, a, m) = {}
    BY <1>5, <1>6, <2>1, <2>2
  <2>3. CASE Old(n, a, m) # {}
    BY <1>5, <1>6, <1>8, <2>1, <2>3
  <2>. QED  BY <2>2, <2>3
<1>11. ASSUME NEW a \in Actors, NEW m \in Measures, New(a, m)
       PROVE  PressureAfter(n + 1, a, m)' = Left(facts, a, m)
  <2>1. Then(n + 1, a, m) = Old(n, a, m) \union {n + 1} /\ n + 1 \in 0..(n + 1)
    BY <1>1, <1>3, <1>11
  <2>2. Old(n, a, m) \subseteq 1..n
    BY <1>1, <1>4
  <2>3. Max(Then(n + 1, a, m)) = n + 1 /\ Then(n + 1, a, m) # {}
    BY <1>1, <2>1, <2>2, LastIsMax
  <2>. QED  BY <1>1, <1>6, <2>1, <2>3
<1>12. \A a \in Actors, m \in Measures : New(a, m) <=> Changes(facts, a, m) # {}
  BY DEF New
<1>. QED  BY <1>1, <1>2, <1>7, <1>9, <1>10, <1>11, <1>12 DEF Grown

\* The facts tell every change of pressure from w to v, once, and no other.
Told(facts, w, v) ==
    \A a \in Actors, m \in Measures :
        \/ Changes(facts, a, m) = {} /\ v.pressure[a][m] = w.pressure[a][m]
        \/ \E f \in facts :
            /\ Changes(facts, a, m) = {f}
            /\ f.before[m] = w.pressure[a][m] /\ f.after[m] = v.pressure[a][m]

\* A transition that tells its changes keeps the pressure explained.
LEMMA ChangesExplained ==
    ASSUME PressureInv, TypeInv', NEW kind, NEW source, NEW at, NEW facts,
           Commit(kind, source, at, facts), Told(facts, world, world')
    PROVE  PressureInv'
<1>1. PICK n : n = Len(history)
  OBVIOUS
<1>2. Grown(n, facts)
  BY <1>1, PressureAdded
<1>3. /\ n \in Nat /\ DOMAIN history = 1..n /\ DOMAIN history' = 1..(n + 1)
      /\ Len(history') = n + 1
      /\ \A i \in 1..n : history'[i] = history[i]
      /\ history'[n + 1].facts = facts
  BY <1>2 DEF Grown
<1>4. ASSUME NEW a \in Actors, NEW m \in Measures
      PROVE  /\ world'.pressure[a][m] = PressureAfter(n + 1, a, m)'
             /\ \A f \in Changes(facts, a, m) : f.before[m] = PressureAfter(n, a, m)
  <2>1. world.pressure[a][m] = PressureAfter(n, a, m)
    BY <1>1 DEF PressureInv, PressureExplained, Measures
  <2>2. PressureAfter(n + 1, a, m)' =
            IF Changes(facts, a, m) = {} THEN PressureAfter(n, a, m) ELSE Left(facts, a, m)
    BY <1>2 DEF Grown
  <2>3. CASE Changes(facts, a, m) = {} /\ world'.pressure[a][m] = world.pressure[a][m]
    BY <2>1, <2>2, <2>3
  <2>4. CASE \E f \in facts :
                /\ Changes(facts, a, m) = {f}
                /\ f.before[m] = world.pressure[a][m] /\ f.after[m] = world'.pressure[a][m]
    <3>1. PICK f \in facts :
                /\ Changes(facts, a, m) = {f}
                /\ f.before[m] = world.pressure[a][m] /\ f.after[m] = world'.pressure[a][m]
      BY <2>4
    <3>2. Left(facts, a, m) = f.after[m]
      BY <3>1 DEF Left
    <3>. QED  BY <2>1, <2>2, <3>1, <3>2
  <2>. QED  BY <2>3, <2>4 DEF Told
<1>5. ASSUME NEW a \in Actors, NEW m \in Measures, NEW i \in 1..(n + 1),
             NEW f \in Changes(history'[i].facts, a, m)
      PROVE  f.before[m] = PressureAfter(i - 1, a, m)'
  <2>1. i - 1 \in 0..n
    BY <1>3
  <2>2. PressureAfter(i - 1, a, m)' = PressureAfter(i - 1, a, m)
    BY <1>2, <2>1 DEF Grown
  <2>3. CASE i = n + 1
    BY <1>3, <1>4, <1>5, <2>2, <2>3
  <2>4. CASE i \in 1..n
    <3>1. f \in Changes(history[i].facts, a, m) /\ i \in DOMAIN history
      BY <1>3, <1>5, <2>4
    <3>2. f.before[m] = PressureAfter(i - 1, a, m)
      BY <3>1 DEF PressureInv, PressureExplained, Measures
    <3>. QED  BY <2>2, <3>2
  <2>. QED  BY <1>3, <2>3, <2>4
<1>6. ASSUME NEW a \in Actors, NEW m \in Measures
      PROVE  world'.pressure[a][m] \in 0..Cap
  BY DEF TypeInv, Typed, Pressures, Measures
<1>7. PressureExplained'
  <2>1. ASSUME NEW a \in Actors, NEW m \in Measures
        PROVE  world'.pressure[a][m] = PressureAfter(Len(history), a, m)'
    BY <1>3, <1>4
  <2>. QED  BY <1>3, <1>5, <1>6, <2>1 DEF PressureExplained, Measures, Changes
<1>. QED  BY <1>2, <1>3, <1>7 DEF PressureInv, Grown

\* What an action does to pressure and what it says of it is the same.
LEMMA ActionsTellPressure ==
    ASSUME NEW w, Typed(w), NEW r \in Requests
    PROVE  Told(Facts(r, w), w, Resolved(r, w))
<1>1. r.kind \in {"MOVE", "WAIT", "REST", "CONSUME", "BUY"} /\ r.actor \in Actors
  BY WorldAssumption
<1>2. ASSUME NEW facts, NEW v, v.pressure = w.pressure,
             \A f \in facts : f.kind \notin {"SurvivalAdvanced", "ItemConsumed", "ActorRested"}
      PROVE  Told(facts, w, v)
  BY <1>2 DEF Told, Changes
<1>3. ASSUME NEW f, f.kind \in {"ItemConsumed", "ActorRested"}, f.actor = r.actor,
             NEW m \in Measures, DOMAIN f.after = {m}, NEW v,
             f.before[m] = w.pressure[r.actor][m], f.after[m] = v.pressure[r.actor][m],
             \A a \in Actors, k \in Measures :
                 a # r.actor \/ k # m => v.pressure[a][k] = w.pressure[a][k]
      PROVE  Told({f}, w, v)
  <2>1. ASSUME NEW a \in Actors, NEW k \in Measures
        PROVE  Changes({f}, a, k) = IF a = r.actor /\ k = m THEN {f} ELSE {}
    BY <1>3 DEF Changes
  <2>. QED  BY <1>3, <2>1 DEF Told
<1>4. CASE r.kind = "MOVE"
  BY <1>2, <1>4 DEF Resolved, Moved, Facts, Typed, Fields
<1>5. CASE r.kind = "WAIT"
  BY <1>2, <1>5 DEF Resolved, Facts
<1>6. CASE r.kind = "BUY"
  <2>1. Resolved(r, w).pressure = w.pressure
    BY <1>6 DEF Resolved, Bought, Typed, Fields
  <2>2. \A f \in Facts(r, w) : f.kind = "ItemPurchased"
    BY <1>6 DEF Facts
  <2>. QED  BY <1>2, <2>1, <2>2
<1>7. CASE r.kind = "REST"
  <2>. DEFINE f == [kind |-> "ActorRested", actor |-> r.actor,
                    before |-> [fatigue |-> w.pressure[r.actor].fatigue],
                    after |-> [fatigue |-> Refreshed(r, w)]]
              v == Resolved(r, w)
  <2>1. /\ Facts(r, w) = {f} /\ f.kind = "ActorRested" /\ f.actor = r.actor
        /\ DOMAIN f.after = {"fatigue"} /\ f.after["fatigue"] = Refreshed(r, w)
        /\ f.before["fatigue"] = w.pressure[r.actor]["fatigue"]
    BY <1>7 DEF Facts
  <2>2. v.pressure = [w.pressure EXCEPT
            ![r.actor] = [w.pressure[r.actor] EXCEPT !.fatigue = Refreshed(r, w)]]
    BY <1>7 DEF Resolved, Rested, Typed, Fields
  <2>. HIDE DEF f, v
  <2>3. /\ v.pressure[r.actor]["fatigue"] = Refreshed(r, w)
        /\ \A a \in Actors, k \in Measures :
            a # r.actor \/ k # "fatigue" => v.pressure[a][k] = w.pressure[a][k]
    BY <1>1, <2>2 DEF Typed, Pressures, Measures
  <2>4. "fatigue" \in Measures
    BY DEF Measures
  <2>5. Told({f}, w, v)
    BY <1>3, <2>1, <2>3, <2>4
  <2>. QED  BY <2>1, <2>5 DEF v
<1>8. CASE r.kind = "CONSUME"
  <2>. DEFINE f == Meal(r, w)
              v == Resolved(r, w)
  <2>1. /\ Facts(r, w) = {f} /\ f.kind = "ItemConsumed" /\ f.actor = r.actor
        /\ DOMAIN f.after = {"hunger"} /\ f.after["hunger"] = Fed(r, w)
        /\ f.before["hunger"] = w.pressure[r.actor]["hunger"]
    BY <1>8 DEF Facts, Meal
  <2>2. v.pressure = [w.pressure EXCEPT
            ![r.actor] = [w.pressure[r.actor] EXCEPT !.hunger = Fed(r, w)]]
    BY <1>8 DEF Resolved, Consumed, Typed, Fields
  <2>. HIDE DEF f, v
  <2>3. /\ v.pressure[r.actor]["hunger"] = Fed(r, w)
        /\ \A a \in Actors, k \in Measures :
            a # r.actor \/ k # "hunger" => v.pressure[a][k] = w.pressure[a][k]
    BY <1>1, <2>2 DEF Typed, Pressures, Measures
  <2>4. "hunger" \in Measures
    BY DEF Measures
  <2>5. Told({f}, w, v)
    BY <1>3, <2>1, <2>3, <2>4
  <2>. QED  BY <2>1, <2>5 DEF v
<1>. QED  BY <1>1, <1>4, <1>5, <1>6, <1>7, <1>8

\* A survival tick tells what it does to everybody; no other input does any.
LEMMA InputsTellPressure ==
    ASSUME NEW w, Typed(w), NEW input,
           input.kind \in {"SurvivalTick", "CollapseEastBridge", "TestReplace"}
    PROVE  Told(InputFacts(input, w), w, InputResolved(input, w))
<1>1. CASE input.kind = "SurvivalTick"
  <2>. DEFINE fact(a) == [kind |-> "SurvivalAdvanced", actor |-> a,
                          before |-> w.pressure[a], after |-> Worn(w.pressure[a])]
              v == InputResolved(input, w)
  <2>1. InputFacts(input, w) = {fact(a) : a \in Actors}
    BY <1>1 DEF InputFacts
  <2>2. v.pressure = [a \in Actors |-> Worn(w.pressure[a])]
    BY <1>1 DEF InputResolved, Typed, Fields
  <2>3. ASSUME NEW a \in Actors
        PROVE  /\ fact(a).kind = "SurvivalAdvanced" /\ fact(a).actor = a
               /\ fact(a).before = w.pressure[a] /\ fact(a).after = Worn(w.pressure[a])
               /\ DOMAIN fact(a).after = Measures
    BY DEF Worn, Measures
  <2>. HIDE DEF fact, v
  <2>4. ASSUME NEW a \in Actors, NEW m \in Measures
        PROVE  /\ Changes({fact(b) : b \in Actors}, a, m) = {fact(a)}
               /\ fact(a).before[m] = w.pressure[a][m] /\ fact(a).after[m] = v.pressure[a][m]
    BY <2>2, <2>3 DEF Changes
  <2>5. Told({fact(a) : a \in Actors}, w, v)
    BY <2>4 DEF Told
  <2>. QED  BY <2>1, <2>5 DEF v
<1>2. CASE input.kind # "SurvivalTick"
  <2>1. InputResolved(input, w).pressure = w.pressure
    BY <1>2 DEF InputResolved, Typed, Fields
  <2>2. \A f \in InputFacts(input, w) :
            f.kind \notin {"SurvivalAdvanced", "ItemConsumed", "ActorRested"}
    BY <1>2 DEF InputFacts
  <2>. QED  BY <2>1, <2>2 DEF Told, Changes
<1>. QED  BY <1>1, <1>2

\* Every step keeps pressure explained by the changes that were committed.
LEMMA PressureStep == PressureInv /\ [Next]_vars => PressureInv'
<1>. SUFFICES ASSUME PressureInv, [Next]_vars  PROVE PressureInv'
  OBVIOUS
<1>0. TypeInv /\ TypeInv' /\ Typed(world)
  BY TypeStep DEF PressureInv, TypeInv
<1>1. CASE UNCHANGED <<world, history>>
  <2>1. \A n, a, m : Moments(n, a, m)' = Moments(n, a, m)
    BY <1>1 DEF Moments, Changes
  <2>2. \A n, a, m : PressureAfter(n, a, m)' = PressureAfter(n, a, m)
    BY <1>1 DEF PressureAfter, Moments, Changes
  <2>3. PressureExplained' <=> PressureExplained
    BY <1>1, <2>2 DEF PressureExplained, Changes
  <2>. QED  BY <1>0, <1>1, <2>1, <2>3 DEF PressureInv, HasLast
<1>2. CASE Complete
  <2>1. PICK r \in Requests : r = action.request
    BY <1>0, <1>2 DEF Complete, AtCompletion, TypeInv
  <2>2. PICK facts : facts = Facts(r, world)
    OBVIOUS
  <2>3. PICK at : at = time
    OBVIOUS
  <2>4. world' = Resolved(r, world) /\ Commit("ACTION", r, at, facts)
    BY <1>2, <2>1, <2>2, <2>3 DEF Complete
  <2>5. Told(facts, world, world')
    BY <1>0, <2>2, <2>4, ActionsTellPressure
  <2>. QED  BY <1>0, <2>4, <2>5, ChangesExplained
<1>3. ASSUME NEW e \in pending, Execute(e)
      PROVE  PressureInv'
  <2>1. PICK input : input = Plan[e.insertion + 1]
    OBVIOUS
  <2>2. PICK facts : facts = InputFacts(input, world)
    OBVIOUS
  <2>3. e.insertion + 1 \in DOMAIN Plan
    BY <1>0, WorldAssumption DEF TypeInv, Entries
  <2>4. input.kind \in {"SurvivalTick", "CollapseEastBridge", "TestReplace"}
    BY <2>1, <2>3, WorldAssumption
  <2>5. world' = InputResolved(input, world) /\ Commit("SCHEDULED_EVENT", e.insertion, e.due, facts)
    BY <1>3, <2>1, <2>2 DEF Execute
  <2>6. Told(facts, world, world')
    BY <1>0, <2>2, <2>4, <2>5, InputsTellPressure
  <2>. QED  BY <1>0, <2>5, <2>6, ChangesExplained
<1>. QED
  BY <1>1, <1>2, <1>3
  DEF Next, vars, Schedule, Pass, Elapse, Fail, ExecuteFails, Begin

\* How hungry and tired everybody is follows from the committed changes alone,
\* each of which starts where the one before it ended: no tick that falls into a
\* meal or a rest is lost, or counted twice.
THEOREM PressureIsExplained == Spec => []PressureExplained
<1>1. Init => PressureInv
  <2>. SUFFICES ASSUME Init  PROVE PressureInv
    OBVIOUS
  <2>1. history = <<>> /\ world.pressure = Condition /\ TypeInv
    BY TypeInit DEF Init
  <2>2. Len(history) = 0 /\ DOMAIN history = {} /\ 0..0 = {0} /\ 1..0 = {}
    BY <2>1
  <2>3. \A n \in 0..Len(history), a \in Actors, m \in Measures : HasLast(Moments(n, a, m))
    BY <2>2 DEF HasLast, Moments
  <2>4. \A a \in Actors, m \in Measures : PressureAfter(Len(history), a, m) = Condition[a][m]
    BY <2>2 DEF PressureAfter, Moments
  <2>5. \A a \in Actors, m \in Measures : Condition[a][m] \in 0..Cap
    BY WorldAssumption DEF Pressures, Measures
  <2>. QED  BY <2>1, <2>2, <2>3, <2>4, <2>5 DEF PressureInv, PressureExplained, Measures
<1>2. PressureInv => PressureExplained
  BY DEF PressureInv
<1>. QED  BY <1>1, <1>2, PressureStep, PTL DEF Spec

(***************************************************************************)
(* Sums.  A sum over a finite set is folded in some order that nothing     *)
(* fixes.  It counts the pile in which every element lies as often as its  *)
(* amount says, so that the order makes no difference.                     *)
(***************************************************************************)

\* A set of natural numbers, unless empty, has a least element.
LEMMA LeastNumber ==
    ASSUME NEW S \in SUBSET Nat, S # {}
    PROVE  \E i \in S : \A j \in S : i <= j
<1>. DEFINE R == OpToRel(<, Nat)
<1>. HIDE DEF R
<1>1. IsWellFoundedOn(R, Nat)
  BY NatLessThanWellFounded DEF R
<1>2. \A x, y \in Nat : <<x, y>> \in R <=> x < y
  BY DEF R, OpToRel
<1>3. PICK i \in S : \A j \in S : ~(<<j, i>> \in R)
  BY <1>1, WFMin
<1>4. \A j \in S : ~(j < i)
  BY <1>2, <1>3
<1>. QED  BY <1>4

Pile(S, field) == {p \in S \X Nat : 1 <= p[2] /\ p[2] <= p[1][2][field]}

Amounts(S, field) == IsFiniteSet(S) /\ \A x \in S : x[2][field] \in Nat

\* The pile of one element is as high as its amount.
LEMMA PileOfOne ==
    ASSUME NEW x, NEW field, x[2][field] \in Nat
    PROVE  IsFiniteSet(Pile({x}, field)) /\ Cardinality(Pile({x}, field)) = x[2][field]
<1>1. PICK n \in Nat : n = x[2][field]
  OBVIOUS
<1>2. Pile({x}, field) = {x} \X (1..n)
  BY <1>1 DEF Pile
<1>3. IsFiniteSet(1..n) /\ Cardinality(1..n) = n
  BY FS_Interval
<1>4. IsFiniteSet({x}) /\ Cardinality({x}) = 1
  BY FS_Singleton
<1>5. IsFiniteSet({x} \X (1..n)) /\ Cardinality({x} \X (1..n)) = 1 * n
  BY <1>3, <1>4, FS_Product
<1>6. 1 * n = n
  OBVIOUS
<1>. QED  BY <1>1, <1>2, <1>5, <1>6, Zenon

\* The pile of a finite set is finite.
LEMMA PileFinite ==
    ASSUME NEW S, NEW field, Amounts(S, field)
    PROVE  IsFiniteSet(Pile(S, field))
<1>. DEFINE T == {Pile({x}, field) : x \in S}
            f == [x \in S |-> Pile({x}, field)]
<1>1. IsFiniteSet(T)
  <2>1. f \in Surjection(S, T)
    BY DEF Surjection
  <2>2. IsFiniteSet(S)
    BY DEF Amounts
  <2>. HIDE DEF f, T
  <2>. QED  BY <2>1, <2>2, FS_Surjection
<1>2. \A t \in T : IsFiniteSet(t)
  BY PileOfOne DEF Amounts
<1>3. Pile(S, field) = UNION T
  <2>1. ASSUME NEW p  PROVE p \in Pile(S, field) <=> \E x \in S : p \in Pile({x}, field)
    BY DEF Pile
  <2>. QED  BY <2>1
<1>. HIDE DEF T
<1>. QED  BY <1>1, <1>2, <1>3, FS_UNION

\* An element more makes the pile as much higher as its amount.
LEMMA PileGrows ==
    ASSUME NEW S, NEW field, Amounts(S, field), NEW x, x \notin S, x[2][field] \in Nat
    PROVE  /\ Cardinality(Pile(S, field)) \in Nat
           /\ Cardinality(Pile(S \union {x}, field)) = Cardinality(Pile(S, field)) + x[2][field]
<1>1. IsFiniteSet(Pile(S, field)) /\ IsFiniteSet(Pile({x}, field))
      /\ Cardinality(Pile({x}, field)) = x[2][field]
  BY PileFinite, PileOfOne
<1>2. Pile(S \union {x}, field) = Pile(S, field) \union Pile({x}, field)
  BY DEF Pile
<1>3. Pile(S, field) \intersect Pile({x}, field) = {}
  BY DEF Pile
<1>4. PICK low, high : low = Pile(S, field) /\ high = Pile({x}, field)
  OBVIOUS
<1>5. Cardinality({}) = 0 /\ Cardinality(low) \in Nat /\ Cardinality(high) \in Nat
  BY <1>1, <1>4, FS_EmptySet, FS_CardinalityType
<1>6. IsFiniteSet(low) /\ IsFiniteSet(high) /\ low \intersect high = {}
  BY <1>1, <1>3, <1>4
<1>7. Cardinality(low \union high)
        = Cardinality(low) + Cardinality(high) - Cardinality(low \intersect high)
  BY <1>6, FS_Union
<1>8. Cardinality(low \union high) = Cardinality(low) + Cardinality(high)
  <2>1. Cardinality(low \intersect high) = 0
    BY <1>5, <1>6, Zenon
  <2>2. Cardinality(low) + Cardinality(high) - 0 = Cardinality(low) + Cardinality(high)
    BY <1>5
  <2>. QED  BY <1>7, <2>1, <2>2, Zenon
<1>. QED  BY <1>1, <1>2, <1>4, <1>5, <1>8, Zenon

\* The recursion of the sum over the subsets of a set, read as an equation.
Picked(s) == CHOOSE x \in s : TRUE

Sums(S, field, f) ==
    f = [s \in SUBSET S |->
            IF s = {} THEN 0 ELSE Picked(s)[2][field] + f[s \ {Picked(s)}]]

\* The sum is the value, for the whole set, of a function that solves it.
LEMMA SumUnrolled ==
    ASSUME NEW S, NEW field  PROVE Summed(S, field) = (CHOOSE f : Sums(S, field, f))[S]
BY Zenon DEF Summed, MapThenSumSet, MapThenFoldSet, Sums, Picked

\* One element fewer, of a subset that has one.
LEMMA PickedLeft ==
    ASSUME NEW S, NEW field, Amounts(S, field), NEW s \in SUBSET S, s # {}
    PROVE  /\ Picked(s) \in s /\ s \ {Picked(s)} \in SUBSET S
           /\ Picked(s)[2][field] \in Nat
           /\ Cardinality(s) \in Nat /\ Cardinality(s \ {Picked(s)}) \in Nat
           /\ Cardinality(s \ {Picked(s)}) < Cardinality(s)
           /\ Cardinality(Pile(s, field))
                = Picked(s)[2][field] + Cardinality(Pile(s \ {Picked(s)}, field))
<1>. DEFINE x == Picked(s)
            t == s \ {x}
<1>1. x \in s
  BY DEF Picked
<1>. HIDE DEF x
<1>2. t \in SUBSET S /\ x[2][field] \in Nat /\ s = t \union {x} /\ x \notin t
  BY <1>1 DEF Amounts
<1>3. IsFiniteSet(s) /\ IsFiniteSet(t)
  BY <1>2, FS_Subset DEF Amounts
<1>4. Amounts(t, field)
  BY <1>2, <1>3 DEF Amounts
<1>5. Cardinality(s) \in Nat /\ Cardinality(t) \in Nat
  BY <1>3, FS_CardinalityType
<1>6. Cardinality(s) = Cardinality(t) + 1
  <2>1. Cardinality(t \union {x}) = Cardinality(t) + 1
    BY <1>2, <1>3, FS_AddElement
  <2>. QED  BY <1>2, <2>1
<1>7. Cardinality(Pile(t \union {x}, field)) = Cardinality(Pile(t, field)) + x[2][field]
      /\ Cardinality(Pile(t, field)) \in Nat
  BY <1>2, <1>4, PileGrows
<1>8. Cardinality(Pile(s, field)) = x[2][field] + Cardinality(Pile(t, field))
  <2>1. Cardinality(Pile(s, field)) = Cardinality(Pile(t \union {x}, field))
    BY <1>2, Zenon
  <2>2. PICK n, m : n = Cardinality(Pile(t, field)) /\ m = x[2][field]
    OBVIOUS
  <2>3. n \in Nat /\ m \in Nat
    BY <1>2, <1>7, <2>2, Zenon
  <2>4. n + m = m + n
    BY <2>3
  <2>. QED  BY <1>7, <2>1, <2>2, <2>4, Zenon
<1>. QED  BY <1>1, <1>2, <1>5, <1>6, <1>8 DEF x

\* The pile of nothing is empty.
LEMMA PileOfNone == ASSUME NEW field  PROVE Cardinality(Pile({}, field)) = 0
<1>1. Pile({}, field) = {}
  BY DEF Pile
<1>. QED  BY <1>1, FS_EmptySet

\* A sum counts the pile.
LEMMA SumIsPile ==
    ASSUME NEW S, NEW field, Amounts(S, field)
    PROVE  Summed(S, field) = Cardinality(Pile(S, field))
<1>. DEFINE G == [s \in SUBSET S |-> Cardinality(Pile(s, field))]
            F == CHOOSE f : Sums(S, field, f)
<1>1. Sums(S, field, G)
  <2>. DEFINE E == [s \in SUBSET S |->
                        IF s = {} THEN 0 ELSE Picked(s)[2][field] + G[s \ {Picked(s)}]]
  <2>1. ASSUME NEW s \in SUBSET S
        PROVE  Cardinality(Pile(s, field))
                 = IF s = {} THEN 0 ELSE Picked(s)[2][field] + G[s \ {Picked(s)}]
    <3>1. CASE s = {}
      BY <3>1, PileOfNone
    <3>2. CASE s # {}
      <4>1. s \ {Picked(s)} \in SUBSET S
            /\ Cardinality(Pile(s, field))
                 = Picked(s)[2][field] + Cardinality(Pile(s \ {Picked(s)}, field))
        BY <3>2, PickedLeft
      <4>2. G[s \ {Picked(s)}] = Cardinality(Pile(s \ {Picked(s)}, field))
        BY <4>1
      <4>. HIDE DEF G
      <4>. QED  BY <3>2, <4>1, <4>2
    <3>. QED  BY <3>1, <3>2
  <2>2. G = E
    BY <2>1
  <2>. QED  BY <2>2, Zenon DEF Sums
<1>. HIDE DEF G
<1>2. Sums(S, field, F)
  BY <1>1, Zenon
<1>. HIDE DEF F
<1>3. \A s \in SUBSET S :
        F[s] = IF s = {} THEN 0 ELSE Picked(s)[2][field] + F[s \ {Picked(s)}]
  BY <1>2, Zenon DEF Sums
<1>4. ASSUME NEW s \in SUBSET S  PROVE F[s] = Cardinality(Pile(s, field))
  <2>. DEFINE wrong == {n \in Nat : \E t \in SUBSET S :
                            Cardinality(t) = n /\ F[t] # Cardinality(Pile(t, field))}
  <2>1. Cardinality(s) \in Nat
    BY FS_Subset, FS_CardinalityType DEF Amounts
  <2>2. SUFFICES ASSUME wrong # {}  PROVE FALSE
    BY <2>1
  <2>3. PICK n \in wrong : \A k \in wrong : n <= k
    <3>1. wrong \in SUBSET Nat /\ wrong # {}
      BY <2>2
    <3>. HIDE DEF wrong
    <3>. QED  BY <3>1, LeastNumber
  <2>4. PICK t \in SUBSET S : Cardinality(t) = n /\ F[t] # Cardinality(Pile(t, field))
    BY <2>3
  <2>5. CASE t = {}
    <3>1. F[t] = 0
      BY <1>3, <2>5
    <3>. QED  BY <2>4, <2>5, <3>1, PileOfNone
  <2>6. CASE t # {}
    <3>. DEFINE u == t \ {Picked(t)}
    <3>1. /\ u \in SUBSET S /\ Cardinality(u) \in Nat /\ Cardinality(u) < Cardinality(t)
          /\ Cardinality(Pile(t, field)) = Picked(t)[2][field] + Cardinality(Pile(u, field))
      BY <2>6, PickedLeft
    <3>2. F[t] = Picked(t)[2][field] + F[u]
      BY <1>3, <2>6
    <3>. HIDE DEF u
    <3>3. F[u] # Cardinality(Pile(u, field))
      BY <2>4, <3>1, <3>2
    <3>4. Cardinality(u) \in wrong
      BY <3>1, <3>3
    <3>5. Cardinality(u) < n /\ n \in Nat
      BY <2>3, <2>4, <3>1
    <3>. HIDE DEF wrong
    <3>6. n <= Cardinality(u)
      BY <2>3, <3>4
    <3>. QED  BY <3>1, <3>5, <3>6
  <2>. QED  BY <2>5, <2>6
<1>5. Summed(S, field) = F[S]
  BY SumUnrolled DEF F
<1>. QED  BY <1>4, <1>5

\* The sum over nothing is nothing.
LEMMA SumOfNone == ASSUME NEW field  PROVE Summed({}, field) = 0
<1>1. Amounts({}, field)
  BY FS_EmptySet DEF Amounts
<1>. QED  BY <1>1, SumIsPile, PileOfNone

\* A transfer more adds its amount to the sum.
LEMMA SumGrows ==
    ASSUME NEW S, NEW field, Amounts(S, field), NEW x, x \notin S, x[2][field] \in Nat
    PROVE  /\ Summed(S, field) \in Nat
           /\ Summed(S \union {x}, field) = Summed(S, field) + x[2][field]
<1>1. Amounts(S \union {x}, field)
  BY FS_AddElement DEF Amounts
<1>. QED  BY <1>1, SumIsPile, PileGrows

\* A sum is a natural number.
LEMMA SumNat ==
    ASSUME NEW S, NEW field, Amounts(S, field)  PROVE Summed(S, field) \in Nat
BY SumIsPile, PileFinite, FS_CardinalityType

(***************************************************************************)
(* Accounts.  A transition emits at most one transfer, which its handler   *)
(* carries out in the same step.                                           *)
(***************************************************************************)
WellKept(transfers) ==
    /\ IsFiniteSet(transfers)
    /\ \A x \in transfers :
        /\ x[2].quantity \in Nat
        /\ x[2].kind = "ItemPurchased" => x[2].total \in Nat

AccountsInv ==
    /\ TypeInv
    /\ history \in Seq({history[i] : i \in DOMAIN history})
    /\ WellKept(Transfers)
    /\ AccountsBalance

\* Some of the transfers can be summed.
LEMMA PartAmounts ==
    ASSUME NEW T, WellKept(T), NEW P \in SUBSET T, NEW field,
           field = "quantity" \/ (field = "total" /\ \A y \in P : y[2].kind = "ItemPurchased")
    PROVE  Amounts(P, field)
<1>1. IsFiniteSet(P)
  BY FS_Subset DEF WellKept
<1>. QED  BY <1>1 DEF Amounts, WellKept

\* What an actor paid and earned, and what it got, gave away and ate of an item.
Paid(T, a) == Summed(Purchases(T, a), "total")
Earned(T, a) == Summed(Sales(T, a), "total")
Got(T, a, item) == Summed(Of(Purchases(T, a), item), "quantity")
Gave(T, a, item) == Summed(Of(Sales(T, a), item), "quantity")
Ate(T, a, item) == Summed(Of(Meals(T, a), item), "quantity")

\* The sums are natural numbers.
LEMMA SumsNat ==
    ASSUME NEW T, WellKept(T), NEW a, NEW item
    PROVE  /\ Paid(T, a) \in Nat /\ Earned(T, a) \in Nat
           /\ Got(T, a, item) \in Nat /\ Gave(T, a, item) \in Nat /\ Ate(T, a, item) \in Nat
<1>1. Amounts(Purchases(T, a), "total") /\ Amounts(Sales(T, a), "total")
  BY PartAmounts DEF Purchases, Sales
<1>2. /\ Amounts(Of(Purchases(T, a), item), "quantity")
      /\ Amounts(Of(Sales(T, a), item), "quantity")
      /\ Amounts(Of(Meals(T, a), item), "quantity")
  BY PartAmounts DEF Of, Purchases, Sales, Meals
<1>. QED  BY <1>1, <1>2, SumNat DEF Paid, Earned, Got, Gave, Ate

\* One purchase more is paid by the buyer, who gets the goods, and earned by the
\* seller, who gives them away.
LEMMA PurchaseCounted ==
    ASSUME NEW T, WellKept(T), NEW x, x \notin T, x[2].kind = "ItemPurchased",
           x[2].quantity \in Nat, x[2].total \in Nat, NEW a, NEW item
    PROVE  LET U == T \union {x} IN
           /\ Paid(U, a) = Paid(T, a) + (IF a = x[2].actor THEN x[2].total ELSE 0)
           /\ Earned(U, a) = Earned(T, a) + (IF a = x[2].seller THEN x[2].total ELSE 0)
           /\ Got(U, a, item) = Got(T, a, item)
                + (IF a = x[2].actor /\ item = x[2].item THEN x[2].quantity ELSE 0)
           /\ Gave(U, a, item) = Gave(T, a, item)
                + (IF a = x[2].seller /\ item = x[2].item THEN x[2].quantity ELSE 0)
           /\ Ate(U, a, item) = Ate(T, a, item)
<1>. DEFINE U == T \union {x}
<1>1. /\ Paid(T, a) \in Nat /\ Earned(T, a) \in Nat
      /\ Got(T, a, item) \in Nat /\ Gave(T, a, item) \in Nat
  BY SumsNat
<1>2. Paid(U, a) = Paid(T, a) + (IF a = x[2].actor THEN x[2].total ELSE 0)
  <2>1. Purchases(U, a) = Purchases(T, a) \union (IF a = x[2].actor THEN {x} ELSE {})
    BY DEF Purchases
  <2>2. Amounts(Purchases(T, a), "total") /\ x \notin Purchases(T, a)
    BY PartAmounts DEF Purchases
  <2>3. Summed(Purchases(T, a) \union {x}, "total") = Summed(Purchases(T, a), "total") + x[2].total
    BY <2>2, SumGrows
  <2>4. CASE a = x[2].actor
    <3>1. Purchases(U, a) = Purchases(T, a) \union {x}
      BY <2>1, <2>4
    <3>. QED  BY <2>3, <2>4, <3>1 DEF Paid
  <2>5. CASE ~(a = x[2].actor)
    <3>1. Purchases(U, a) = Purchases(T, a)
      BY <2>1, <2>5
    <3>. QED  BY <1>1, <2>5, <3>1 DEF Paid
  <2>. QED  BY <2>4, <2>5
<1>3. Earned(U, a) = Earned(T, a) + (IF a = x[2].seller THEN x[2].total ELSE 0)
  <2>1. Sales(U, a) = Sales(T, a) \union (IF a = x[2].seller THEN {x} ELSE {})
    BY DEF Sales
  <2>2. Amounts(Sales(T, a), "total") /\ x \notin Sales(T, a)
    BY PartAmounts DEF Sales
  <2>3. Summed(Sales(T, a) \union {x}, "total") = Summed(Sales(T, a), "total") + x[2].total
    BY <2>2, SumGrows
  <2>4. CASE a = x[2].seller
    <3>1. Sales(U, a) = Sales(T, a) \union {x}
      BY <2>1, <2>4
    <3>. QED  BY <2>3, <2>4, <3>1 DEF Earned
  <2>5. CASE ~(a = x[2].seller)
    <3>1. Sales(U, a) = Sales(T, a)
      BY <2>1, <2>5
    <3>. QED  BY <1>1, <2>5, <3>1 DEF Earned
  <2>. QED  BY <2>4, <2>5
<1>4. Got(U, a, item) = Got(T, a, item)
        + (IF a = x[2].actor /\ item = x[2].item THEN x[2].quantity ELSE 0)
  <2>. DEFINE P == Of(Purchases(T, a), item)
  <2>1. Of(Purchases(U, a), item)
          = P \union (IF a = x[2].actor /\ item = x[2].item THEN {x} ELSE {})
    BY DEF Purchases, Of
  <2>2. Amounts(P, "quantity") /\ x \notin P
    BY PartAmounts DEF Purchases, Of
  <2>3. Summed(P \union {x}, "quantity") = Summed(P, "quantity") + x[2].quantity
    BY <2>2, SumGrows
  <2>4. CASE a = x[2].actor /\ item = x[2].item
    <3>1. Of(Purchases(U, a), item) = P \union {x}
      BY <2>1, <2>4
    <3>. QED  BY <2>3, <2>4, <3>1 DEF Got
  <2>5. CASE ~(a = x[2].actor /\ item = x[2].item)
    <3>1. Of(Purchases(U, a), item) = P
      BY <2>1, <2>5
    <3>. QED  BY <1>1, <2>5, <3>1 DEF Got
  <2>. QED  BY <2>4, <2>5
<1>5. Gave(U, a, item) = Gave(T, a, item)
        + (IF a = x[2].seller /\ item = x[2].item THEN x[2].quantity ELSE 0)
  <2>. DEFINE P == Of(Sales(T, a), item)
  <2>1. Of(Sales(U, a), item)
          = P \union (IF a = x[2].seller /\ item = x[2].item THEN {x} ELSE {})
    BY DEF Sales, Of
  <2>2. Amounts(P, "quantity") /\ x \notin P
    BY PartAmounts DEF Sales, Of
  <2>3. Summed(P \union {x}, "quantity") = Summed(P, "quantity") + x[2].quantity
    BY <2>2, SumGrows
  <2>4. CASE a = x[2].seller /\ item = x[2].item
    <3>1. Of(Sales(U, a), item) = P \union {x}
      BY <2>1, <2>4
    <3>. QED  BY <2>3, <2>4, <3>1 DEF Gave
  <2>5. CASE ~(a = x[2].seller /\ item = x[2].item)
    <3>1. Of(Sales(U, a), item) = P
      BY <2>1, <2>5
    <3>. QED  BY <1>1, <2>5, <3>1 DEF Gave
  <2>. QED  BY <2>4, <2>5
<1>6. Ate(U, a, item) = Ate(T, a, item)
  <2>1. Meals(U, a) = Meals(T, a)
    BY DEF Meals
  <2>. QED  BY <2>1 DEF Ate
<1>. QED  BY <1>2, <1>3, <1>4, <1>5, <1>6

\* One meal more is eaten by the one whose meal it is.
LEMMA MealCounted ==
    ASSUME NEW T, WellKept(T), NEW x, x \notin T, x[2].kind = "ItemConsumed",
           x[2].quantity \in Nat, NEW a, NEW item
    PROVE  LET U == T \union {x} IN
           /\ Paid(U, a) = Paid(T, a) /\ Earned(U, a) = Earned(T, a)
           /\ Got(U, a, item) = Got(T, a, item) /\ Gave(U, a, item) = Gave(T, a, item)
           /\ Ate(U, a, item) = Ate(T, a, item)
                + (IF a = x[2].actor /\ item = x[2].item THEN x[2].quantity ELSE 0)
<1>. DEFINE U == T \union {x}
<1>1. Ate(T, a, item) \in Nat
  BY SumsNat
<1>2. Purchases(U, a) = Purchases(T, a) /\ Sales(U, a) = Sales(T, a)
  BY DEF Purchases, Sales
<1>3. Ate(U, a, item) = Ate(T, a, item)
        + (IF a = x[2].actor /\ item = x[2].item THEN x[2].quantity ELSE 0)
  <2>. DEFINE P == Of(Meals(T, a), item)
  <2>1. Of(Meals(U, a), item)
          = P \union (IF a = x[2].actor /\ item = x[2].item THEN {x} ELSE {})
    BY DEF Meals, Of
  <2>2. Amounts(P, "quantity") /\ x \notin P
    BY PartAmounts DEF Meals, Of
  <2>3. Summed(P \union {x}, "quantity") = Summed(P, "quantity") + x[2].quantity
    BY <2>2, SumGrows
  <2>4. CASE a = x[2].actor /\ item = x[2].item
    <3>1. Of(Meals(U, a), item) = P \union {x}
      BY <2>1, <2>4
    <3>. QED  BY <2>3, <2>4, <3>1 DEF Ate
  <2>5. CASE ~(a = x[2].actor /\ item = x[2].item)
    <3>1. Of(Meals(U, a), item) = P
      BY <2>1, <2>5
    <3>. QED  BY <1>1, <2>5, <3>1 DEF Ate
  <2>. QED  BY <2>4, <2>5
<1>. QED  BY <1>2, <1>3 DEF Paid, Earned, Got, Gave

\* The balance in these terms.
LEMMA BalanceMeans ==
    ASSUME NEW w, NEW T
    PROVE  Balanced(w, T) <=>
             \A a \in Actors :
                /\ w.purse[a] = Purses[a] - Paid(T, a) + Earned(T, a)
                /\ \A item \in Items :
                    w.goods[a][item] = Larder[a][item] + Got(T, a, item)
                                         - Gave(T, a, item) - Ate(T, a, item)
BY DEF Balanced, Paid, Earned, Got, Gave, Ate

\* A purchase that is carried out and emitted keeps the balance.
LEMMA PurchaseBalanced ==
    ASSUME NEW w, NEW v, NEW T, WellKept(T), Balanced(w, T),
           NEW x, x \notin T, x[2].kind = "ItemPurchased",
           x[2].quantity \in Nat, x[2].total \in Nat, x[2].actor # x[2].seller,
           \A a \in Actors : v.purse[a] =
                IF a = x[2].actor THEN w.purse[a] - x[2].total
                ELSE IF a = x[2].seller THEN w.purse[a] + x[2].total ELSE w.purse[a],
           \A a \in Actors, item \in Items : v.goods[a][item] =
                IF item # x[2].item THEN w.goods[a][item]
                ELSE IF a = x[2].actor THEN w.goods[a][item] + x[2].quantity
                ELSE IF a = x[2].seller THEN w.goods[a][item] - x[2].quantity
                ELSE w.goods[a][item]
    PROVE  Balanced(v, T \union {x})
<1>. DEFINE U == T \union {x}
<1>1. ASSUME NEW a \in Actors
      PROVE  v.purse[a] = Purses[a] - Paid(U, a) + Earned(U, a)
  <2>1. Paid(T, a) \in Nat /\ Earned(T, a) \in Nat /\ Purses[a] \in Nat
    BY SumsNat, WorldAssumption
  <2>2. w.purse[a] = Purses[a] - Paid(T, a) + Earned(T, a)
    BY BalanceMeans
  <2>3. /\ Paid(U, a) = Paid(T, a) + (IF a = x[2].actor THEN x[2].total ELSE 0)
        /\ Earned(U, a) = Earned(T, a) + (IF a = x[2].seller THEN x[2].total ELSE 0)
    BY PurchaseCounted
  <2>. HIDE DEF U
  <2>4. v.purse[a] =
                IF a = x[2].actor THEN w.purse[a] - x[2].total
                ELSE IF a = x[2].seller THEN w.purse[a] + x[2].total ELSE w.purse[a]
    OBVIOUS
  <2>. QED  BY <2>1, <2>2, <2>3, <2>4
<1>2. ASSUME NEW a \in Actors, NEW item \in Items
      PROVE  v.goods[a][item] = Larder[a][item] + Got(U, a, item) - Gave(U, a, item) - Ate(U, a, item)
  <2>1. /\ Got(T, a, item) \in Nat /\ Gave(T, a, item) \in Nat /\ Ate(T, a, item) \in Nat
        /\ Larder[a][item] \in Nat
    BY SumsNat, WorldAssumption
  <2>2. w.goods[a][item] = Larder[a][item] + Got(T, a, item) - Gave(T, a, item) - Ate(T, a, item)
    BY BalanceMeans
  <2>3. /\ Got(U, a, item) = Got(T, a, item)
             + (IF a = x[2].actor /\ item = x[2].item THEN x[2].quantity ELSE 0)
        /\ Gave(U, a, item) = Gave(T, a, item)
             + (IF a = x[2].seller /\ item = x[2].item THEN x[2].quantity ELSE 0)
        /\ Ate(U, a, item) = Ate(T, a, item)
    BY PurchaseCounted
  <2>. HIDE DEF U
  <2>4. v.goods[a][item] =
                IF item # x[2].item THEN w.goods[a][item]
                ELSE IF a = x[2].actor THEN w.goods[a][item] + x[2].quantity
                ELSE IF a = x[2].seller THEN w.goods[a][item] - x[2].quantity
                ELSE w.goods[a][item]
    OBVIOUS
  <2>. QED  BY <2>1, <2>2, <2>3, <2>4
<1>. HIDE DEF U
<1>3. Balanced(v, U)
  BY <1>1, <1>2, BalanceMeans
<1>. QED  BY <1>3 DEF U

\* So does a meal.
LEMMA MealBalanced ==
    ASSUME NEW w, NEW v, NEW T, WellKept(T), Balanced(w, T),
           NEW x, x \notin T, x[2].kind = "ItemConsumed", x[2].quantity \in Nat,
           v.purse = w.purse,
           \A a \in Actors, item \in Items : v.goods[a][item] =
                IF a = x[2].actor /\ item = x[2].item THEN w.goods[a][item] - x[2].quantity
                ELSE w.goods[a][item]
    PROVE  Balanced(v, T \union {x})
<1>. DEFINE U == T \union {x}
<1>1. ASSUME NEW a \in Actors
      PROVE  v.purse[a] = Purses[a] - Paid(U, a) + Earned(U, a)
  <2>1. w.purse[a] = Purses[a] - Paid(T, a) + Earned(T, a)
    BY BalanceMeans
  <2>2. Paid(U, a) = Paid(T, a) /\ Earned(U, a) = Earned(T, a)
    BY MealCounted
  <2>. QED  BY <2>1, <2>2
<1>2. ASSUME NEW a \in Actors, NEW item \in Items
      PROVE  v.goods[a][item] = Larder[a][item] + Got(U, a, item) - Gave(U, a, item) - Ate(U, a, item)
  <2>1. /\ Got(T, a, item) \in Nat /\ Gave(T, a, item) \in Nat /\ Ate(T, a, item) \in Nat
        /\ Larder[a][item] \in Nat
    BY SumsNat, WorldAssumption
  <2>2. w.goods[a][item] = Larder[a][item] + Got(T, a, item) - Gave(T, a, item) - Ate(T, a, item)
    BY BalanceMeans
  <2>3. /\ Got(U, a, item) = Got(T, a, item) /\ Gave(U, a, item) = Gave(T, a, item)
        /\ Ate(U, a, item) = Ate(T, a, item)
             + (IF a = x[2].actor /\ item = x[2].item THEN x[2].quantity ELSE 0)
    BY MealCounted
  <2>. HIDE DEF U
  <2>4. v.goods[a][item] =
                IF a = x[2].actor /\ item = x[2].item THEN w.goods[a][item] - x[2].quantity
                ELSE w.goods[a][item]
    OBVIOUS
  <2>. QED  BY <2>1, <2>2, <2>3, <2>4
<1>. HIDE DEF U
<1>3. Balanced(v, U)
  BY <1>1, <1>2, BalanceMeans
<1>. QED  BY <1>3 DEF U

\* What nobody's goods and purses notice keeps it too.
LEMMA NothingBalanced ==
    ASSUME NEW w, NEW v, NEW T, Balanced(w, T), v.purse = w.purse, v.goods = w.goods
    PROVE  Balanced(v, T)
BY DEF Balanced

Dealt(facts) == {f \in facts : f.kind \in {"ItemPurchased", "ItemConsumed"}}

\* A commit adds the transfers among its facts to those before it.
LEMMA TransfersAdded ==
    ASSUME history \in Seq({history[i] : i \in DOMAIN history}),
           NEW kind, NEW source, NEW at, NEW facts, Commit(kind, source, at, facts)
    PROVE  /\ Transfers' = Transfers \union {<<Len(history) + 1, f>> : f \in Dealt(facts)}
           /\ \A f : <<Len(history) + 1, f>> \notin Transfers
<1>. DEFINE D(i) == Dealt(history[i].facts)
            E(i) == Dealt(history'[i].facts)
<1>1. PICK n : n = Len(history)
  OBVIOUS
<1>2. /\ n \in Nat /\ DOMAIN history = 1..n /\ DOMAIN history' = 1..(n + 1)
      /\ \A i \in 1..n : history'[i] = history[i]
      /\ history'[n + 1].facts = facts
  BY <1>1, TransitionAdded
<1>3. \A p : p \in Transfers <=> \E i \in DOMAIN history : \E f \in D(i) : p = <<i, f>>
  BY DEF Transfers, FactsOf, Dealt
<1>4. \A p : p \in Transfers' <=> \E i \in DOMAIN history' : \E f \in E(i) : p = <<i, f>>
  BY DEF Transfers, FactsOf, Dealt
<1>5. \A i \in 1..n : E(i) = D(i)
  BY <1>2
<1>6. E(n + 1) = Dealt(facts)
  BY <1>2
<1>. HIDE DEF D, E
<1>7. 1..(n + 1) = 1..n \union {n + 1} /\ n + 1 \notin 1..n
  BY <1>2
<1>8. ASSUME NEW p
      PROVE  p \in Transfers' <=> p \in Transfers \/ \E f \in Dealt(facts) : p = <<n + 1, f>>
  <2>1. ASSUME p \in Transfers'
        PROVE  p \in Transfers \/ \E f \in Dealt(facts) : p = <<n + 1, f>>
    <3>1. PICK i \in 1..(n + 1) : \E f \in E(i) : p = <<i, f>>
      BY <1>2, <1>4, <2>1
    <3>2. CASE i \in 1..n
      BY <1>2, <1>3, <1>5, <3>1, <3>2
    <3>3. CASE i = n + 1
      BY <1>6, <3>1, <3>3
    <3>. QED  BY <1>7, <3>2, <3>3
  <2>2. ASSUME p \in Transfers  PROVE p \in Transfers'
    <3>1. PICK i \in 1..n : \E f \in D(i) : p = <<i, f>>
      BY <1>2, <1>3, <2>2
    <3>2. i \in DOMAIN history' /\ E(i) = D(i)
      BY <1>2, <1>5, <1>7
    <3>. QED  BY <1>4, <3>1, <3>2
  <2>3. ASSUME NEW f \in Dealt(facts), p = <<n + 1, f>>  PROVE p \in Transfers'
    <3>1. n + 1 \in DOMAIN history' /\ f \in E(n + 1)
      BY <1>2, <1>6, <1>7
    <3>. QED  BY <1>4, <2>3, <3>1
  <2>. QED  BY <2>1, <2>2, <2>3
<1>9. Transfers' = Transfers \union {<<n + 1, f>> : f \in Dealt(facts)}
  BY <1>8
<1>10. ASSUME NEW f, <<n + 1, f>> \in Transfers  PROVE FALSE
  <2>1. PICK i \in 1..n : \E g \in D(i) : <<n + 1, f>> = <<i, g>>
    BY <1>2, <1>3, <1>10
  <2>2. PICK g \in D(i) : <<n + 1, f>> = <<i, g>>
    BY <2>1
  <2>. QED  BY <1>7, <2>1, <2>2
<1>. QED  BY <1>1, <1>9, <1>10

\* The transfers stay well kept.
LEMMA KeepsWell ==
    ASSUME NEW T, WellKept(T), NEW x, x[2].quantity \in Nat,
           x[2].kind = "ItemPurchased" => x[2].total \in Nat
    PROVE  WellKept(T \union {x})
BY FS_AddElement DEF WellKept

\* What a purchase does to goods and purses, for one who has and one who gets.
LEMMA GoodsChangeHands ==
    ASSUME NEW w, Typed(w), NEW r \in Requests, r.kind = "BUY", Valid(r, w)
    PROVE  LET seller == w.offers[r.offer].seller
               ware == w.offers[r.offer].item
               v == Resolved(r, w)
           IN  /\ r.actor # seller /\ r.quantity \in Nat /\ Total(r, w) \in Nat
               /\ \A a \in Actors : v.purse[a] =
                    IF a = r.actor THEN w.purse[a] - Total(r, w)
                    ELSE IF a = seller THEN w.purse[a] + Total(r, w) ELSE w.purse[a]
               /\ \A a \in Actors, item \in Items : v.goods[a][item] =
                    IF item # ware THEN w.goods[a][item]
                    ELSE IF a = r.actor THEN w.goods[a][item] + r.quantity
                    ELSE IF a = seller THEN w.goods[a][item] - r.quantity
                    ELSE w.goods[a][item]
<1>1. r.actor \in Actors /\ r.quantity \in Nat /\ r.offer \in DOMAIN Listings
  BY WorldAssumption
<1>2. PICK offer \in Offers : offer = w.offers[r.offer]
  BY <1>1 DEF Typed
<1>3. PICK seller \in Actors, ware \in Items : seller = offer.seller /\ ware = offer.item
  BY DEF Offers
<1>4. r.actor # seller
  BY <1>2, <1>3 DEF Valid, CanBuy
<1>5. Total(r, w) \in Nat
  <2>1. offer.unit_price \in Nat
    BY DEF Offers
  <2>. QED  BY <1>1, <1>2, <2>1, ProductNat DEF Total
<1>. DEFINE left == [w.goods[seller] EXCEPT ![ware] = w.goods[seller][ware] - r.quantity]
            got == [w.goods[r.actor] EXCEPT ![ware] = w.goods[r.actor][ware] + r.quantity]
            paid == w.purse[r.actor] - Total(r, w)
            earned == w.purse[seller] + Total(r, w)
<1>6. /\ Resolved(r, w).goods = [w.goods EXCEPT ![seller] = left, ![r.actor] = got]
      /\ Resolved(r, w).purse = [w.purse EXCEPT ![r.actor] = paid, ![seller] = earned]
  BY <1>2, <1>3, ZenonT(30) DEF Resolved, Bought, Typed, Fields
<1>7. w.purse \in [Actors -> Nat] /\ w.goods \in [Actors -> [Items -> Nat]]
  BY DEF Typed
<1>8. ASSUME NEW a \in Actors
      PROVE  Resolved(r, w).purse[a] =
                IF a = r.actor THEN w.purse[a] - Total(r, w)
                ELSE IF a = seller THEN w.purse[a] + Total(r, w) ELSE w.purse[a]
  <2>. HIDE DEF paid, earned
  <2>1. Resolved(r, w).purse[a] =
                IF a = r.actor THEN paid ELSE IF a = seller THEN earned ELSE w.purse[a]
    BY <1>1, <1>4, <1>6, <1>7
  <2>. QED  BY <2>1 DEF paid, earned
<1>9. ASSUME NEW a \in Actors, NEW item \in Items
      PROVE  Resolved(r, w).goods[a][item] =
                    IF item # ware THEN w.goods[a][item]
                    ELSE IF a = r.actor THEN w.goods[a][item] + r.quantity
                    ELSE IF a = seller THEN w.goods[a][item] - r.quantity
                    ELSE w.goods[a][item]
  <2>1. left[item] = IF item = ware THEN w.goods[seller][ware] - r.quantity ELSE w.goods[seller][item]
    BY <1>7
  <2>2. got[item] = IF item = ware THEN w.goods[r.actor][ware] + r.quantity
                    ELSE w.goods[r.actor][item]
    BY <1>1, <1>7
  <2>. HIDE DEF left, got
  <2>3. Resolved(r, w).goods[a] = IF a = r.actor THEN got ELSE IF a = seller THEN left ELSE w.goods[a]
    BY <1>1, <1>4, <1>6, <1>7
  <2>. QED  BY <2>1, <2>2, <2>3
<1>. QED  BY <1>1, <1>2, <1>3, <1>4, <1>5, <1>8, <1>9

\* The transfers of the n-th transition are added to the others.
Booked(T, n, facts) == T \union {<<n, f>> : f \in Dealt(facts)}

\* What an action does to goods and purses, and what it says of it, balance.
LEMMA ActionsBalance ==
    ASSUME NEW w, Typed(w), NEW r \in Requests, Valid(r, w),
           NEW T, WellKept(T), Balanced(w, T), NEW n, \A f : <<n, f>> \notin T
    PROVE  WellKept(Booked(T, n, Facts(r, w))) /\ Balanced(Resolved(r, w), Booked(T, n, Facts(r, w)))
<1>. DEFINE U == Booked(T, n, Facts(r, w))
            v == Resolved(r, w)
<1>. USE DEF Booked
<1>1. r.kind \in {"MOVE", "WAIT", "REST", "CONSUME", "BUY"} /\ r.actor \in Actors
  BY WorldAssumption
<1>2. ASSUME v.purse = w.purse, v.goods = w.goods, Dealt(Facts(r, w)) = {}
      PROVE  WellKept(U) /\ Balanced(v, U)
  <2>1. U = T
    BY <1>2
  <2>. HIDE DEF U, v
  <2>. QED  BY <1>2, <2>1, NothingBalanced
<1>3. CASE r.kind = "MOVE"
  BY <1>2, <1>3 DEF Resolved, Moved, Facts, Dealt, Typed, Fields
<1>4. CASE r.kind = "WAIT"
  BY <1>2, <1>4 DEF Resolved, Facts, Dealt
<1>5. CASE r.kind = "REST"
  BY <1>2, <1>5 DEF Resolved, Rested, Facts, Dealt, Typed, Fields
<1>6. CASE r.kind = "CONSUME"
  <2>1. PICK f : f = Meal(r, w)
    OBVIOUS
  <2>2. /\ f.kind = "ItemConsumed" /\ f.actor = r.actor /\ f.item = r.item
        /\ f.quantity = r.quantity
    BY <2>1 DEF Meal
  <2>3. PICK x : x = <<n, f>>
    OBVIOUS
  <2>4. U = T \union {x} /\ x[2] = f /\ x \notin T
    <3>1. Facts(r, w) = {f}
      BY <1>6, <2>1 DEF Facts
    <3>2. Dealt(Facts(r, w)) = {f}
      BY <2>2, <3>1 DEF Dealt
    <3>. QED  BY <2>3, <3>2
  <2>5. r.quantity \in Nat /\ r.item \in Items
    BY <1>6, WorldAssumption
  <2>6. /\ v.purse = w.purse
        /\ v.goods = [w.goods EXCEPT ![r.actor] =
                        [w.goods[r.actor] EXCEPT ![r.item] = w.goods[r.actor][r.item] - r.quantity]]
    BY <1>6 DEF Resolved, Consumed, Typed, Fields
  <2>. HIDE DEF U, v
  <2>7. \A a \in Actors, item \in Items : v.goods[a][item] =
            IF a = r.actor /\ item = r.item THEN w.goods[a][item] - r.quantity
            ELSE w.goods[a][item]
    <3>. DEFINE left == [w.goods[r.actor] EXCEPT ![r.item] = w.goods[r.actor][r.item] - r.quantity]
    <3>1. w.goods \in [Actors -> [Items -> Nat]]
      BY DEF Typed
    <3>2. \A item \in Items : left[item] =
            IF item = r.item THEN w.goods[r.actor][item] - r.quantity ELSE w.goods[r.actor][item]
      BY <1>1, <3>1
    <3>. HIDE DEF left
    <3>3. \A a \in Actors : v.goods[a] = IF a = r.actor THEN left ELSE w.goods[a]
      BY <1>1, <2>6, <3>1 DEF left
    <3>. QED  BY <3>2, <3>3
  <2>8. /\ x[2].kind = "ItemConsumed" /\ x[2].actor = r.actor /\ x[2].item = r.item
        /\ x[2].quantity = r.quantity /\ r.quantity \in Nat /\ x \notin T
    BY <2>2, <2>4, <2>5
  <2>9. Balanced(v, T \union {x})
    <3>1. \A a \in Actors, item \in Items : v.goods[a][item] =
            IF a = x[2].actor /\ item = x[2].item THEN w.goods[a][item] - x[2].quantity
            ELSE w.goods[a][item]
      BY <2>7, <2>8
    <3>2. x[2].kind = "ItemConsumed" /\ x[2].quantity \in Nat /\ x \notin T /\ v.purse = w.purse
      BY <2>6, <2>8
    <3>. QED  BY <3>1, <3>2, MealBalanced
  <2>10. WellKept(T \union {x})
    BY <2>8, KeepsWell
  <2>. QED  BY <2>4, <2>9, <2>10, Zenon DEF U, v
<1>7. CASE r.kind = "BUY"
  <2>1. PICK f : f = [kind |-> "ItemPurchased", actor |-> r.actor,
                      seller |-> w.offers[r.offer].seller, item |-> w.offers[r.offer].item,
                      quantity |-> r.quantity, total |-> Total(r, w)]
    OBVIOUS
  <2>2. /\ f.kind = "ItemPurchased" /\ f.actor = r.actor
        /\ f.seller = w.offers[r.offer].seller /\ f.item = w.offers[r.offer].item
        /\ f.quantity = r.quantity /\ f.total = Total(r, w)
    BY <2>1
  <2>3. PICK x : x = <<n, f>>
    OBVIOUS
  <2>4. U = T \union {x} /\ x[2] = f /\ x \notin T
    <3>1. Facts(r, w) = {f}
      BY <1>7, <2>1 DEF Facts
    <3>2. Dealt(Facts(r, w)) = {f}
      BY <2>2, <3>1 DEF Dealt
    <3>. QED  BY <2>3, <3>2
  <2>. HIDE DEF U
  <2>5. /\ f.actor # f.seller /\ f.quantity \in Nat /\ f.total \in Nat
        /\ \A a \in Actors : v.purse[a] =
                IF a = f.actor THEN w.purse[a] - f.total
                ELSE IF a = f.seller THEN w.purse[a] + f.total ELSE w.purse[a]
        /\ \A a \in Actors, item \in Items : v.goods[a][item] =
                IF item # f.item THEN w.goods[a][item]
                ELSE IF a = f.actor THEN w.goods[a][item] + f.quantity
                ELSE IF a = f.seller THEN w.goods[a][item] - f.quantity
                ELSE w.goods[a][item]
    BY <1>7, <2>2, GoodsChangeHands
  <2>. HIDE DEF v
  <2>6. Balanced(v, T \union {x})
    BY <2>2, <2>4, <2>5, PurchaseBalanced
  <2>7. WellKept(T \union {x})
    BY <2>4, <2>5, KeepsWell
  <2>. QED  BY <2>4, <2>6, <2>7, Zenon DEF U, v
<1>. QED  BY <1>1, <1>3, <1>4, <1>5, <1>6, <1>7

\* No scheduled input gives or takes.
LEMMA InputsKeepGoods ==
    ASSUME NEW w, Typed(w), NEW input,
           input.kind \in {"SurvivalTick", "CollapseEastBridge", "TestReplace"}
    PROVE  /\ InputResolved(input, w).purse = w.purse /\ InputResolved(input, w).goods = w.goods
           /\ Dealt(InputFacts(input, w)) = {}
<1>1. CASE input.kind = "SurvivalTick"
  <2>1. InputResolved(input, w) = [w EXCEPT !.pressure = [a \in Actors |-> Worn(w.pressure[a])]]
    BY <1>1 DEF InputResolved
  <2>2. InputResolved(input, w).purse = w.purse /\ InputResolved(input, w).goods = w.goods
    BY <2>1 DEF Typed, Fields
  <2>3. \A f \in InputFacts(input, w) : f.kind = "SurvivalAdvanced"
    BY <1>1 DEF InputFacts
  <2>. QED  BY <2>2, <2>3 DEF Dealt
<1>2. CASE input.kind = "CollapseEastBridge"
  <2>1. InputResolved(input, w) = [w EXCEPT !.routes = Closed(w), !.bridge = "collapsed"]
    BY <1>2 DEF InputResolved
  <2>2. InputResolved(input, w).purse = w.purse /\ InputResolved(input, w).goods = w.goods
    BY <2>1 DEF Typed, Fields
  <2>3. \A f \in InputFacts(input, w) : f.kind = "BridgeCollapsed"
    BY <1>2 DEF InputFacts
  <2>. QED  BY <2>2, <2>3 DEF Dealt
<1>3. CASE input.kind = "TestReplace"
  <2>1. InputResolved(input, w) = [w EXCEPT !.offers = input.offers]
    BY <1>3 DEF InputResolved
  <2>2. InputResolved(input, w).purse = w.purse /\ InputResolved(input, w).goods = w.goods
    BY <2>1 DEF Typed, Fields
  <2>. QED  BY <1>3, <2>2 DEF InputFacts, Dealt
<1>. QED  BY <1>1, <1>2, <1>3

\* Every step keeps the accounts.
LEMMA AccountsStep == AccountsInv /\ [Next]_vars => AccountsInv'
<1>. SUFFICES ASSUME AccountsInv, [Next]_vars  PROVE AccountsInv'
  OBVIOUS
<1>0. TypeInv /\ TypeInv' /\ Typed(world)
  BY TypeStep DEF AccountsInv, TypeInv
<1>1. CASE UNCHANGED <<world, history>>
  <2>1. Transfers' = Transfers
    BY <1>1 DEF Transfers, FactsOf
  <2>. QED  BY <1>0, <1>1, <2>1 DEF AccountsInv, AccountsBalance
<1>2. PICK T, n : T = Transfers /\ n = Len(history) + 1
  OBVIOUS
<1>3. WellKept(T) /\ Balanced(world, T)
  BY <1>2 DEF AccountsInv, AccountsBalance
<1>4. CASE Complete
  <2>1. PICK r \in Requests : r = action.request
    BY <1>0, <1>4 DEF Complete, AtCompletion, TypeInv
  <2>2. PICK facts, at : facts = Facts(r, world) /\ at = time
    OBVIOUS
  <2>3. Valid(r, world) /\ world' = Resolved(r, world) /\ Commit("ACTION", r, at, facts)
    BY <1>4, <2>1, <2>2 DEF Complete, Completes
  <2>4. history' \in Seq({history'[i] : i \in DOMAIN history'})
    BY <2>3, TransitionAdded DEF AccountsInv
  <2>5. Transfers' = T \union {<<n, f>> : f \in Dealt(facts)} /\ \A f : <<n, f>> \notin T
    BY <1>2, <2>3, TransfersAdded DEF AccountsInv
  <2>. DEFINE U == Booked(T, n, Facts(r, world))
  <2>6. WellKept(U) /\ Balanced(Resolved(r, world), U)
    BY <1>0, <1>3, <2>3, <2>5, ActionsBalance
  <2>7. Transfers' = U
    BY <2>2, <2>5 DEF Booked
  <2>. HIDE DEF U
  <2>8. WellKept(Transfers') /\ Balanced(world', Transfers')
    BY <2>3, <2>6, <2>7, Zenon
  <2>. QED  BY <1>0, <2>4, <2>8 DEF AccountsInv, AccountsBalance
<1>5. ASSUME NEW e \in pending, Execute(e)
      PROVE  AccountsInv'
  <2>1. PICK input, facts : input = Plan[e.insertion + 1] /\ facts = InputFacts(input, world)
    OBVIOUS
  <2>2. e.insertion + 1 \in DOMAIN Plan
    BY <1>0, WorldAssumption DEF TypeInv, Entries
  <2>3. input.kind \in {"SurvivalTick", "CollapseEastBridge", "TestReplace"}
    BY <2>1, <2>2, WorldAssumption
  <2>4. world' = InputResolved(input, world) /\ Commit("SCHEDULED_EVENT", e.insertion, e.due, facts)
    BY <1>5, <2>1 DEF Execute
  <2>5. history' \in Seq({history'[i] : i \in DOMAIN history'})
    BY <2>4, TransitionAdded DEF AccountsInv
  <2>6. world'.purse = world.purse /\ world'.goods = world.goods /\ Dealt(facts) = {}
    BY <1>0, <2>1, <2>3, <2>4, InputsKeepGoods
  <2>7. Transfers' = T
    <3>1. Transfers' = T \union {<<n, f>> : f \in Dealt(facts)}
      BY <1>2, <2>4, TransfersAdded DEF AccountsInv
    <3>. QED  BY <2>6, <3>1
  <2>8. Balanced(world', T)
    BY <1>3, <2>6, NothingBalanced
  <2>. QED  BY <1>0, <1>3, <2>5, <2>7, <2>8 DEF AccountsInv, AccountsBalance
<1>. QED
  BY <1>1, <1>4, <1>5
  DEF Next, vars, Schedule, Pass, Elapse, Fail, ExecuteFails, Begin

\* How everybody is and what everybody has follows from the committed events
\* alone: no tick is lost or counted twice, and neither money nor goods are
\* made or lost, whatever anybody buys and eats while ticks and new offers fall
\* due.
THEOREM LivingIsExplained == Spec => []LivingExplained
<1>1. Init => AccountsInv
  <2>. SUFFICES ASSUME Init  PROVE AccountsInv
    OBVIOUS
  <2>1. /\ history = <<>> /\ world.purse = Purses /\ world.goods = Larder /\ TypeInv
    BY TypeInit DEF Init
  <2>2. Transfers = {}
    BY <2>1 DEF Transfers
  <2>3. WellKept({})
    BY FS_EmptySet DEF WellKept
  <2>4. ASSUME NEW a \in Actors, NEW item \in Items
        PROVE  /\ Paid({}, a) = 0 /\ Earned({}, a) = 0
               /\ Got({}, a, item) = 0 /\ Gave({}, a, item) = 0 /\ Ate({}, a, item) = 0
    <3>1. Purchases({}, a) = {} /\ Sales({}, a) = {} /\ Meals({}, a) = {} /\ Of({}, item) = {}
      BY DEF Purchases, Sales, Meals, Of
    <3>. QED  BY <3>1, SumOfNone DEF Paid, Earned, Got, Gave, Ate
  <2>5. ASSUME NEW a \in Actors  PROVE world.purse[a] = Purses[a] - Paid({}, a) + Earned({}, a)
    <3>1. Purses[a] \in Nat
      BY WorldAssumption
    <3>2. Paid({}, a) = 0 /\ Earned({}, a) = 0
      <4>1. Purchases({}, a) = {} /\ Sales({}, a) = {}
        BY DEF Purchases, Sales
      <4>. QED  BY <4>1, SumOfNone DEF Paid, Earned
    <3>. QED  BY <2>1, <3>1, <3>2
  <2>6. ASSUME NEW a \in Actors, NEW item \in Items
        PROVE  world.goods[a][item] = Larder[a][item] + Got({}, a, item)
                                        - Gave({}, a, item) - Ate({}, a, item)
    <3>1. Larder[a][item] \in Nat
      BY WorldAssumption
    <3>. QED  BY <2>1, <2>4, <3>1
  <2>7. Balanced(world, {})
    BY <2>5, <2>6, BalanceMeans
  <2>. QED  BY <2>1, <2>2, <2>3, <2>7 DEF AccountsInv, AccountsBalance
<1>2. AccountsInv => AccountsBalance
  BY DEF AccountsInv
<1>. QED  BY <1>1, <1>2, AccountsStep, PressureIsExplained, PTL DEF Spec, LivingExplained
=============================================================================
